-------------------------- MODULE SmartidCmdProofs --------------------------
(***************************************************************************)
(* What a Smart-I command line can do to a session of the daemon, whatever *)
(* the dive computer and the link do: the facts that the proofs about the  *)
(* daemon and about the client's session both rest on.                     *)
(***************************************************************************)
EXTENDS SmartidCmd, TLAPS

(* What the exchanges with the device can end in. *)

Exchanges == [rc : Nat, val : Vals, link : Links, late : BOOLEAN, fate : Fates]

(* An answer may be on its way only on a socket that was connected.        *)
LateOK(link, late) == late => link \in {"connected", "lost"}

(* An exchange begun with no answer outstanding: none but this command's   *)
(* answer is returned, and only a failure leaves one outstanding.          *)
CleanExchange(x) ==
  /\ x \in Exchanges /\ x.val # "late" /\ LateOK(x.link, x.late)
  /\ x.rc = 0 \/ x.fate # "run" => x.link \in {"connected", "lost"} /\ ~x.late

(* The values an exchange is built from.                                   *)
LEMMA ExchangeType ==
  ASSUME NEW rc \in Nat, NEW val \in Vals, NEW link \in Links,
         NEW late \in BOOLEAN, NEW fate \in Fates
  PROVE  /\ Exchange(rc, val, link, late, fate) \in Exchanges
         /\ Exchange(rc, val, link, late, fate).rc = rc
         /\ Exchange(rc, val, link, late, fate).val = val
         /\ Exchange(rc, val, link, late, fate).link = link
         /\ Exchange(rc, val, link, late, fate).late = late
         /\ Exchange(rc, val, link, late, fate).fate = fate
  BY DEF Exchange, Exchanges

(* smart_driver_cmd on a link with no answer outstanding.                  *)
LEMMA DriverCmdClean ==
  ASSUME NEW link \in Links, NEW x \in smart_driver_cmd(link, FALSE)
  PROVE  CleanExchange(x)
  <1>1. ASSUME NEW rc \in {IO_ERROR, TIMEOUT}, NEW lk \in Links, NEW fate \in Fates,
               fate # "run" => lk = "lost", x = Exchange(rc, "none", lk, FALSE, fate)
        PROVE  CleanExchange(x)
    <2>1. rc \in Nat /\ rc # 0 /\ "none" \in Vals BY DEF IO_ERROR, TIMEOUT, Vals
    <2>2. x \in Exchanges BY <1>1, <2>1, ExchangeType
    <2>3. /\ x.rc # 0 /\ x.val = "none" /\ x.late = FALSE
          /\ x.fate # "run" => x.link = "lost"
      BY <1>1, <2>1 DEF Exchange
    <2> QED BY <2>2, <2>3 DEF CleanExchange, LateOK
  <1>2. ASSUME NEW rc \in Nat, NEW val \in Vals \ {"late"}, NEW lk \in {"connected", "lost"},
               NEW late \in BOOLEAN, rc = 0 => ~late,
               x = Exchange(rc, val, lk, late, "run")
        PROVE  CleanExchange(x)
    BY <1>2, ExchangeType DEF CleanExchange, LateOK, Links, Fates
  <1>3. CASE x \in WriteFailures(link, FALSE)
    BY <1>1, <1>3 DEF WriteFailures, Links, Fates
  <1>4. CASE x \in ReadResults(FALSE)
    <2>1. \/ x = Exchange(0, "fresh", "connected", FALSE, "run")
          \/ x = Exchange(IO_ERROR, "none", "connected", TRUE, "run")
          \/ x = Exchange(TIMEOUT, "none", "connected", TRUE, "run")
          \/ x = Exchange(0, "junk", "lost", FALSE, "run")
      BY <1>4 DEF ReadResults
    <2>2. {"fresh", "none", "junk"} \subseteq Vals \ {"late"} BY DEF Vals
    <2>3. {0, IO_ERROR, TIMEOUT} \subseteq Nat /\ IO_ERROR # 0 /\ TIMEOUT # 0
      BY DEF IO_ERROR, TIMEOUT
    <2> QED BY <1>2, <2>1, <2>2, <2>3
  <1> QED BY <1>3, <1>4 DEF smart_driver_cmd

(* One phase of the handshake, likewise.                                   *)
LEMMA PhaseClean ==
  ASSUME NEW link \in Links, NEW x \in HandshakePhase(link, FALSE)
  PROVE  CleanExchange(x)
  <1>1. CASE x \in smart_driver_cmd(link, FALSE)
    BY <1>1, DriverCmdClean
  <1>2. CASE x \notin smart_driver_cmd(link, FALSE)
    <2>1. PICK y \in smart_driver_cmd(link, FALSE) : x = [y EXCEPT !.rc = HANDSHAKE_ERROR]
      BY <1>2 DEF HandshakePhase
    <2>2. CleanExchange(y) BY DriverCmdClean
    <2> QED BY <2>1, <2>2 DEF CleanExchange, Exchanges, HANDSHAKE_ERROR
  <1> QED BY <1>1, <1>2

(* Both phases of smart_driver_handshake.                                  *)
LEMMA HandshakeClean ==
  ASSUME NEW link \in Links, NEW x \in smart_driver_handshake(link, FALSE)
  PROVE  CleanExchange(x)
  <1>1. PICK y \in HandshakePhase(link, FALSE) :
          x \in IF y.rc = 0 /\ y.fate = "run" THEN HandshakePhase(y.link, y.late) ELSE {y}
    BY DEF smart_driver_handshake, AndThen
  <1>2. CleanExchange(y) BY PhaseClean
  <1>3. CASE y.rc = 0 /\ y.fate = "run"
    <2>1. x \in HandshakePhase(y.link, FALSE) /\ y.link \in Links
      BY <1>1, <1>2, <1>3 DEF CleanExchange, Exchanges
    <2> QED BY <2>1, PhaseClean
  <1>4. CASE ~(y.rc = 0 /\ y.fate = "run")
    BY <1>1, <1>2, <1>4
  <1> QED BY <1>3, <1>4

(* OPEN's connect, handshake and tick count: connecting succeeds only on a *)
(* socket that never was connected, so no old answer can reach the handle. *)
LEMMA ConnectClean ==
  ASSUME NEW link \in Links, NEW late \in BOOLEAN, LateOK(link, late),
         NEW x \in smartid_dev_connect(link, late)
  PROVE  CleanExchange(x)
  <1> DEFINE shaken == AndThen(irda_socket_connect_lsap(link, late), smart_driver_handshake)
  <1>1. \A y \in irda_socket_connect_lsap(link, late) :
          /\ y \in Exchanges /\ y.val # "late" /\ LateOK(y.link, y.late)
          /\ y.rc = 0 => y.late = FALSE /\ y.link = "connected"
          /\ y.fate = "run"
    BY DEF irda_socket_connect_lsap, Exchange, Exchanges, LateOK, Vals, Links, Fates, CONNECT_ERROR
  <1>2. \A y \in shaken : CleanExchange(y)
    <2> SUFFICES ASSUME NEW y \in shaken PROVE CleanExchange(y)
      OBVIOUS
    <2>1. PICK z \in irda_socket_connect_lsap(link, late) :
            y \in IF z.rc = 0 /\ z.fate = "run" THEN smart_driver_handshake(z.link, z.late) ELSE {z}
      BY DEF AndThen
    <2>2. CASE z.rc = 0 /\ z.fate = "run"
      <3>1. y \in smart_driver_handshake(z.link, FALSE) /\ z.link \in Links
        BY <1>1, <2>1, <2>2 DEF Exchanges
      <3> QED BY <3>1, HandshakeClean
    <2>3. CASE ~(z.rc = 0 /\ z.fate = "run")
      BY <1>1, <2>1, <2>3 DEF CleanExchange
    <2> QED BY <2>2, <2>3
  <1> HIDE DEF shaken
  <1>3. PICK y \in shaken :
          x \in IF y.rc = 0 /\ y.fate = "run" THEN smart_driver_cmd(y.link, y.late) ELSE {y}
    BY DEF smartid_dev_connect, AndThen, shaken
  <1>4. CASE y.rc = 0 /\ y.fate = "run"
    <2>1. x \in smart_driver_cmd(y.link, FALSE) /\ y.link \in Links
      BY <1>2, <1>3, <1>4 DEF CleanExchange, Exchanges
    <2> QED BY <2>1, DriverCmdClean
  <1>5. CASE ~(y.rc = 0 /\ y.fate = "run")
    BY <1>2, <1>3, <1>5
  <1> QED BY <1>4, <1>5

-----------------------------------------------------------------------------
(* What a command line does to its session. *)

NotLate == {r \in Replies : r.val # "late"}

SessionOK(s) ==
  s \in Sessions /\ Settled(s) /\ LateOK(s.link, s.late) /\ s.dev.ticks # "late"

OutcomeOK(o) == SessionOK(o.s) /\ o.replies \in Seq(NotLate) /\ o.fate \in Fates

(* A reply line that carries no late answer.                               *)
LEMMA ReplyNotLate ==
  ASSUME NEW code \in Nat, NEW kind \in Kinds,
         NEW val \in (Vals \cup DeviceNames) \ {"late"}, NEW tok \in Tokens
  PROVE  Reply(code, kind, val, tok) \in NotLate
  BY DEF Reply, NotLate, Replies

(* A status line.                                                          *)
LEMMA StatusNotLate ==
  ASSUME NEW code \in Nat, NEW kind \in Kinds
  PROVE  Status(code, kind) \in NotLate
  BY ReplyNotLate, TokensAssumption DEF Status, Vals

(* An outcome from its parts.                                              *)
LEMMA OutcomeParts ==
  ASSUME NEW s, SessionOK(s), NEW replies \in Seq(NotLate), NEW fate \in Fates
  PROVE  OutcomeOK(Outcome(s, replies, fate))
  BY DEF OutcomeOK, Outcome

(* One reply, and back to the event loop.                                  *)
LEMMA JustOK ==
  ASSUME NEW s, SessionOK(s), NEW r \in NotLate, NEW o \in Just(s, r)
  PROVE  OutcomeOK(o)
  <1>1. <<r>> \in Seq(NotLate) /\ "run" \in Fates BY DEF Fates
  <1> QED BY <1>1, OutcomeParts DEF Just

(* Disposing the handle of any session whose link is accounted for.        *)
LEMMA DisposeOK ==
  ASSUME NEW s \in Sessions, LateOK(s.link, s.late)
  PROVE  SessionOK(smartid_dev_dispose(s))
  <1>1. NoDev \in Devs /\ NoDev.open = FALSE /\ NoDev.ticks = "none"
    BY TokensAssumption DEF NoDev, Devs, Vals
  <1>2. smartid_dev_dispose(s) \in Sessions /\ smartid_dev_dispose(s).dev = NoDev
    BY <1>1 DEF smartid_dev_dispose, Sessions
  <1>3. smartid_dev_dispose(s).link = s.link /\ smartid_dev_dispose(s).late = s.late
    BY DEF smartid_dev_dispose, Sessions
  <1> QED BY <1>1, <1>2, <1>3 DEF SessionOK, Settled

(* The session after an exchange.                                          *)
LEMMA AfterType ==
  ASSUME NEW s \in Sessions, NEW x \in Exchanges
  PROVE  /\ After(s, x) \in Sessions /\ After(s, x).dev = s.dev
         /\ After(s, x).link = x.link /\ After(s, x).late = x.late
  BY DEF After, Sessions, Exchanges

(* It is in order if the exchange left nothing outstanding.                *)
LEMMA AfterOK ==
  ASSUME NEW s, SessionOK(s), NEW x, CleanExchange(x), x.rc = 0 \/ x.fate # "run"
  PROVE  SessionOK(After(s, x))
  BY AfterType DEF SessionOK, CleanExchange, Settled, LateOK

(* DeviceFailed: whatever the exchange left, the handle is gone or the     *)
(* process is.                                                             *)
LEMMA FailedOK ==
  ASSUME NEW s, SessionOK(s), NEW x, CleanExchange(x), NEW o \in DeviceFailed(s, x)
  PROVE  OutcomeOK(o)
  <1>1. CASE x.fate # "run"
    <2>1. <<>> \in Seq(NotLate) /\ x.fate \in Fates BY DEF CleanExchange, Exchanges
    <2> QED BY <1>1, <2>1, AfterOK, OutcomeParts DEF DeviceFailed
  <1>2. CASE x.fate = "run"
    <2>1. SessionOK(smartid_dev_dispose(After(s, x)))
      BY AfterType, DisposeOK DEF SessionOK, CleanExchange
    <2>2. Status(x.rc, "error") \in NotLate
      BY StatusNotLate DEF CleanExchange, Exchanges, Kinds
    <2> QED BY <1>2, <2>1, <2>2, JustOK DEF DeviceFailed
  <1> QED BY <1>1, <1>2

(* MODEL, SERIAL and SIZE: with a device open nothing is outstanding, so   *)
(* the answer is this command's.                                           *)
LEMMA AskOK ==
  ASSUME NEW s, SessionOK(s), s.dev.open, NEW kind \in Kinds, NEW tok \in Tokens,
         NEW o \in AskDevice(s, kind, tok)
  PROVE  OutcomeOK(o)
  <1>1. s.late = FALSE /\ s.link \in Links
    BY DEF SessionOK, Settled, Sessions
  <1>2. PICK x \in smart_driver_cmd(s.link, s.late) :
          o \in IF x.rc = 0 /\ x.fate = "run"
                THEN Just(After(s, x), Reply(INFO, kind, x.val, tok))
                ELSE DeviceFailed(s, x)
    BY DEF AskDevice
  <1>3. CleanExchange(x) BY <1>1, DriverCmdClean
  <1>4. CASE x.rc = 0 /\ x.fate = "run"
    <2>1. Reply(INFO, kind, x.val, tok) \in NotLate
      BY <1>3, ReplyNotLate DEF CleanExchange, Exchanges, INFO
    <2> QED BY <1>2, <1>3, <1>4, <2>1, AfterOK, JustOK
  <1>5. CASE ~(x.rc = 0 /\ x.fate = "run")
    BY <1>2, <1>3, <1>5, FailedOK
  <1> QED BY <1>4, <1>5

(* OPEN stores the tick count of a device it has just connected to.        *)
LEMMA OpenOK ==
  ASSUME NEW s, SessionOK(s), NEW o \in smartid_cmd_open(s)
  PROVE  OutcomeOK(o)
  <1> DEFINE opened(x) == [After(s, x) EXCEPT !.dev = [open |-> TRUE, tok |-> 0, ticks |-> x.val]]
  <1>1. /\ Status(EXISTS, "error") \in NotLate /\ Status(INTERNAL_ERROR, "error") \in NotLate
        /\ Status(SUCCESS, "opened") \in NotLate
    BY StatusNotLate DEF Kinds, EXISTS, INTERNAL_ERROR, SUCCESS
  <1>2. CASE s.dev.open
    BY <1>1, <1>2, JustOK DEF smartid_cmd_open
  <1>3. CASE o \in Just(s, Status(INTERNAL_ERROR, "error"))
    BY <1>1, <1>3, JustOK
  <1>4. CASE ~s.dev.open /\ o \notin Just(s, Status(INTERNAL_ERROR, "error"))
    <2>1. PICK x \in smartid_dev_connect(s.link, s.late) :
            o \in IF x.fate # "run" THEN {Outcome(After(s, x), <<>>, x.fate)}
                  ELSE IF x.rc # 0 THEN Just(After(s, x), Status(x.rc, "error"))
                  ELSE Just(opened(x), Status(SUCCESS, "opened"))
      BY <1>4 DEF smartid_cmd_open
    <2>2. CleanExchange(x)
      BY ConnectClean DEF SessionOK, Sessions
    <2>3. SessionOK(After(s, x))
      BY <1>4, <2>2, AfterType DEF SessionOK, CleanExchange, Settled
    <2>4. CASE x.fate # "run"
      <3>1. <<>> \in Seq(NotLate) /\ x.fate \in Fates BY <2>2 DEF CleanExchange, Exchanges
      <3> QED BY <2>1, <2>3, <2>4, <3>1, OutcomeParts
    <2>5. CASE x.fate = "run" /\ x.rc # 0
      <3>1. Status(x.rc, "error") \in NotLate
        BY <2>2, StatusNotLate DEF CleanExchange, Exchanges, Kinds
      <3> QED BY <2>1, <2>3, <2>5, <3>1, JustOK
    <2>6. CASE x.fate = "run" /\ x.rc = 0
      <3> DEFINE dev == [open |-> TRUE, tok |-> 0, ticks |-> x.val]
      <3>1. dev \in Devs /\ dev.ticks = x.val
        BY <2>2, TokensAssumption DEF Devs, CleanExchange, Exchanges
      <3> HIDE DEF dev
      <3>2. After(s, x) \in Sessions /\ After(s, x).link = x.link /\ After(s, x).late = x.late
        BY <2>2, AfterType DEF SessionOK, CleanExchange
      <3>3. /\ [After(s, x) EXCEPT !.dev = dev] \in Sessions
            /\ [After(s, x) EXCEPT !.dev = dev].dev = dev
            /\ [After(s, x) EXCEPT !.dev = dev].link = x.link
            /\ [After(s, x) EXCEPT !.dev = dev].late = x.late
        BY <3>1, <3>2 DEF Sessions
      <3>4. SessionOK([After(s, x) EXCEPT !.dev = dev])
        BY <2>2, <2>6, <3>1, <3>3 DEF SessionOK, CleanExchange, Settled
      <3> QED BY <1>1, <2>1, <2>6, <3>4, JustOK DEF dev
    <2> QED BY <2>4, <2>5, <2>6
  <1> QED BY <1>2, <1>3, <1>4

(* XFER: every way out either leaves nothing outstanding, or disposes the  *)
(* handle, or ends the process.                                            *)
LEMMA XferOK ==
  ASSUME NEW s, SessionOK(s), s.dev.open, NEW o \in smartid_cmd_xfer(s)
  PROVE  OutcomeOK(o)
  <1>1. s.late = FALSE /\ s.link \in Links /\ s.dev.tok \in Tokens
    BY DEF SessionOK, Settled, Sessions, Devs
  <1>2. PICK x \in smart_driver_cmd(s.link, s.late) :
          o \in IF x.rc # 0 \/ x.fate # "run" THEN DeviceFailed(s, x)
                ELSE Just(After(s, x), Status(NO_DATA, "nodata"))
                     \cup Just(After(s, x), Status(DEVICE_ERROR, "error"))
                     \cup DeviceFailed(s, [x EXCEPT !.rc = INTERNAL_ERROR])
                     \cup XferLoop(s, x)
    BY DEF smartid_cmd_xfer
  <1>3. CleanExchange(x) BY <1>1, DriverCmdClean
  <1>4. CASE x.rc # 0 \/ x.fate # "run"
    BY <1>2, <1>3, <1>4, FailedOK
  <1>5. CASE x.rc = 0 /\ x.fate = "run"
    <2>1. SessionOK(After(s, x)) BY <1>3, <1>5, AfterOK
    <2>2. CASE o \in Just(After(s, x), Status(NO_DATA, "nodata"))
      <3>1. Status(NO_DATA, "nodata") \in NotLate BY StatusNotLate DEF Kinds, NO_DATA
      <3> QED BY <2>1, <2>2, <3>1, JustOK
    <2>3. CASE o \in Just(After(s, x), Status(DEVICE_ERROR, "error"))
      <3>1. Status(DEVICE_ERROR, "error") \in NotLate BY StatusNotLate DEF Kinds, DEVICE_ERROR
      <3> QED BY <2>1, <2>3, <3>1, JustOK
    <2>4. CASE o \in DeviceFailed(s, [x EXCEPT !.rc = INTERNAL_ERROR])
      <3>1. CleanExchange([x EXCEPT !.rc = INTERNAL_ERROR])
        BY <1>3, <1>5 DEF CleanExchange, Exchanges, INTERNAL_ERROR
      <3> QED BY <2>4, <3>1, FailedOK
    <2>5. <<>> \in Seq(NotLate) /\ {"run", "hung", "abort"} \subseteq Fates
      BY DEF Fates
    <2>6. CASE o \in XferLoop(s, x)
      <3>1. CASE \E fate \in {"run", "hung", "abort"} : o = Outcome(After(s, x), <<>>, fate)
        BY <2>1, <2>5, <3>1, OutcomeParts
      <3>2. CASE o = Outcome([After(s, x) EXCEPT !.link = "lost"], <<>>, "hung")
        <4>1. SessionOK([After(s, x) EXCEPT !.link = "lost"])
          BY <2>1 DEF SessionOK, Sessions, Links, Settled, LateOK
        <4> QED BY <2>5, <3>2, <4>1, OutcomeParts
      <3>3. CASE o = Outcome(After(s, x),
                             <<Reply(DATA_FOLLOWS, "length", x.val, s.dev.tok),
                               Reply(NoCode, "base64", x.val, s.dev.tok)>>, "run")
        <4>1. /\ Reply(DATA_FOLLOWS, "length", x.val, s.dev.tok) \in NotLate
              /\ Reply(NoCode, "base64", x.val, s.dev.tok) \in NotLate
          BY <1>1, <1>3, ReplyNotLate DEF CleanExchange, Exchanges, Kinds, DATA_FOLLOWS, NoCode
        <4>2. <<Reply(DATA_FOLLOWS, "length", x.val, s.dev.tok),
                Reply(NoCode, "base64", x.val, s.dev.tok)>> \in Seq(NotLate)
          BY <4>1
        <4> QED BY <2>1, <2>5, <3>3, <4>2, OutcomeParts
      <3>4. ASSUME NEW rc \in {IO_ERROR, TIMEOUT}, x.link # "lost",
                   o \in DeviceFailed(s, [x EXCEPT !.rc = rc, !.late = TRUE])
            PROVE  OutcomeOK(o)
        <4>1. x.link = "connected" /\ rc \in Nat /\ rc # 0
          BY <1>3, <1>5, <3>4 DEF CleanExchange, IO_ERROR, TIMEOUT
        <4> DEFINE y == [x EXCEPT !.rc = rc, !.late = TRUE]
        <4>2. /\ y \in Exchanges /\ y.rc = rc /\ y.val = x.val
              /\ y.link = x.link /\ y.fate = x.fate
          BY <1>3, <4>1 DEF CleanExchange, Exchanges
        <4> HIDE DEF y
        <4>3. CleanExchange(y)
          BY <1>3, <1>5, <4>1, <4>2 DEF CleanExchange, LateOK
        <4> QED BY <3>4, <4>3, FailedOK DEF y
      <3> QED BY <2>6, <3>1, <3>2, <3>3, <3>4 DEF XferLoop, smartid_conn_send_buffer
    <2> QED BY <1>2, <1>5, <2>2, <2>3, <2>4, <2>6
  <1> QED BY <1>4, <1>5

(* ENUM and HELP answer with any number of lines.                          *)
LEMMA ListingOK ==
  ASSUME NEW s, SessionOK(s), NEW o \in smartid_cmd_enum(s) \cup smartid_cmd_help(s)
  PROVE  OutcomeOK(o)
  <1>1. "run" \in Fates /\ INFO \in Nat /\ 0 \in Tokens
    BY TokensAssumption DEF Fates, INFO
  <1>2. CASE o \in Just(s, Status(IRDA_ERROR, "error"))
    <2>1. Status(IRDA_ERROR, "error") \in NotLate BY StatusNotLate DEF Kinds, IRDA_ERROR
    <2> QED BY <1>2, <2>1, JustOK
  <1>3. CASE o \in Just(s, Status(NO_DEVS, "nodevs"))
    <2>1. Status(NO_DEVS, "nodevs") \in NotLate BY StatusNotLate DEF Kinds, NO_DEVS
    <2> QED BY <1>3, <2>1, JustOK
  <1>4. ASSUME NEW devs \in Seq(DeviceNames),
               o = Outcome(s, DeviceLines(irda_enum_cb(devs)), "run")
        PROVE  OutcomeOK(o)
    <2> DEFINE names == irda_enum_cb(devs)
    <2>1. names \in Seq(DeviceNames) BY DEF irda_enum_cb
    <2> HIDE DEF names
    <2>2. ASSUME NEW i \in 1..Len(names)
          PROVE  Reply(INFO, "device", names[i], 0) \in NotLate
      <3>1. names[i] \in DeviceNames BY <2>1
      <3>2. "device" \in Kinds /\ names[i] # "late"
        BY <3>1, DiscoveriesAssumption DEF Kinds, Vals
      <3> QED BY <1>1, <3>1, <3>2, ReplyNotLate
    <2>3. DeviceLines(names) \in Seq(NotLate) BY <2>1, <2>2 DEF DeviceLines
    <2> QED BY <1>1, <1>4, <2>3, OutcomeParts DEF names
  <1>5. CASE o \in smartid_cmd_help(s)
    <2>1. Info("help", "none") \in NotLate BY <1>1, ReplyNotLate DEF Info, Kinds, Vals
    <2>2. Len(CmdTable) \in Nat BY DEF CmdTable
    <2>3. [i \in 1..Len(CmdTable) |-> Info("help", "none")] \in Seq(NotLate) BY <2>1, <2>2
    <2> QED BY <1>1, <1>5, <2>3, OutcomeParts DEF smartid_cmd_help
  <1>6. CASE o \in smartid_cmd_enum(s)
    <2>1. PICK d \in irda_socket_discover :
            o \in IF d.nd < 0 THEN Just(s, Status(IRDA_ERROR, "error"))
                  ELSE IF d.nd = 0 THEN Just(s, Status(NO_DEVS, "nodevs"))
                  ELSE {Outcome(s, DeviceLines(irda_enum_cb(d.devs)), "run")}
      BY <1>6 DEF smartid_cmd_enum
    <2>2. d.nd < 0 \/ d.devs \in Seq(DeviceNames)
      BY DiscoveriesAssumption DEF irda_socket_discover
    <2> QED BY <1>2, <1>3, <1>4, <2>1, <2>2
  <1> QED BY <1>5, <1>6

(* TOKEN changes the handle's token, CLOSE drops the handle, TCORR and     *)
(* TICKS repeat what OPEN stored.                                          *)
LEMMA HandleOnlyOK ==
  ASSUME NEW s, SessionOK(s), s.dev.open, NEW tok \in Tokens,
         NEW o \in smartid_cmd_close(s) \cup smartid_cmd_tcorr(s)
                   \cup smartid_cmd_ticks(s) \cup smartid_cmd_token(s, tok)
  PROVE  OutcomeOK(o)
  <1>1. CASE o \in smartid_cmd_close(s)
    <2>1. Status(SUCCESS, "closed") \in NotLate BY StatusNotLate DEF Kinds, SUCCESS
    <2>2. SessionOK(smartid_dev_dispose(s)) BY DisposeOK DEF SessionOK
    <2> QED BY <1>1, <2>1, <2>2, JustOK DEF smartid_cmd_close
  <1>2. CASE o \in smartid_cmd_tcorr(s) \cup smartid_cmd_ticks(s)
    <2>1. s.dev.ticks \in Vals \ {"late"} BY DEF SessionOK, Sessions, Devs
    <2>2. \A kind \in {"tcorr", "ticks"} : Info(kind, s.dev.ticks) \in NotLate
      BY <2>1, ReplyNotLate, TokensAssumption DEF Info, Kinds, INFO
    <2> QED BY <1>2, <2>2, JustOK DEF smartid_cmd_tcorr, smartid_cmd_ticks
  <1>3. CASE o \in smartid_cmd_token(s, tok)
    <2>1. Status(SUCCESS, "token") \in NotLate BY StatusNotLate DEF Kinds, SUCCESS
    <2> DEFINE t == [s EXCEPT !.dev.tok = tok]
    <2>2. /\ t \in Sessions /\ t.link = s.link /\ t.late = s.late
          /\ t.dev.ticks = s.dev.ticks
      BY DEF SessionOK, Sessions, Devs
    <2>3. SessionOK(t) BY <2>2 DEF SessionOK, Settled
    <2> QED BY <1>3, <2>1, <2>3, JustOK DEF smartid_cmd_token
  <1> QED BY <1>1, <1>2, <1>3

(* The table search ends at an entry whose name starts with the word.      *)
LEMMA SearchFinds ==
  ASSUME NEW word, MatchesAt(word) # {}
  PROVE  Searched(word) \in {CmdTable[i] : i \in 1..11}
  <1>1. MatchesAt(word) \subseteq 1..11 BY DEF MatchesAt, CmdTable
  <1>2. \E i \in MatchesAt(word) : \A j \in MatchesAt(word) : i <= j
    BY <1>1
  <1> QED BY <1>1, <1>2 DEF Searched

(* Whatever the line, smartid_cmd_process leaves a session in order and    *)
(* sends no late answer.                                                   *)
LEMMA ProcessOK ==
  ASSUME NEW line \in Lines, NEW s, SessionOK(s), NEW o \in smartid_cmd_process(line, s)
  PROVE  OutcomeOK(o)
  <1> DEFINE name == Searched(line.word)
  <1>1. /\ Status(READY, "ready") \in NotLate /\ Status(INVALID_COMMAND, "error") \in NotLate
        /\ Status(NO_DEVICE, "error") \in NotLate /\ Status(UNKNOWN_COMMAND, "error") \in NotLate
    BY StatusNotLate DEF Kinds, READY, INVALID_COMMAND, NO_DEVICE, UNKNOWN_COMMAND
  <1>2. CASE \/ o \in Just(s, Status(READY, "ready"))
             \/ o \in Just(s, Status(INVALID_COMMAND, "error"))
             \/ o \in Just(s, Status(NO_DEVICE, "error"))
             \/ o \in Just(s, Status(UNKNOWN_COMMAND, "error"))
    BY <1>1, <1>2, JustOK
  <1>3. CASE o = Outcome(s, <<>>, "run")
    <2>1. <<>> \in Seq(NotLate) /\ "run" \in Fates BY DEF Fates
    <2> QED BY <1>3, <2>1, OutcomeParts
  <1>4. CASE /\ MatchesAt(line.word) # {} /\ o \in RunCmd(name, line, s)
             /\ o \notin Just(s, Status(INVALID_COMMAND, "error"))
             /\ o \notin Just(s, Status(NO_DEVICE, "error"))
    <2>1. name \in {"close", "enum", "help", "model", "open", "serial", "size",
                    "tcorr", "ticks", "token", "xfer"}
      BY <1>4, SearchFinds DEF CmdTable
    <2>2. name \in NeedsDevice => s.dev.open
      BY <1>4 DEF RunCmd
    <2>3. {"model", "serial", "size"} \subseteq Kinds /\ 0 \in Tokens /\ s.dev.tok \in Tokens
          /\ line.tok \in Tokens
      BY TokensAssumption DEF Kinds, SessionOK, Sessions, Devs, Lines
    <2> HIDE DEF name
    <2>4. CASE name \in {"close", "tcorr", "ticks", "token"}
      <3>1. o \in smartid_cmd_close(s) \cup smartid_cmd_tcorr(s)
                 \cup smartid_cmd_ticks(s) \cup smartid_cmd_token(s, line.tok)
        BY <1>4, <2>4 DEF RunCmd
      <3>2. s.dev.open BY <2>2, <2>4 DEF NeedsDevice
      <3> QED BY <2>3, <3>1, <3>2, HandleOnlyOK
    <2>5. CASE name \in {"enum", "help"}
      <3>1. o \in smartid_cmd_enum(s) \cup smartid_cmd_help(s)
        BY <1>4, <2>5 DEF RunCmd
      <3> QED BY <3>1, ListingOK
    <2>6. CASE name \in {"model", "serial", "size"}
      <3>1. s.dev.open BY <2>2, <2>6 DEF NeedsDevice
      <3>2. \/ o \in AskDevice(s, "model", 0) \/ o \in AskDevice(s, "serial", 0)
            \/ o \in AskDevice(s, "size", s.dev.tok)
        BY <1>4, <2>6 DEF RunCmd, smartid_cmd_model, smartid_cmd_serial, smartid_cmd_size
      <3> QED BY <2>3, <3>1, <3>2, AskOK
    <2>7. CASE name = "open"
      <3>1. o \in smartid_cmd_open(s) BY <1>4, <2>7 DEF RunCmd
      <3> QED BY <3>1, OpenOK
    <2>8. CASE name = "xfer"
      <3>1. o \in smartid_cmd_xfer(s) BY <1>4, <2>8 DEF RunCmd
      <3>2. s.dev.open BY <2>2, <2>8 DEF NeedsDevice
      <3> QED BY <3>1, <3>2, XferOK
    <2> QED BY <2>1, <2>4, <2>5, <2>6, <2>7, <2>8
  <1> QED BY <1>2, <1>3, <1>4 DEF smartid_cmd_process

(* A fresh connection.                                                     *)
LEMMA NewSessionOK == SessionOK(NewSession)
  BY TokensAssumption DEF SessionOK, NewSession, Sessions, NoDev, Devs, Vals, Links, Settled, LateOK

(* The greeting.                                                           *)
LEMMA GreetingOK == <<Status(READY, "ready")>> \in Seq(NotLate)
  <1>1. Status(READY, "ready") \in NotLate BY StatusNotLate DEF Kinds, READY
  <1> QED BY <1>1

-----------------------------------------------------------------------------
(* What a command is answered with, as far as the client tells replies     *)
(* apart. *)

(* At most one line, and not the line with the data.                       *)
Brief(o) == Len(o.replies) <= 1 /\ \A i \in 1..Len(o.replies) : o.replies[i].kind # "base64"

(* An outcome with no reply, and one with a single reply.                  *)
LEMMA BriefOutcome ==
  ASSUME NEW s, NEW r, NEW fate, NEW o
  PROVE  /\ o = Outcome(s, <<>>, fate) => Len(o.replies) = 0 /\ o.s = s
         /\ o \in Just(s, r) => Len(o.replies) = 1 /\ o.replies[1] = r /\ o.s = s
  BY DEF Outcome, Just

(* The fields of a reply.                                                  *)
LEMMA ReplyParts ==
  ASSUME NEW code, NEW kind, NEW val, NEW tok
  PROVE  /\ Reply(code, kind, val, tok).code = code /\ Reply(code, kind, val, tok).kind = kind
         /\ Reply(code, kind, val, tok).tok = tok
         /\ Status(code, kind).code = code /\ Status(code, kind).kind = kind
  BY DEF Reply, Status

(* A command that fails on the link fails with one of two codes.           *)
LEMMA DriverCmdCodes ==
  ASSUME NEW link, NEW late, NEW x \in smart_driver_cmd(link, late)
  PROVE  x.rc \in {0, IO_ERROR, TIMEOUT}
  BY DEF smart_driver_cmd, WriteFailures, ReadResults, Exchange

(* A failure is told with its code, or not at all.                         *)
LEMMA FailedAnswer ==
  ASSUME NEW s, NEW x, NEW o \in DeviceFailed(s, x)
  PROVE  Brief(o) /\ \A i \in 1..Len(o.replies) : o.replies[i].code = x.rc /\ o.replies[i].kind = "error"
  <1>1. CASE x.fate # "run"
    <2>1. Len(o.replies) = 0 BY <1>1, BriefOutcome DEF DeviceFailed
    <2> QED BY <2>1 DEF Brief
  <1>2. CASE x.fate = "run"
    <2>1. Len(o.replies) = 1 /\ o.replies[1] = Status(x.rc, "error")
      BY <1>2, BriefOutcome DEF DeviceFailed
    <2> QED BY <2>1, ReplyParts DEF Brief
  <1> QED BY <1>1, <1>2

(* The whole word of a command finds that command.                         *)
LEMMA SearchExact ==
  ASSUME NEW n \in 1..11
  PROVE  MatchesAt(CmdTable[n]) = {n} /\ Searched(CmdTable[n]) = CmdTable[n]
  <1>1. MatchesAt(CmdTable[n]) = {n}
    BY DEF MatchesAt, Matches, CmdTable, Abbreviations
  <1> HIDE DEF CmdTable
  <1>2. (CHOOSE i \in MatchesAt(CmdTable[n]) : \A j \in MatchesAt(CmdTable[n]) : i <= j) = n
    BY <1>1
  <1> QED BY <1>1, <1>2 DEF Searched

(* A value that is asked for: an answer of 230 is of the kind asked for,   *)
(* and leaves the handle as it was.                                        *)
ValueAnswer(o, s, name, tok) ==
  /\ Brief(o)
  /\ \A i \in 1..Len(o.replies) :
       o.replies[i].code = INFO =>
         o.replies[i].kind = name /\ o.replies[i].tok = tok /\ o.s.dev = s.dev

(* A single reply that is no information.                                  *)
LEMMA RefusedAnswer ==
  ASSUME NEW s, NEW t, NEW code, NEW name, NEW tok, code # INFO, NEW o \in Just(t, Status(code, "error"))
  PROVE  ValueAnswer(o, s, name, tok)
  <1>1. Len(o.replies) = 1 /\ o.replies[1] = Status(code, "error") BY BriefOutcome
  <1> QED BY <1>1, ReplyParts DEF ValueAnswer, Brief

(* AskDevice answers with the value or with a failure.                     *)
LEMMA AskAnswer ==
  ASSUME NEW s \in Sessions, NEW kind, NEW tok, kind # "base64", NEW o \in AskDevice(s, kind, tok)
  PROVE  ValueAnswer(o, s, kind, tok)
  <1>1. PICK x \in smart_driver_cmd(s.link, s.late) :
          o \in IF x.rc = 0 /\ x.fate = "run"
                THEN Just(After(s, x), Reply(INFO, kind, x.val, tok))
                ELSE DeviceFailed(s, x)
    BY DEF AskDevice
  <1>2. CASE x.rc = 0 /\ x.fate = "run"
    <2>1. /\ Len(o.replies) = 1 /\ o.replies[1] = Reply(INFO, kind, x.val, tok)
          /\ o.s = After(s, x)
      BY <1>1, <1>2, BriefOutcome
    <2>2. o.s.dev = s.dev BY <2>1 DEF After, Sessions
    <2> QED BY <2>1, <2>2, ReplyParts DEF ValueAnswer, Brief
  <1>3. CASE ~(x.rc = 0 /\ x.fate = "run")
    <2>1. o \in DeviceFailed(s, x) BY <1>1, <1>3
    <2>2. x.rc # INFO BY DriverCmdCodes DEF INFO, IO_ERROR, TIMEOUT
    <2> QED BY <2>1, <2>2, FailedAnswer DEF ValueAnswer
  <1> QED BY <1>2, <1>3

(* MODEL, SERIAL, TICKS and SIZE.                                          *)
LEMMA ProcessValue ==
  ASSUME NEW s \in Sessions, NEW name \in {"model", "serial", "ticks", "size"},
         NEW o \in smartid_cmd_process(Line(name), s)
  PROVE  ValueAnswer(o, s, name, IF name = "size" THEN s.dev.tok ELSE 0)
  <1> DEFINE tok == IF name = "size" THEN s.dev.tok ELSE 0
  <1>1. PICK n \in 1..11 : CmdTable[n] = name
    <2>1. CmdTable[4] = "model" /\ CmdTable[6] = "serial" /\ CmdTable[9] = "ticks" /\ CmdTable[7] = "size"
      BY DEF CmdTable
    <2> QED BY <2>1
  <1>2. /\ Line(name).word = name /\ Line(name).params = "none" /\ name # ""
        /\ Searched(name) = name /\ MatchesAt(name) # {}
    BY <1>1, SearchExact DEF Line
  <1>3. o \in RunCmd(name, Line(name), s) BY <1>2 DEF smartid_cmd_process
  <1>4. CASE o \in Just(s, Status(NO_DEVICE, "error"))
    BY <1>4, RefusedAnswer DEF NO_DEVICE, INFO
  <1>5. CASE name = "ticks" /\ o \in Just(s, Info("ticks", s.dev.ticks))
    <2>1. Len(o.replies) = 1 /\ o.replies[1] = Info("ticks", s.dev.ticks) /\ o.s = s
      BY <1>5, BriefOutcome
    <2> QED BY <1>5, <2>1, ReplyParts DEF ValueAnswer, Brief, Info
  <1>6. CASE name # "ticks" /\ o \in AskDevice(s, name, tok)
    BY <1>6, AskAnswer
  <1>7. CASE s.dev.open
    <2>1. CASE name = "model"
      <3>1. o \in smartid_cmd_model(s)
        BY <1>2, <1>3, <1>7, <2>1 DEF RunCmd, TakesParams, NeedsDevice
      <3> QED BY <1>6, <2>1, <3>1 DEF smartid_cmd_model
    <2>2. CASE name = "serial"
      <3>1. o \in smartid_cmd_serial(s)
        BY <1>2, <1>3, <1>7, <2>2 DEF RunCmd, TakesParams, NeedsDevice
      <3> QED BY <1>6, <2>2, <3>1 DEF smartid_cmd_serial
    <2>3. CASE name = "size"
      <3>1. o \in smartid_cmd_size(s)
        BY <1>2, <1>3, <1>7, <2>3 DEF RunCmd, TakesParams, NeedsDevice
      <3> QED BY <1>6, <2>3, <3>1 DEF smartid_cmd_size
    <2>4. CASE name = "ticks"
      <3>1. o \in smartid_cmd_ticks(s)
        BY <1>2, <1>3, <1>7, <2>4 DEF RunCmd, TakesParams, NeedsDevice
      <3> QED BY <1>5, <2>4, <3>1 DEF smartid_cmd_ticks
    <2> QED BY <2>1, <2>2, <2>3, <2>4
  <1>8. CASE ~s.dev.open
    <2>1. ~(name \in TakesParams) /\ ~(Line(name).params # "none") /\ name \in NeedsDevice
      BY <1>2 DEF TakesParams, NeedsDevice
    <2>2. ~((name \in TakesParams) # (Line(name).params # "none")) BY <2>1
    <2>3. o \in Just(s, Status(NO_DEVICE, "error")) BY <1>3, <1>8, <2>1, <2>2 DEF RunCmd
    <2> QED BY <1>4, <2>3
  <1> QED BY <1>7, <1>8

(* TOKEN succeeds only with the token in the handle.                       *)
LEMMA ProcessToken ==
  ASSUME NEW s \in Sessions, NEW tok \in Tokens,
         NEW o \in smartid_cmd_process(LineWith("token", tok), s)
  PROVE  /\ Brief(o)
         /\ \A i \in 1..Len(o.replies) : o.replies[i].code = SUCCESS => o.s.dev.tok = tok
  <1> DEFINE line == LineWith("token", tok)
  <1>1. /\ line.word = "token" /\ line.params = "numbers" /\ line.tok = tok
        /\ Searched("token") = "token" /\ MatchesAt("token") # {}
    <2>1. CmdTable[10] = "token" BY DEF CmdTable
    <2> QED BY <2>1, SearchExact DEF LineWith
  <1> HIDE DEF line
  <1>2. o \in RunCmd("token", line, s) BY <1>1 DEF smartid_cmd_process, line
  <1>3. CASE ~s.dev.open
    <2>1. "token" \in TakesParams /\ "token" \in NeedsDevice BY DEF TakesParams, NeedsDevice
    <2>2. o \in Just(s, Status(NO_DEVICE, "error")) BY <1>1, <1>2, <1>3, <2>1 DEF RunCmd
    <2>3. Len(o.replies) = 1 /\ o.replies[1] = Status(NO_DEVICE, "error") BY <2>2, BriefOutcome
    <2> QED BY <2>3, ReplyParts DEF Brief, NO_DEVICE, SUCCESS
  <1>4. CASE s.dev.open
    <2>1. o \in smartid_cmd_token(s, tok)
      BY <1>1, <1>2, <1>4 DEF RunCmd, TakesParams, NeedsDevice
    <2>2. /\ Len(o.replies) = 1 /\ o.replies[1] = Status(SUCCESS, "token")
          /\ o.s = [s EXCEPT !.dev.tok = tok]
      BY <2>1, BriefOutcome DEF smartid_cmd_token
    <2>3. o.s.dev.tok = tok BY <2>2 DEF Sessions, Devs
    <2> QED BY <2>2, <2>3, ReplyParts DEF Brief
  <1> QED BY <1>3, <1>4

(* OPEN is answered by at most one line.                                   *)
LEMMA ProcessOpen ==
  ASSUME NEW s \in Sessions, NEW o \in smartid_cmd_process(LineWith("open", 0), s)
  PROVE  Brief(o)
  <1> DEFINE line == LineWith("open", 0)
  <1>1. /\ line.word = "open" /\ line.params = "numbers"
        /\ Searched("open") = "open" /\ MatchesAt("open") # {}
    <2>1. CmdTable[5] = "open" BY DEF CmdTable
    <2> QED BY <2>1, SearchExact DEF LineWith
  <1> HIDE DEF line
  <1>2. o \in RunCmd("open", line, s) BY <1>1 DEF smartid_cmd_process, line
  <1>3. o \in smartid_cmd_open(s) BY <1>1, <1>2 DEF RunCmd, TakesParams, NeedsDevice
  <1>4. ASSUME NEW t, NEW code, NEW kind, kind # "base64", o \in Just(t, Status(code, kind))
        PROVE  Brief(o)
    <2>1. Len(o.replies) = 1 /\ o.replies[1] = Status(code, kind) BY <1>4, BriefOutcome
    <2> QED BY <1>4, <2>1, ReplyParts DEF Brief
  <1>5. ASSUME NEW t, NEW fate, o = Outcome(t, <<>>, fate)
        PROVE  Brief(o)
    <2>1. Len(o.replies) = 0 BY <1>5, BriefOutcome
    <2> QED BY <2>1 DEF Brief
  <1>6. CASE o \in Just(s, Status(EXISTS, "error")) \cup Just(s, Status(INTERNAL_ERROR, "error"))
    BY <1>4, <1>6
  <1>7. ASSUME NEW x \in smartid_dev_connect(s.link, s.late),
               o \in IF x.fate # "run" THEN {Outcome(After(s, x), <<>>, x.fate)}
                     ELSE IF x.rc # 0 THEN Just(After(s, x), Status(x.rc, "error"))
                     ELSE Just([After(s, x) EXCEPT
                                  !.dev = [open |-> TRUE, tok |-> 0, ticks |-> x.val]],
                               Status(SUCCESS, "opened"))
        PROVE  Brief(o)
    <2>1. CASE x.fate # "run" BY <1>5, <1>7, <2>1
    <2>2. CASE x.fate = "run" /\ x.rc # 0 BY <1>4, <1>7, <2>2
    <2>3. CASE x.fate = "run" /\ x.rc = 0 BY <1>4, <1>7, <2>3
    <2> QED BY <2>1, <2>2, <2>3
  <1>8. CASE s.dev.open BY <1>3, <1>6, <1>8 DEF smartid_cmd_open
  <1>9. CASE ~s.dev.open
    <2>1. \/ o \in Just(s, Status(INTERNAL_ERROR, "error"))
          \/ \E x \in smartid_dev_connect(s.link, s.late) :
               o \in IF x.fate # "run" THEN {Outcome(After(s, x), <<>>, x.fate)}
                     ELSE IF x.rc # 0 THEN Just(After(s, x), Status(x.rc, "error"))
                     ELSE Just([After(s, x) EXCEPT
                                  !.dev = [open |-> TRUE, tok |-> 0, ticks |-> x.val]],
                               Status(SUCCESS, "opened"))
      BY <1>3, <1>9 DEF smartid_cmd_open
    <2> QED BY <1>6, <1>7, <2>1
  <1> QED BY <1>8, <1>9

IsDevice(r) == r.kind = "device" /\ r.code = INFO

(* ENUM is answered by one line, or by device lines alone.                 *)
LEMMA ProcessEnum ==
  ASSUME NEW s \in Sessions, NEW o \in smartid_cmd_process(Line("enum"), s)
  PROVE  Brief(o) \/ \A i \in 1..Len(o.replies) : IsDevice(o.replies[i])
  <1> DEFINE line == Line("enum")
  <1>1. /\ line.word = "enum" /\ line.params = "none"
        /\ Searched("enum") = "enum" /\ MatchesAt("enum") # {}
    <2>1. CmdTable[2] = "enum" BY DEF CmdTable
    <2> QED BY <2>1, SearchExact DEF Line
  <1> HIDE DEF line
  <1>2. o \in RunCmd("enum", line, s) BY <1>1 DEF smartid_cmd_process, line
  <1>3. o \in smartid_cmd_enum(s) BY <1>1, <1>2 DEF RunCmd, TakesParams, NeedsDevice
  <1>4. ASSUME NEW code, NEW kind, kind # "base64", o \in Just(s, Status(code, kind))
        PROVE  Brief(o)
    <2>1. Len(o.replies) = 1 /\ o.replies[1] = Status(code, kind) BY <1>4, BriefOutcome
    <2> QED BY <1>4, <2>1, ReplyParts DEF Brief
  <1>5. ASSUME NEW devs \in Seq(DeviceNames), o = Outcome(s, DeviceLines(irda_enum_cb(devs)), "run")
        PROVE  \A i \in 1..Len(o.replies) : IsDevice(o.replies[i])
    <2> DEFINE names == irda_enum_cb(devs)
    <2>1. names \in Seq(DeviceNames) BY DEF irda_enum_cb
    <2> HIDE DEF names
    <2>2. o.replies = DeviceLines(names) BY <1>5 DEF Outcome, names
    <2>3. /\ Len(DeviceLines(names)) = Len(names)
          /\ \A i \in 1..Len(names) : DeviceLines(names)[i] = Reply(INFO, "device", names[i], 0)
      BY <2>1 DEF DeviceLines
    <2> QED BY <2>2, <2>3, ReplyParts DEF IsDevice
  <1>6. PICK d \in irda_socket_discover :
          o \in IF d.nd < 0 THEN Just(s, Status(IRDA_ERROR, "error"))
                ELSE IF d.nd = 0 THEN Just(s, Status(NO_DEVS, "nodevs"))
                ELSE {Outcome(s, DeviceLines(irda_enum_cb(d.devs)), "run")}
    BY <1>3 DEF smartid_cmd_enum
  <1>7. d.devs \in Seq(DeviceNames)
    <2>1. CASE d = [nd |-> -1, devs |-> <<>>] BY <2>1
    <2>2. CASE d \in {[nd |-> Len(list), devs |-> list] : list \in Discoveries}
      BY <2>2, DiscoveriesAssumption
    <2> QED BY <2>1, <2>2 DEF irda_socket_discover
  <1>8. CASE d.nd < 0 BY <1>4, <1>6, <1>8
  <1>9. CASE ~(d.nd < 0) /\ d.nd = 0 BY <1>4, <1>6, <1>9
  <1>10. CASE ~(d.nd < 0) /\ d.nd # 0 BY <1>5, <1>6, <1>7, <1>10
  <1> QED BY <1>8, <1>9, <1>10

(* The data go with the handle's token, and follow at most one line.       *)
DataAnswer(o, tok) ==
  /\ \A i \in 1..Len(o.replies) : o.replies[i].kind = "base64" => o.replies[i].tok = tok
  /\ \A i \in 2..Len(o.replies) : o.replies[i].kind = "base64"

(* XFER is answered by one line, or by the length and the data.            *)
LEMMA ProcessXfer ==
  ASSUME NEW s \in Sessions, NEW o \in smartid_cmd_process(Line("xfer"), s)
  PROVE  DataAnswer(o, s.dev.tok)
  <1> DEFINE line == Line("xfer")
  <1>1. /\ line.word = "xfer" /\ line.params = "none"
        /\ Searched("xfer") = "xfer" /\ MatchesAt("xfer") # {}
    <2>1. CmdTable[11] = "xfer" BY DEF CmdTable
    <2> QED BY <2>1, SearchExact DEF Line
  <1> HIDE DEF line
  <1>2. o \in RunCmd("xfer", line, s) BY <1>1 DEF smartid_cmd_process, line
  <1>3. ASSUME Brief(o) PROVE DataAnswer(o, s.dev.tok)
    <2>1. Len(o.replies) = 0 \/ Len(o.replies) = 1 \/ 2..Len(o.replies) = {}
      BY <1>3 DEF Brief
    <2> QED BY <1>3, <2>1 DEF Brief, DataAnswer
  <1>4. ASSUME NEW t, NEW code, NEW kind, kind # "base64", o \in Just(t, Status(code, kind))
        PROVE  DataAnswer(o, s.dev.tok)
    <2>1. Len(o.replies) = 1 /\ o.replies[1] = Status(code, kind) BY <1>4, BriefOutcome
    <2>2. Brief(o) BY <1>4, <2>1, ReplyParts DEF Brief
    <2> QED BY <1>3, <2>2
  <1>5. ASSUME NEW t, NEW fate, o = Outcome(t, <<>>, fate)
        PROVE  DataAnswer(o, s.dev.tok)
    <2>1. Len(o.replies) = 0 BY <1>5, BriefOutcome
    <2> QED BY <2>1 DEF DataAnswer
  <1>6. ASSUME NEW x, o \in DeviceFailed(s, x)
        PROVE  DataAnswer(o, s.dev.tok)
    BY <1>3, <1>6, FailedAnswer
  <1>7. ASSUME NEW x, o \in XferLoop(s, x)
        PROVE  DataAnswer(o, s.dev.tok)
    <2> DEFINE first == Reply(DATA_FOLLOWS, "length", x.val, s.dev.tok)
               data  == Reply(NoCode, "base64", x.val, s.dev.tok)
    <2>1. CASE o = Outcome(After(s, x), <<first, data>>, "run")
      <3>1. o.replies = <<first, data>> BY <2>1 DEF Outcome
      <3>2. first.kind = "length" /\ data.kind = "base64" /\ data.tok = s.dev.tok BY ReplyParts
      <3> HIDE DEF first, data
      <3>3. Len(o.replies) = 2 /\ o.replies[1] = first /\ o.replies[2] = data BY <3>1
      <3> QED BY <3>2, <3>3 DEF DataAnswer
    <2>2. CASE \E t, fate : o = Outcome(t, <<>>, fate) BY <1>5, <2>2
    <2>3. CASE \E y : o \in DeviceFailed(s, y) BY <1>6, <2>3
    <2>4. CASE x.link = "lost" BY <1>7, <2>2, <2>4 DEF XferLoop, smartid_conn_send_buffer
    <2>5. CASE x.link # "lost"
      <3>1. \/ o = Outcome(After(s, x), <<first, data>>, "run")
            \/ o = Outcome([After(s, x) EXCEPT !.link = "lost"], <<>>, "hung")
            \/ o = Outcome(After(s, x), <<>>, "abort")
            \/ o = Outcome(After(s, x), <<>>, "run")
            \/ \E rc \in {IO_ERROR, TIMEOUT} : o \in DeviceFailed(s, [x EXCEPT !.rc = rc, !.late = TRUE])
        BY <1>7, <2>5 DEF XferLoop, smartid_conn_send_buffer
      <3> HIDE DEF first, data
      <3> QED BY <2>1, <2>2, <2>3, <3>1
    <2> QED BY <2>4, <2>5
  <1>8. CASE ~s.dev.open
    <2>1. ~("xfer" \in TakesParams) /\ ~(line.params # "none") /\ "xfer" \in NeedsDevice
      BY <1>1 DEF TakesParams, NeedsDevice
    <2>2. o \in Just(s, Status(NO_DEVICE, "error")) BY <1>1, <1>2, <1>8, <2>1 DEF RunCmd
    <2> QED BY <1>4, <2>2
  <1>9. CASE s.dev.open
    <2>1. o \in smartid_cmd_xfer(s) BY <1>1, <1>2, <1>9 DEF RunCmd, TakesParams, NeedsDevice
    <2>2. PICK x \in smart_driver_cmd(s.link, s.late) :
            o \in IF x.rc # 0 \/ x.fate # "run" THEN DeviceFailed(s, x)
                  ELSE Just(After(s, x), Status(NO_DATA, "nodata"))
                       \cup Just(After(s, x), Status(DEVICE_ERROR, "error"))
                       \cup DeviceFailed(s, [x EXCEPT !.rc = INTERNAL_ERROR])
                       \cup XferLoop(s, x)
      BY <2>1 DEF smartid_cmd_xfer
    <2>3. CASE o \in Just(After(s, x), Status(NO_DATA, "nodata")) BY <1>4, <2>3
    <2>4. CASE o \in Just(After(s, x), Status(DEVICE_ERROR, "error")) BY <1>4, <2>4
    <2>5. CASE \E y : o \in DeviceFailed(s, y) BY <1>6, <2>5
    <2>6. CASE o \in XferLoop(s, x) BY <1>7, <2>6
    <2> QED BY <2>2, <2>3, <2>4, <2>5, <2>6
  <1> QED BY <1>8, <1>9

-----------------------------------------------------------------------------
(* Which lines are answered. *)

(* The handler went back to the event loop and sent something.             *)
Answers(o) == o.fate = "run" => o.replies # <<>>

(* One reply is an answer; a handler that does not return owes none.       *)
LEMMA JustAnswers ==
  ASSUME NEW s, NEW r, NEW o
  PROVE  /\ o \in Just(s, r) => Answers(o)
         /\ \A fate : fate # "run" /\ o = Outcome(s, <<>>, fate) => Answers(o)
  BY DEF Just, Outcome, Answers

(* A failed exchange is reported, if the process survives it.              *)
LEMMA FailedAnswers ==
  ASSUME NEW s, NEW x, NEW o \in DeviceFailed(s, x)
  PROVE  Answers(o)
  BY JustAnswers DEF DeviceFailed

(* ENUM answers with the devices, or says that there is none; HELP with    *)
(* the table.                                                              *)
LEMMA ListingAnswers ==
  ASSUME NEW s, NEW o \in smartid_cmd_enum(s) \cup smartid_cmd_help(s)
  PROVE  Answers(o)
  <1>1. CASE o \in smartid_cmd_help(s)
    <2>1. [i \in 1..Len(CmdTable) |-> Info("help", "none")] # <<>> BY DEF CmdTable
    <2> QED BY <1>1, <2>1 DEF smartid_cmd_help, Outcome, Answers
  <1>2. CASE o \in smartid_cmd_enum(s)
    <2>1. PICK d \in irda_socket_discover :
            o \in IF d.nd < 0 THEN Just(s, Status(IRDA_ERROR, "error"))
                  ELSE IF d.nd = 0 THEN Just(s, Status(NO_DEVS, "nodevs"))
                  ELSE {Outcome(s, DeviceLines(irda_enum_cb(d.devs)), "run")}
      BY <1>2 DEF smartid_cmd_enum
    <2>2. CASE o \in Just(s, Status(IRDA_ERROR, "error")) BY <2>2, JustAnswers
    <2>3. CASE o \in Just(s, Status(NO_DEVS, "nodevs")) BY <2>3, JustAnswers
    <2>4. CASE /\ ~(d.nd < 0) /\ d.nd # 0
               /\ o = Outcome(s, DeviceLines(irda_enum_cb(d.devs)), "run")
      <3>1. d.devs \in Seq(DeviceNames) /\ d.nd = Len(d.devs)
        BY <2>4, DiscoveriesAssumption DEF irda_socket_discover
      <3> DEFINE names == irda_enum_cb(d.devs)
      <3>2. names \in Seq(DeviceNames) /\ Len(names) = Len(d.devs)
        BY <3>1 DEF irda_enum_cb
      <3> HIDE DEF names
      <3>3. Len(names) \in Nat /\ Len(names) # 0 BY <2>4, <3>1, <3>2
      <3>4. DeviceLines(names) # <<>>
        <4>1. DOMAIN DeviceLines(names) = 1..Len(names) BY DEF DeviceLines
        <4>2. 1 \in DOMAIN DeviceLines(names) /\ 1 \notin DOMAIN <<>> BY <3>3, <4>1
        <4> QED BY <4>2
      <3> QED BY <2>4, <3>4 DEF Outcome, Answers, names
    <2> QED BY <2>1, <2>2, <2>3, <2>4
  <1> QED BY <1>1, <1>2

(* OPEN and the commands that ask the device for a value.                  *)
LEMMA DeviceAnswers ==
  ASSUME NEW s, NEW kind, NEW tok,
         NEW o \in smartid_cmd_open(s) \cup AskDevice(s, kind, tok)
  PROVE  Answers(o)
  <1>1. CASE o \in smartid_cmd_open(s)
    <2>1. \/ \E t, r : o \in Just(t, r)
          \/ \E x \in smartid_dev_connect(s.link, s.late) :
               x.fate # "run" /\ o = Outcome(After(s, x), <<>>, x.fate)
      BY <1>1 DEF smartid_cmd_open
    <2> QED BY <2>1, JustAnswers
  <1>2. CASE o \in AskDevice(s, kind, tok)
    BY <1>2, JustAnswers, FailedAnswers DEF AskDevice
  <1> QED BY <1>1, <1>2

(* The handler says nothing and leaves the device handle as it was.        *)
Silent(o, s) == o.s.dev = s.dev

(* XFER answers, unless the data could not be encoded; the handle stays.   *)
LEMMA XferAnswers ==
  ASSUME NEW s \in Sessions, NEW o \in smartid_cmd_xfer(s)
  PROVE  Answers(o) \/ Silent(o, s)
  <1>1. ASSUME NEW x, o \in XferLoop(s, x) PROVE Answers(o) \/ Silent(o, s)
    <2> DEFINE both == <<Reply(DATA_FOLLOWS, "length", x.val, s.dev.tok),
                         Reply(NoCode, "base64", x.val, s.dev.tok)>>
    <2>1. both # <<>> OBVIOUS
    <2>2. \/ o = Outcome(After(s, x), both, "run")
          \/ \E t : o = Outcome(t, <<>>, "hung") \/ o = Outcome(t, <<>>, "abort")
          \/ o = Outcome(After(s, x), <<>>, "run")
          \/ \E y : o \in DeviceFailed(s, y)
      BY <1>1 DEF XferLoop, smartid_conn_send_buffer
    <2> HIDE DEF both
    <2>3. CASE o = Outcome(After(s, x), both, "run") BY <2>1, <2>3 DEF Outcome, Answers
    <2>4. CASE \E t : o = Outcome(t, <<>>, "hung") \/ o = Outcome(t, <<>>, "abort")
      BY <2>4, JustAnswers
    <2>5. CASE \E y : o \in DeviceFailed(s, y) BY <2>5, FailedAnswers
    <2>6. CASE o = Outcome(After(s, x), <<>>, "run")
      BY <2>6 DEF Outcome, After, Sessions, Silent
    <2> QED BY <2>2, <2>3, <2>4, <2>5, <2>6
  <1>2. PICK x : \/ o \in DeviceFailed(s, x)
                 \/ o \in Just(After(s, x), Status(NO_DATA, "nodata"))
                 \/ o \in Just(After(s, x), Status(DEVICE_ERROR, "error"))
                 \/ o \in DeviceFailed(s, [x EXCEPT !.rc = INTERNAL_ERROR])
                 \/ o \in XferLoop(s, x)
    BY DEF smartid_cmd_xfer
  <1> QED BY <1>1, <1>2, JustAnswers, FailedAnswers

(* The search ends at "xfer" only for that very word, or for none.         *)
LEMMA SearchedXfer ==
  ASSUME NEW word, MatchesAt(word) # {}, Searched(word) = "xfer"
  PROVE  word = "xfer"
  <1>1. MatchesAt(word) \subseteq 1..11 BY DEF MatchesAt, CmdTable
  <1>2. \E i \in MatchesAt(word) : \A j \in MatchesAt(word) : i <= j BY <1>1
  <1>3. \E i \in MatchesAt(word) : Searched(word) = CmdTable[i] BY <1>2 DEF Searched
  <1>4. Matches(word, "xfer") BY <1>3 DEF MatchesAt
  <1> QED BY <1>4 DEF Matches, Abbreviations

(* smartid_cmd_process answers a line with at least one reply, but for the *)
(* two kinds of lines that may go unanswered.                              *)
LEMMA ProcessAnswers ==
  ASSUME NEW line \in Lines, NEW s \in Sessions, NEW o \in smartid_cmd_process(line, s)
  PROVE  Answers(o) \/ ((~Known(line) \/ line.word = "xfer") /\ Silent(o, s))
  <1> DEFINE name == Searched(line.word)
  <1>1. CASE \E r : o \in Just(s, r) BY <1>1, JustAnswers
  <1>2. CASE /\ MatchesAt(line.word) # {} /\ o \in RunCmd(name, line, s)
             /\ ~\E r : o \in Just(s, r)
    <2>1. name \in {"close", "enum", "help", "model", "open", "serial", "size",
                    "tcorr", "ticks", "token", "xfer"}
      BY <1>2, SearchFinds DEF CmdTable
    <2> HIDE DEF name
    <2>2. CASE name \in {"close", "tcorr", "ticks", "token"}
      <3>1. o \in smartid_cmd_close(s) \cup smartid_cmd_tcorr(s)
                 \cup smartid_cmd_ticks(s) \cup smartid_cmd_token(s, line.tok)
        BY <1>2, <2>2 DEF RunCmd
      <3>2. \E t, r : o \in Just(t, r)
        BY <3>1 DEF smartid_cmd_close, smartid_cmd_tcorr, smartid_cmd_ticks, smartid_cmd_token
      <3> QED BY <3>2, JustAnswers
    <2>3. CASE name \in {"enum", "help"}
      <3>1. o \in smartid_cmd_enum(s) \cup smartid_cmd_help(s)
        BY <1>2, <2>3 DEF RunCmd
      <3> QED BY <3>1, ListingAnswers
    <2>4. CASE name \in {"model", "serial", "size"}
      <3>1. \E kind, tok : o \in AskDevice(s, kind, tok)
        BY <1>2, <2>4 DEF RunCmd, smartid_cmd_model, smartid_cmd_serial, smartid_cmd_size
      <3> QED BY <3>1, DeviceAnswers
    <2>5. CASE name = "open"
      <3>1. o \in smartid_cmd_open(s) BY <1>2, <2>5 DEF RunCmd
      <3> QED BY <3>1, DeviceAnswers
    <2>6. CASE name = "xfer"
      <3>1. o \in smartid_cmd_xfer(s) BY <1>2, <2>6 DEF RunCmd
      <3>2. line.word = "xfer" BY <1>2, <2>6, SearchedXfer DEF name
      <3> QED BY <3>1, <3>2, XferAnswers
    <2> QED BY <2>1, <2>2, <2>3, <2>4, <2>5, <2>6
  <1>3. CASE ~Known(line) /\ o = Outcome(s, <<>>, "run")
    BY <1>3 DEF Outcome, Silent
  <1> QED BY <1>1, <1>2, <1>3 DEF smartid_cmd_process, Known
=============================================================================
