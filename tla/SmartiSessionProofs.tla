------------------------ MODULE SmartiSessionProofs ------------------------
(***************************************************************************)
(* Proofs about a session of the smarti driver with the daemon, for any    *)
(* tokens, device names and discoveries.  Replies carry no number, so an   *)
(* answer belongs to its command only because of what can be on its way at *)
(* each step of the driver: that is the inductive invariant.               *)
(***************************************************************************)
EXTENDS SmartiSession, SmartidCmdProofs, SequenceTheorems

-----------------------------------------------------------------------------
(* The types of the variables: of a call in progress and its socket, of    *)
(* what the driver keeps, and of the daemon's end.                         *)

ReplyLines == [reply : Replies, whole : BOOLEAN]

Kept == [line : ReplyLines, from : {"socket", "residue"}] \cup {NULL}

CallType ==
  /\ app \in AppStates /\ step \in Steps \cup {NULL} /\ waiting \in BOOLEAN
  /\ result \in {"none", "success", "error"} /\ token \in Tokens
  /\ tcp \in Sockets /\ net \in Seq(ReplyLines)

KeptType == ep \in SmartNames \cup {NULL} /\ got \in [Values -> Kept]

ServerType ==
  /\ srv \in {"none", "up", "ended"} \cup (Fates \ {"run"})
  /\ SessionOK(sess) /\ out \in Seq(NotLate)
  /\ wire \in Seq(Lines) /\ input \in Seq(Lines)

TypeInv == CallType /\ KeptType /\ ServerType

-----------------------------------------------------------------------------
(* The driver's calls that keep values, and the step each call is at.      *)

Live == app \in {"opening", "opened", "transferring"}

StepOfCall ==
  /\ app = "opening" => step \in {"greeting", "enum", "open", "model", "serial", "ticks"}
  /\ app = "transferring" => step \in {"token", "size", "xfer", "data"}
  /\ app = "closing" => step = "close"
  /\ app \notin Calls => step = NULL /\ ~waiting
  /\ step \in {"greeting", "data"} /\ app \in Calls => waiting

(* A socket the daemon has closed carries nothing more; one that was never *)
(* opened has carried nothing.                                             *)
SockOf(sock, server) ==
  /\ sock \in {"fin", "rst", "broken"} => server = "ended"
  /\ sock = "up" => server \notin {"none", "ended"}

ConnInv ==
  /\ SockOf(tcp, srv)
  /\ srv \in {"none", "ended"} => out = <<>> /\ wire = <<>> /\ input = <<>>
  /\ app = "created" => net = <<>> /\ srv = "none"

-----------------------------------------------------------------------------
(* What is on its way to the client.                                       *)

Pending == {net[i].reply : i \in 1..Len(net)} \cup {out[i] : i \in 1..Len(out)}

Data(r) == r.kind = "base64" /\ r.tok = token

AtMostOne == Len(net) + Len(out) <= 1 /\ \A r \in Pending : r.kind # "base64"

AllDevices == \A r \in Pending : IsDevice(r)

(* Device lines that ENUM left, and then perhaps the answer to OPEN.       *)
DevicesFirst ==
  /\ \A i \in 1..Len(net) : i < Len(net) \/ out # <<>> => IsDevice(net[i].reply)
  /\ \A i \in 1..Len(out) : i < Len(out) => IsDevice(out[i])
  /\ \A r \in Pending : r.kind # "base64"

(* One line, and then the data.                                            *)
DataLast ==
  /\ net = <<>> => \A i \in 2..Len(out) : Data(out[i])
  /\ net # <<>> => /\ \A i \in 2..Len(net) : Data(net[i].reply)
                   /\ \A i \in 1..Len(out) : Data(out[i])
  /\ \A r \in Pending : r.kind = "base64" => r.tok = token

(* The command in hand has not reached its handler.                        *)
Unhandled == ~waiting \/ wire # <<>>

FlowInv ==
  Live =>
    /\ input = <<>>
    /\ wire # <<>> => waiting /\ wire = <<Command>> /\ step \notin {"greeting", "data"}
    /\ Unhandled => (net = <<>> /\ out = <<>>) \/ (app = "opening" /\ step = "open")
    /\ step \in {"greeting", "model", "serial", "ticks", "token", "size"} => AtMostOne
    /\ step = "enum" => AtMostOne \/ AllDevices
    /\ step = "open" => IF Unhandled THEN AllDevices ELSE DevicesFirst
    /\ step = "xfer" => DataLast
    /\ step = "data" => \A r \in Pending : Data(r)

(* What the answers say, and the token in the daemon's handle.             *)
AnswerInv ==
  /\ app = "opening" /\ step \in {"model", "serial", "ticks"} =>
       \A r \in Pending : r.code = INFO => r.kind = step
  /\ app = "transferring" /\ step = "token" /\ srv = "up" =>
       \A r \in Pending : r.code = SUCCESS => sess.dev.tok = token
  /\ app = "transferring" /\ step = "size" =>
       \A r \in Pending : r.code = INFO =>
         r.kind = "size" /\ r.tok = token /\ (srv = "up" => sess.dev.tok = token)
  /\ app = "transferring" /\ step \in {"size", "xfer"} /\ srv = "up" /\ Unhandled =>
       sess.dev.tok = token

(* What the driver has kept.                                               *)
GotInv ==
  /\ app = "created" \/ Live => got["data"] = NULL
  /\ app = "transferring" /\ step \in {"xfer", "data"} => got["size"].line.reply.tok = token
  /\ AnswersMatch /\ TransferMatchesToken

IInv ==
  TypeInv /\ StepOfCall /\ ConnInv /\ FlowInv /\ AnswerInv /\ GotInv

(* A call that fails.                                                      *)
LEMMA FailType ==
  ASSUME CallType, app \in Calls, NEW rest \in Seq(ReplyLines), NEW sock \in Sockets,
         Fail(rest, sock)
  PROVE  CallType'
  <1>1. waiting' \in BOOLEAN BY DEF Fail, Return
  <1>2. net' \in Seq(ReplyLines)
    <2>1. CASE net' = rest BY <2>1
    <2>2. CASE net' = <<>> BY <2>2
    <2> QED BY <2>1, <2>2 DEF Fail, Keep, smarti_client_disconnect
  <1>3. tcp' \in Sockets BY DEF Fail, Keep, smarti_client_disconnect, Sockets
  <1>4. app' \in AppStates /\ step' = NULL BY DEF Fail, Return, Returns, Calls, AppStates
  <1>5. result' \in {"none", "success", "error"} /\ token' \in Tokens BY DEF Fail, Return, CallType
  <1> QED BY <1>1, <1>2, <1>3, <1>4, <1>5 DEF CallType

(* A call that succeeds, and one that goes on.                             *)
LEMMA GoOnType ==
  ASSUME CallType, app \in Calls, NEW rest \in Seq(ReplyLines),
         Succeed(rest) \/ (step \in DOMAIN Follows /\ Continue(rest))
  PROVE  CallType'
  <1>1. CASE Succeed(rest)
    <2>1. waiting' \in BOOLEAN BY <1>1 DEF Succeed, Return
    <2>2. net' \in Seq(ReplyLines)
      <3>1. CASE net' = rest BY <3>1
      <3>2. CASE net' = <<>> BY <3>2
      <3> QED BY <1>1, <3>1, <3>2 DEF Succeed, Keep, smarti_client_disconnect
    <2>3. tcp' \in Sockets BY <1>1 DEF Succeed, Keep, smarti_client_disconnect, Sockets, CallType
    <2>4. app' \in AppStates /\ step' = NULL
      BY <1>1 DEF Succeed, Return, Returns, Calls, AppStates
    <2>5. result' \in {"none", "success", "error"} /\ token' \in Tokens
      BY <1>1 DEF Succeed, Return, CallType
    <2> QED BY <2>1, <2>2, <2>3, <2>4, <2>5 DEF CallType
  <1>2. CASE step \in DOMAIN Follows /\ Continue(rest)
    <2>1. waiting' \in BOOLEAN BY <1>2 DEF Continue
    <2>2. step' \in Steps BY <1>2 DEF Continue, Follows, Steps, Values
    <2> QED BY <1>2, <2>1, <2>2 DEF CallType, Continue, Keep
  <1> QED BY <1>1, <1>2

(* A line that is read, from the socket or from old memory.                *)
LEMMA ReceivedType ==
  ASSUME CallType, KeptType, app \in Calls, NEW line, NEW from \in {"socket", "residue"},
         NEW rest \in Seq(ReplyLines), Received(line, from, rest),
         line \in ReplyLines \/ (line = NULL /\ step # "data"),
         line = NULL => smartic_parse_response(line) = NoCode
  PROVE  CallType' /\ KeptType'
  <1> USE DEF Kept, KeptType
  <1>0. /\ ep \in SmartNames \cup {NULL} /\ got \in [Values -> Kept] /\ tcp \in Sockets
    BY DEF CallType
  <1>1. CASE ~Accepts(line) /\ Fail(rest, tcp) /\ ForgetName /\ UNCHANGED got
    BY <1>0, <1>1, FailType DEF ForgetName
  <1>2. CASE Accepts(line) /\ step = "enum" /\ Enumerated(line, rest)
    <2>1. ep' \in SmartNames \cup {NULL} /\ got' \in [Values -> Kept]
      BY <1>0, <1>2 DEF Enumerated, smarti_enum_cb
    <2>2. CASE Keep(rest, tcp) /\ UNCHANGED <<app, step, waiting, result, token>>
      BY <2>1, <2>2 DEF CallType, Keep
    <2>3. CASE Fail(rest, tcp) BY <1>0, <2>1, <2>3, FailType
    <2>4. CASE Continue(rest)
      <3>1. step \in DOMAIN Follows BY <1>2 DEF Follows
      <3> QED BY <2>1, <2>4, <3>1, GoOnType
    <2> QED BY <1>2, <2>1, <2>2, <2>3, <2>4 DEF Enumerated
  <1>3. CASE /\ Accepts(line) /\ step # "enum"
             /\ \/ step \in DOMAIN Follows /\ Continue(rest)
                \/ step \in {"ticks", "size", "data", "close"} /\ Succeed(rest)
                \/ step = "data" /\ Fail(rest, tcp)
             /\ got' = IF step \in Values THEN [got EXCEPT ![step] = Got(line, from)] ELSE got
             /\ ForgetName
    <2>1. ep' \in SmartNames \cup {NULL} BY <1>0, <1>3 DEF ForgetName
    <2>2. step \in Values => line \in ReplyLines
      <3>1. smartic_parse_response(line) = INFO => line \in ReplyLines BY DEF INFO, NoCode
      <3>2. step \in {"model", "serial", "ticks", "size"} => smartic_parse_response(line) = INFO
        BY <1>3 DEF Accepts, smarti_client_model, smarti_client_serial, smarti_client_ticks,
           smarti_client_size, smartic_parse_devinfo
      <3> QED BY <3>1, <3>2 DEF Values
    <2>3. got' \in [Values -> Kept]
      <3>1. CASE step \in Values
        <4>1. Got(line, from) \in Kept BY <2>2, <3>1 DEF Got
        <4> QED BY <1>0, <1>3, <3>1, <4>1
      <3>2. CASE step \notin Values BY <1>0, <1>3, <3>2
      <3> QED BY <3>1, <3>2
    <2>4. CallType' BY <1>0, <1>3, FailType, GoOnType
    <2> QED BY <2>1, <2>3, <2>4
  <1> QED BY <1>1, <1>2, <1>3 DEF Received, Accepted

-----------------------------------------------------------------------------
(* A call that has ended leaves nothing to be known of what is on its way. *)
LEMMA CallOver ==
  ASSUME TypeInv', StepOfCall', ConnInv', AnswersMatch', TransferMatchesToken',
         app' \notin {"created", "opening", "opened", "transferring"}
  PROVE  IInv'
  BY DEF IInv, FlowInv, AnswerInv, GotInv, Live

(* A call that fails keeps the invariant, whatever it leaves unread.       *)
LEMMA FailInv ==
  ASSUME IInv, app \in Calls, NEW rest \in Seq(ReplyLines), NEW sock \in Sockets,
         SockOf(sock, srv),
         Fail(rest, sock), KeptType', AnswersMatch', UNCHANGED serverVars
  PROVE  IInv'
  <1>1. CallType' BY FailType DEF IInv, TypeInv
  <1>2. TypeInv' BY <1>1 DEF IInv, TypeInv, ServerType, serverVars
  <1>3. /\ app' \in {"failed", "transferred", "closed"} /\ step' = NULL /\ waiting' = FALSE
        /\ app' = "transferred" => result' = "error"
        /\ tcp' \in {sock, "none"}
    BY DEF Fail, Return, Returns, Calls, Keep, smarti_client_disconnect
  <1>4. StepOfCall' BY <1>3 DEF StepOfCall, Calls
  <1>5. ConnInv' BY <1>3 DEF IInv, ConnInv, SockOf, serverVars
  <1>6. TransferMatchesToken' BY <1>3 DEF TransferMatchesToken
  <1> QED BY <1>2, <1>3, <1>4, <1>5, <1>6, CallOver

(* So does a process that is killed.                                       *)
LEMMA DieInv ==
  ASSUME IInv, NEW signal \in Killed, Die(signal), UNCHANGED serverVars
  PROVE  IInv'
  <1>1. /\ app' = signal /\ step' = NULL /\ waiting' = FALSE /\ tcp' = "none" /\ net' = <<>>
        /\ UNCHANGED <<result, token, ep, got>>
    BY DEF Die, smarti_client_disconnect
  <1>2. signal \in AppStates /\ signal \notin Calls
        /\ signal \notin {"created", "opening", "opened", "transferring", "transferred"}
    BY DEF Killed, AppStates, Calls
  <1>3. waiting' \in BOOLEAN BY <1>1
  <1>9. net' \in Seq(ReplyLines) BY <1>1
  <1>4. CallType' BY <1>1, <1>2, <1>3, <1>9 DEF IInv, TypeInv, CallType, Sockets
  <1>5. TypeInv' BY <1>1, <1>4 DEF IInv, TypeInv, KeptType, ServerType, serverVars
  <1>6. StepOfCall' BY <1>1, <1>2 DEF StepOfCall, Calls
  <1>7. ConnInv' BY <1>1, <1>2 DEF IInv, ConnInv, SockOf, serverVars
  <1>8. AnswersMatch' /\ TransferMatchesToken'
    BY <1>1, <1>2 DEF IInv, GotInv, AnswersMatch, TransferMatchesToken
  <1> QED BY <1>1, <1>2, <1>5, <1>6, <1>7, <1>8, CallOver

(* ForgetName keeps the type of epname.                                    *)
LEMMA ForgetType ==
  ASSUME KeptType, ForgetName, UNCHANGED got
  PROVE  KeptType'
  BY DEF KeptType, ForgetName

(* A timeout, and a reset.                                                 *)
LEMMA GiveUpInv ==
  ASSUME IInv, Timeout \/ ReadReset
  PROVE  IInv'
  <1>1. app \in Calls /\ waiting /\ ForgetName /\ UNCHANGED <<got, serverVars>>
    BY DEF Timeout, ReadReset, IInv, StepOfCall
  <1>2. KeptType' /\ AnswersMatch'
    BY <1>1, ForgetType DEF IInv, TypeInv, GotInv, AnswersMatch
  <1>3. <<>> \in Seq(ReplyLines) OBVIOUS
  <1>4. CASE ReadReset
    <2>1. Fail(<<>>, "broken") /\ tcp = "rst" BY <1>4 DEF ReadReset
    <2>2. SockOf("broken", srv) BY <2>1 DEF IInv, ConnInv, SockOf
    <2> QED BY <1>1, <1>2, <1>3, <2>1, <2>2, FailInv DEF Sockets
  <1>5. CASE Timeout /\ step # "greeting"
    <2>1. Fail(<<>>, tcp) /\ tcp = "up" /\ SockOf(tcp, srv) BY <1>5 DEF Timeout, IInv, ConnInv
    <2> QED BY <1>1, <1>2, <1>3, <2>1, FailInv DEF Sockets
  <1>6. CASE Timeout /\ step = "greeting"
    <2>1. app = "opening" BY <1>1, <1>6 DEF IInv, StepOfCall, Calls
    <2>2. Return("error", "failed") /\ Keep(<<>>, tcp) /\ tcp = "up" BY <1>6 DEF Timeout
    <2>4. /\ app' = "failed" /\ step' = NULL /\ waiting' = FALSE /\ result' = "error"
          /\ UNCHANGED <<token, tcp>> /\ net' = <<>>
      BY <2>1, <2>2 DEF Return, Keep
    <2>5. waiting' \in BOOLEAN /\ net' \in Seq(ReplyLines) BY <1>3, <2>4
    <2>6. CallType' BY <2>4, <2>5 DEF IInv, TypeInv, CallType, AppStates
    <2>7. TypeInv' BY <1>1, <1>2, <2>6 DEF IInv, TypeInv, ServerType, serverVars
    <2>8. StepOfCall' /\ TransferMatchesToken' BY <2>4 DEF StepOfCall, Calls, TransferMatchesToken
    <2>9. ConnInv' BY <1>1, <2>2, <2>4 DEF IInv, ConnInv, SockOf, serverVars
    <2> QED BY <1>2, <2>4, <2>7, <2>8, <2>9, CallOver
  <1> QED BY <1>4, <1>5, <1>6

-----------------------------------------------------------------------------
(* What the code of an accepted line is, at each step.                     *)
LEMMA AcceptsCode ==
  ASSUME NEW line, step \in Steps, Accepts(line)
  PROVE  /\ step # "data" => line # NULL
         /\ step = "enum" => IsDevice(line.reply)
         /\ step \in {"open", "token", "close"} => line.reply.code = SUCCESS
         /\ step \in {"model", "serial", "ticks", "size"} => line.reply.code = INFO
         /\ step = "data" => line.whole
  <1> DEFINE code == smartic_parse_response(line)
  <1>1. /\ step = "greeting" => code = READY
        /\ step = "enum" => code = INFO /\ line.reply.kind = "device"
        /\ step \in {"open", "token", "close"} => code = SUCCESS
        /\ step \in {"model", "serial", "ticks", "size"} => code = INFO
        /\ step = "xfer" => code = DATA_FOLLOWS
        /\ step = "data" => line.whole
    BY DEF Accepts, smarti_client_connect, smarti_client_enumerate, smarti_client_open,
       smarti_client_model, smarti_client_serial, smarti_client_ticks, smarti_client_set_token,
       smarti_client_size, smarti_client_xfer, smarti_client_close, LengthMatches,
       smartic_parse_devinfo, smartic_parse_enuminfo
  <1>2. step # "data" => code \in {READY, INFO, SUCCESS, DATA_FOLLOWS}
    BY <1>1 DEF Steps, Values
  <1>3. code # NoCode => line # NULL /\ code = line.reply.code BY DEF smartic_parse_response
  <1>4. NoCode \notin {READY, INFO, SUCCESS, DATA_FOLLOWS}
    BY DEF NoCode, READY, INFO, SUCCESS, DATA_FOLLOWS
  <1> QED BY <1>1, <1>2, <1>3, <1>4 DEF IsDevice

(* The first line unread is on its way, and so is what follows it.         *)
LEMMA FirstPending ==
  ASSUME net \in Seq(ReplyLines), net # <<>>
  PROVE  /\ net[1] \in ReplyLines /\ net[1].reply \in Pending
         /\ Tail(net) \in Seq(ReplyLines) /\ Len(net) \in Nat /\ Len(net) > 0
         /\ Len(Tail(net)) = Len(net) - 1
         /\ \A i \in 1..Len(Tail(net)) : Tail(net)[i] = net[i + 1]
  <1>1. Len(net) \in Nat /\ Len(net) > 0 /\ 1 \in 1..Len(net) OBVIOUS
  <1> QED BY <1>1 DEF Pending

(* Reading a line adds nothing to what is on its way.                      *)
LEMMA PendingShrinks ==
  ASSUME net \in Seq(ReplyLines), net # <<>>, net' = Tail(net), out' = out
  PROVE  Pending' \subseteq Pending
  <1>1. SUFFICES ASSUME NEW i \in 1..Len(net') PROVE net'[i].reply \in Pending
    BY DEF Pending
  <1>2. net'[i] = net[i + 1] /\ i + 1 \in 1..Len(net) BY <1>1, FirstPending
  <1> QED BY <1>2 DEF Pending

(* Nothing on its way: every clause of FlowInv holds.                      *)
LEMMA NothingPending ==
  ASSUME net' = <<>>, out' = <<>>, wire' = <<>>, input' = <<>>
  PROVE  FlowInv' /\ Pending' = {}
  <1>1. Pending' = {} BY DEF Pending
  <1>2. AtMostOne' /\ AllDevices' BY <1>1 DEF AtMostOne, AllDevices
  <1>3. DevicesFirst' /\ DataLast' BY <1>1 DEF DevicesFirst, DataLast
  <1> QED BY <1>1, <1>2, <1>3 DEF FlowInv

(* A line was read for the command in hand, so the command was handled.    *)
LEMMA Handled ==
  ASSUME IInv, Live, waiting, net # <<>>, step = "open" => net[1].reply.code = SUCCESS
  PROVE  wire = <<>> /\ input = <<>> /\ ~Unhandled
  <1>1. CASE wire # <<>>
    <2>1. Unhandled BY <1>1 DEF Unhandled
    <2>2. step = "open" /\ AllDevices BY <2>1 DEF IInv, FlowInv
    <2>3. IsDevice(net[1].reply) BY <2>2, FirstPending DEF AllDevices, IInv, TypeInv, CallType
    <2> QED BY <2>2, <2>3 DEF IsDevice, SUCCESS, INFO
  <1>2. CASE wire = <<>> BY <1>2 DEF IInv, FlowInv, Unhandled
  <1> QED BY <1>1, <1>2

(* Where one answer is expected, reading it leaves nothing on its way.     *)
LEMMA ReadsAll ==
  ASSUME IInv, Live, waiting, net # <<>>,
         \/ step \in {"greeting", "model", "serial", "ticks", "token", "size"}
         \/ step = "open" /\ net[1].reply.code = SUCCESS
  PROVE  Tail(net) = <<>> /\ out = <<>> /\ wire = <<>> /\ input = <<>>
  <1>1. wire = <<>> /\ input = <<>> /\ ~Unhandled BY Handled
  <1>2. net \in Seq(ReplyLines) /\ out \in Seq(NotLate)
    BY DEF IInv, TypeInv, CallType, ServerType
  <1>3. Len(net) \in Nat /\ Len(net) > 0 /\ Len(out) \in Nat /\ Len(Tail(net)) = Len(net) - 1
    BY <1>2, FirstPending
  <1>4. CASE step \in {"greeting", "model", "serial", "ticks", "token", "size"}
    <2>1. Len(net) + Len(out) <= 1 BY <1>4 DEF IInv, FlowInv, AtMostOne
    <2>2. Len(Tail(net)) = 0 /\ Len(out) = 0 BY <1>3, <2>1
    <2> QED BY <1>1, <1>2, <2>2
  <1>5. CASE step = "open" /\ net[1].reply.code = SUCCESS
    <2>1. DevicesFirst BY <1>1, <1>5 DEF IInv, FlowInv
    <2>2. ~IsDevice(net[1].reply) BY <1>5 DEF IsDevice, SUCCESS, INFO
    <2>3. ~(1 < Len(net) \/ out # <<>>) BY <1>3, <2>1, <2>2 DEF DevicesFirst
    <2>4. Len(Tail(net)) = 0 BY <1>3, <2>3
    <2> QED BY <1>1, <1>2, <2>3, <2>4
  <1> QED BY <1>4, <1>5

-----------------------------------------------------------------------------
(* Where the line being parsed comes from: the socket, or at the end of    *)
(* file the memory of an earlier call.                                     *)
FromSocket(line, from, rest) ==
  from = "socket" /\ net # <<>> /\ line = net[1] /\ rest = Tail(net)

FromMemory(line, from, rest) ==
  /\ from = "residue" /\ net = <<>> /\ rest = <<>> /\ srv = "ended" /\ step # "data"
  /\ line = NULL \/ (line \in ReplyLines /\ step \in {"serial", "ticks"})

(* A line accepted as a value from the socket answers the step in hand.    *)
LEMMA ValueIsAnswer ==
  ASSUME IInv, app \in Calls, step \in {"model", "serial", "ticks", "size"}, net # <<>>,
         net[1].reply.code = INFO
  PROVE  /\ net[1].reply.kind = step
         /\ step = "size" => net[1].reply.tok = token /\ (srv = "up" => sess.dev.tok = token)
  <1>1. net[1].reply \in Pending BY FirstPending DEF IInv, TypeInv, CallType
  <1>2. step = "size" => app = "transferring" BY DEF IInv, StepOfCall, Calls
  <1>3. step # "size" => app = "opening" BY DEF IInv, StepOfCall, Calls
  <1> QED BY <1>1, <1>2, <1>3 DEF IInv, AnswerInv

(* Every value kept from the socket is of the kind asked for.              *)
LEMMA KeepsAnswers ==
  ASSUME IInv, app \in Calls, waiting, NEW line, NEW from, NEW rest, Accepts(line),
         FromSocket(line, from, rest) \/ FromMemory(line, from, rest),
         got' = IF step \in Values THEN [got EXCEPT ![step] = Got(line, from)] ELSE got
  PROVE  AnswersMatch'
  <1>1. step \in Steps BY DEF IInv, TypeInv, CallType, StepOfCall, Calls, Steps, Values
  <1>2. AnswersMatch /\ got \in [Values -> Kept] BY DEF IInv, GotInv, TypeInv, KeptType
  <1>3. SUFFICES ASSUME NEW v \in Values \ {"data"}, got'[v] # NULL, got'[v].from = "socket"
                 PROVE  got'[v].line.reply.kind = v
    BY DEF AnswersMatch
  <1>4. CASE v = step
    <2>1. got'[v] = Got(line, from) BY <1>2, <1>4
    <2>2. from = "socket" /\ got'[v].line = line BY <1>3, <2>1 DEF Got
    <2>3. net # <<>> /\ line = net[1] BY <2>2 DEF FromSocket, FromMemory
    <2>4. step \in {"model", "serial", "ticks", "size"} BY <1>4 DEF Values
    <2>5. line.reply.code = INFO BY <1>1, <2>4, AcceptsCode
    <2> QED BY <1>4, <2>2, <2>3, <2>4, <2>5, ValueIsAnswer
  <1>5. CASE v # step
    <2>1. got'[v] = got[v] BY <1>2, <1>5
    <2> QED BY <1>2, <1>3, <2>1 DEF AnswersMatch
  <1> QED BY <1>4, <1>5

(* A device line: the client reads on, gives up, or goes on to OPEN with   *)
(* nothing but device lines left behind.                                   *)
LEMMA EnumInv ==
  ASSUME IInv, app \in Calls, waiting, step = "enum", NEW line, NEW from, NEW rest,
         FromSocket(line, from, rest), Accepts(line), Enumerated(line, rest),
         TypeInv', UNCHANGED serverVars
  PROVE  IInv'
  <1>1. app = "opening" /\ Live BY DEF IInv, StepOfCall, Calls, Live
  <1>2. /\ wire = <<>> /\ input = <<>> /\ net # <<>> /\ rest = Tail(net)
        /\ got' = got /\ net \in Seq(ReplyLines) /\ out \in Seq(NotLate)
    BY <1>1, Handled DEF FromSocket, Enumerated, IInv, TypeInv, CallType, ServerType
  <1>3. AnswersMatch' BY <1>2 DEF IInv, GotInv, AnswersMatch
  <1>4. /\ net[1].reply \in Pending /\ rest \in Seq(ReplyLines) /\ Len(net) \in Nat /\ Len(net) > 0
        /\ Len(rest) = Len(net) - 1 /\ \A i \in 1..Len(rest) : rest[i] = net[i + 1]
    BY <1>2, FirstPending
  <1>5. tcp \in Sockets /\ SockOf(tcp, srv)
    BY DEF IInv, TypeInv, CallType, ConnInv
  <1>6. rest # <<>> \/ out # <<>> => AllDevices
    <2>1. AtMostOne => Len(rest) + Len(out) = 0 BY <1>2, <1>4 DEF AtMostOne
    <2>2. AtMostOne => rest = <<>> /\ out = <<>> BY <1>2, <1>4, <2>1
    <2> QED BY <1>1, <2>2 DEF IInv, FlowInv
  <1>7. CASE Fail(rest, tcp)
    <2>1. KeptType' BY DEF TypeInv
    <2> QED BY <1>3, <1>4, <1>5, <1>7, <2>1, FailInv
  <1>8. CASE \/ rest # <<>> /\ Keep(rest, tcp) /\ UNCHANGED <<app, step, waiting, result, token>>
             \/ rest = <<>> /\ Continue(rest)
    <2>1. net' = rest /\ tcp' = tcp /\ out' = out /\ wire' = <<>> /\ input' = <<>>
          /\ app' = "opening" /\ step' \in {"enum", "open"} /\ token' = token
          /\ srv' = srv /\ (step' = "enum" => waiting' = waiting)
      BY <1>1, <1>2, <1>8 DEF Keep, serverVars, Continue, Follows
    <2>2. rest # <<>> \/ out # <<>> => \A r \in Pending' : IsDevice(r)
      BY <1>2, <1>6, <2>1, PendingShrinks DEF AllDevices
    <2>3. rest = <<>> /\ out = <<>> => Pending' = {} BY <2>1 DEF Pending
    <2>4. AllDevices' BY <2>2, <2>3 DEF AllDevices
    <2>5. step' = "open" => waiting' = FALSE BY <1>8, <2>1 DEF Continue
    <2>6. step' = "open" => Unhandled' BY <2>5 DEF Unhandled
    <2>7. step' = "enum" => ~Unhandled' BY <2>1 DEF Unhandled
    <2>8. FlowInv' BY <2>1, <2>4, <2>6, <2>7 DEF FlowInv
    <2>9. StepOfCall' BY <2>1 DEF StepOfCall, Calls
    <2>10. ConnInv' BY <1>5, <2>1 DEF IInv, ConnInv, SockOf, serverVars
    <2>11. AnswerInv' BY <2>1 DEF AnswerInv
    <2>12. GotInv' BY <1>1, <1>2, <1>3, <2>1 DEF IInv, GotInv, Live, TransferMatchesToken
    <2> QED BY <2>8, <2>9, <2>10, <2>11, <2>12 DEF IInv
  <1> QED BY <1>7, <1>8 DEF Enumerated

(* On to the next command of the call.                                     *)
LEMMA ContinueInv ==
  ASSUME IInv, app \in Calls, waiting, step # "enum", step \in DOMAIN Follows,
         NEW line, NEW from, NEW rest,
         FromSocket(line, from, rest) \/ FromMemory(line, from, rest),
         Accepts(line), Continue(rest), TypeInv', AnswersMatch', UNCHANGED serverVars,
         got' = IF step \in Values THEN [got EXCEPT ![step] = Got(line, from)] ELSE got
  PROVE  IInv'
  <1>1. step \in {"greeting", "open", "model", "serial", "token", "size", "xfer"}
    BY DEF Follows
  <1>2. /\ app \in {"opening", "transferring"} /\ Live
        /\ app = "opening" => step \in {"greeting", "open", "model", "serial"}
        /\ app = "transferring" => step \in {"token", "size", "xfer"}
    BY <1>1 DEF IInv, StepOfCall, Calls, Live
  <1>3. /\ app' = app /\ token' = token /\ result' = result /\ net' = rest /\ tcp' = tcp
        /\ out' = out /\ wire' = wire /\ input' = input /\ srv' = srv /\ sess' = sess
        /\ step' = Follows[step] /\ waiting' = (step = "xfer")
    BY DEF Continue, Keep, serverVars
  <1>4. /\ (step = "greeting" => step' = "enum") /\ (step = "open" => step' = "model")
        /\ (step = "model" => step' = "serial") /\ (step = "serial" => step' = "ticks")
        /\ (step = "token" => step' = "size") /\ (step = "size" => step' = "xfer")
        /\ (step = "xfer" => step' = "data")
    BY <1>1, <1>3 DEF Follows
  <1>5. step = "xfer" => waiting' BY <1>3
  <1>6. StepOfCall' BY <1>1, <1>2, <1>3, <1>4, <1>5 DEF StepOfCall, Calls
  <1>7. ConnInv'
    <2>1. app' # "created" BY <1>2, <1>3
    <2> QED BY <1>3, <2>1 DEF IInv, ConnInv, SockOf
  <1>8. got \in [Values -> Kept] /\ got["data"] = NULL /\ step \in Steps
    BY <1>1, <1>2 DEF IInv, TypeInv, KeptType, GotInv, Steps, Values
  <1>9. got'["data"] = NULL
    <2>1. "data" \in Values /\ step # "data" BY <1>1 DEF Values
    <2> QED BY <1>8, <2>1
  <1>10. FromMemory(line, from, rest) => step = "serial" /\ srv = "ended"
    BY <1>1, <1>8, AcceptsCode DEF FromMemory
  <1>11. step = "size" => line.reply.tok = token /\ (srv = "up" => sess.dev.tok = token)
    <2> HAVE step = "size"
    <2>1. line.reply.code = INFO BY <1>8, AcceptsCode
    <2>2. FromSocket(line, from, rest) BY <1>10
    <2> QED BY <2>1, <2>2, ValueIsAnswer DEF FromSocket
  <1>12. step = "token" /\ srv = "up" => sess.dev.tok = token
    <2> HAVE step = "token" /\ srv = "up"
    <2>1. line.reply.code = SUCCESS BY <1>8, AcceptsCode
    <2>2. net # <<>> /\ line = net[1] BY <1>10 DEF FromSocket
    <2>3. net[1].reply \in Pending BY <2>2, FirstPending DEF IInv, TypeInv, CallType
    <2> QED BY <1>2, <2>1, <2>2, <2>3 DEF IInv, AnswerInv
  <1>13. step' \in {"xfer", "data"} => got'["size"].line.reply.tok = token'
    <2>1. "size" \in Values BY DEF Values
    <2>2. CASE step = "size"
      <3>1. got'["size"].line = line BY <1>8, <2>1, <2>2 DEF Got
      <3> QED BY <1>3, <1>11, <2>2, <3>1
    <2>3. CASE step = "xfer"
      <3>1. got'["size"] = got["size"] BY <1>8, <2>1, <2>3
      <3> QED BY <1>2, <1>3, <2>3, <3>1 DEF IInv, GotInv
    <2> QED BY <1>1, <1>4, <2>2, <2>3
  <1>14. GotInv'
    <2>1. TransferMatchesToken' BY <1>2, <1>3 DEF TransferMatchesToken
    <2> QED BY <1>9, <1>13, <2>1 DEF GotInv
  <1>15. FlowInv' /\ AnswerInv'
    <2>1. CASE step # "xfer"
      <3>1. rest = <<>> /\ out = <<>> /\ wire = <<>> /\ input = <<>>
        <4>1. CASE FromSocket(line, from, rest)
          <5>1. step = "open" => net[1].reply.code = SUCCESS
            BY <1>8, <4>1, AcceptsCode DEF FromSocket
          <5> QED BY <1>1, <1>2, <2>1, <4>1, <5>1, ReadsAll DEF FromSocket
        <4>2. CASE FromMemory(line, from, rest) BY <4>2 DEF FromMemory, IInv, ConnInv
        <4> QED BY <4>1, <4>2
      <3>2. FlowInv' /\ Pending' = {} BY <1>3, <3>1, NothingPending
      <3>3. AnswerInv' BY <1>1, <1>3, <1>4, <1>11, <1>12, <3>2 DEF AnswerInv
      <3> QED BY <3>2, <3>3
    <2>2. CASE step = "xfer"
      <3>1. FromSocket(line, from, rest) BY <1>10, <2>2
      <3>2. net # <<>> /\ rest = Tail(net) /\ net \in Seq(ReplyLines)
        BY <3>1 DEF FromSocket, IInv, TypeInv, CallType
      <3>3. wire = <<>> /\ input = <<>> BY <1>2, <2>2, <3>2, Handled
      <3>4. /\ \A i \in 2..Len(net) : Data(net[i].reply)
            /\ \A i \in 1..Len(out) : Data(out[i])
        BY <1>2, <2>2, <3>2 DEF IInv, FlowInv, DataLast
      <3>5. \A i \in 1..Len(rest) : Data(rest[i].reply)
        <4>1. TAKE i \in 1..Len(rest)
        <4>2. rest[i] = net[i + 1] /\ i + 1 \in 2..Len(net) BY <3>2, FirstPending
        <4> QED BY <3>4, <4>2
      <3>6. \A r \in Pending' : Data(r)' BY <1>3, <3>4, <3>5 DEF Pending, Data
      <3>7. ~Unhandled' BY <1>3, <1>5, <2>2, <3>3 DEF Unhandled
      <3>8. step' = "data" /\ wire' = <<>> /\ input' = <<>> BY <1>3, <1>4, <2>2, <3>3
      <3> QED BY <3>6, <3>7, <3>8 DEF FlowInv, AnswerInv
    <2> QED BY <2>1, <2>2
  <1> QED BY <1>6, <1>7, <1>14, <1>15 DEF IInv

(* A call that succeeds has its answer.                                    *)
LEMMA SucceedInv ==
  ASSUME IInv, app \in Calls, waiting, step \in {"ticks", "size", "data", "close"},
         NEW line, NEW from, NEW rest,
         FromSocket(line, from, rest) \/ FromMemory(line, from, rest),
         Accepts(line), Succeed(rest), TypeInv', AnswersMatch', UNCHANGED serverVars,
         got' = IF step \in Values THEN [got EXCEPT ![step] = Got(line, from)] ELSE got
  PROVE  IInv'
  <1>1. /\ (app = "opening" /\ step = "ticks") \/ (app = "closing" /\ step = "close")
           \/ (app = "transferring" /\ step \in {"size", "data"})
        /\ step \in Steps
    BY DEF IInv, StepOfCall, Calls, Steps, Values
  <1>2. /\ app' = IF app = "opening" THEN "opened" ELSE Returns[app]
        /\ step' = NULL /\ waiting' = FALSE /\ token' = token
        /\ srv' = srv /\ sess' = sess /\ out' = out /\ wire' = wire /\ input' = input
        /\ tcp' \in {tcp, "none"} /\ (app # "closing" => net' = rest)
    BY DEF Succeed, Return, Keep, smarti_client_disconnect, serverVars
  <1>3. /\ app = "opening" => app' = "opened"
        /\ app = "closing" => app' = "closed"
        /\ app = "transferring" => app' = "transferred"
    BY <1>2 DEF Returns
  <1>4. StepOfCall' BY <1>1, <1>2, <1>3 DEF StepOfCall, Calls
  <1>5. ConnInv' BY <1>1, <1>2, <1>3 DEF IInv, ConnInv, SockOf
  <1>6. got \in [Values -> Kept] /\ "size" \in Values /\ "data" \in Values
    BY DEF IInv, TypeInv, KeptType, Values
  <1>7. app # "closing" => got["data"] = NULL
    BY <1>1 DEF IInv, GotInv, Live
  <1>8. FromMemory(line, from, rest) => step = "ticks" /\ srv = "ended"
    BY <1>1, AcceptsCode DEF FromMemory
  <1>9. CASE app = "opening"
    <2>1. rest = <<>> /\ out = <<>> /\ wire = <<>> /\ input = <<>>
      <3>1. CASE FromSocket(line, from, rest) BY <1>1, <1>9, <3>1, ReadsAll DEF FromSocket, Live
      <3>2. CASE FromMemory(line, from, rest) BY <3>2 DEF FromMemory, IInv, ConnInv
      <3> QED BY <3>1, <3>2
    <2>2. FlowInv' /\ Pending' = {} BY <1>2, <1>9, <2>1, NothingPending
    <2>3. got'["data"] = NULL BY <1>1, <1>6, <1>7, <1>9
    <2>4. AnswerInv' /\ GotInv'
      BY <1>3, <1>9, <2>3 DEF AnswerInv, GotInv, TransferMatchesToken
    <2> QED BY <1>4, <1>5, <2>2, <2>4 DEF IInv
  <1>10. CASE app = "closing"
    <2>1. TransferMatchesToken' BY <1>3, <1>10 DEF TransferMatchesToken
    <2> QED BY <1>3, <1>4, <1>5, <1>10, <2>1, CallOver
  <1>11. CASE app = "transferring"
    <2>1. net # <<>> /\ line = net[1] BY <1>1, <1>8, <1>11 DEF FromSocket
    <2>2. got'["size"].line.reply.tok = token
      <3>1. CASE step = "size"
        <4>1. got'["size"].line = line BY <1>6, <3>1 DEF Got
        <4>2. line.reply.code = INFO BY <1>1, <3>1, AcceptsCode
        <4> QED BY <2>1, <3>1, <4>1, <4>2, ValueIsAnswer
      <3>2. CASE step = "data"
        <4>1. got'["size"] = got["size"] BY <1>6, <3>2
        <4> QED BY <1>11, <3>2, <4>1 DEF IInv, GotInv
      <3> QED BY <1>1, <1>11, <3>1, <3>2
    <2>3. step = "size" => got'["data"] = NULL BY <1>6, <1>7, <1>11
    <2>4. step = "data" => /\ got'["data"].line = line /\ line.whole
                           /\ line.reply.kind = "base64" /\ line.reply.tok = token
      <3> HAVE step = "data"
      <3>1. got'["data"].line = line BY <1>6 DEF Got
      <3>2. line.whole BY <1>1, AcceptsCode
      <3>3. line.reply \in Pending BY <2>1, FirstPending DEF IInv, TypeInv, CallType
      <3>4. Data(line.reply) BY <1>11, <3>3 DEF IInv, FlowInv, Live
      <3> QED BY <3>1, <3>2, <3>4 DEF Data
    <2>5. TransferMatchesToken'
      BY <1>1, <1>2, <1>11, <2>2, <2>3, <2>4 DEF TransferMatchesToken
    <2> QED BY <1>3, <1>4, <1>5, <1>11, <2>5, CallOver
  <1> QED BY <1>1, <1>9, <1>10, <1>11

(* Whatever is read, the invariant is kept.                                *)
LEMMA ReceivedInv ==
  ASSUME IInv, waiting, NEW line, NEW from, NEW rest,
         FromSocket(line, from, rest) \/ FromMemory(line, from, rest),
         Received(line, from, rest), UNCHANGED serverVars
  PROVE  IInv'
  <1>1. app \in Calls /\ CallType /\ KeptType /\ AnswersMatch BY DEF IInv, StepOfCall, TypeInv, GotInv
  <1>2. /\ rest \in Seq(ReplyLines) /\ from \in {"socket", "residue"}
        /\ line \in ReplyLines \/ (line = NULL /\ step # "data")
    <2>1. <<>> \in Seq(ReplyLines) OBVIOUS
    <2>2. CASE FromSocket(line, from, rest)
      BY <1>1, <2>2, FirstPending DEF FromSocket, CallType
    <2>3. CASE FromMemory(line, from, rest) BY <2>1, <2>3 DEF FromMemory
    <2> QED BY <2>2, <2>3
  <1>3. line = NULL => smartic_parse_response(line) = NoCode BY DEF smartic_parse_response
  <1>4. CallType' /\ KeptType' BY <1>1, <1>2, <1>3, ReceivedType
  <1>5. TypeInv' BY <1>4 DEF IInv, TypeInv, ServerType, serverVars
  <1>6. tcp \in Sockets /\ SockOf(tcp, srv)
    BY DEF IInv, TypeInv, CallType, ConnInv
  <1>7. CASE ~Accepts(line) /\ Fail(rest, tcp) /\ ForgetName /\ UNCHANGED got
    <2>1. AnswersMatch' BY <1>1, <1>7 DEF AnswersMatch
    <2> QED BY <1>1, <1>2, <1>4, <1>6, <1>7, <2>1, FailInv
  <1>8. CASE Accepts(line) /\ step = "enum" /\ Enumerated(line, rest)
    <2>1. step \in Steps BY <1>8 DEF Steps
    <2>2. line # NULL BY <1>8, <2>1, AcceptsCode
    <2>3. FromSocket(line, from, rest) BY <1>8, <2>2 DEF FromMemory
    <2> QED BY <1>1, <1>5, <1>8, <2>3, EnumInv
  <1>9. CASE /\ Accepts(line) /\ step # "enum"
             /\ \/ step \in DOMAIN Follows /\ Continue(rest)
                \/ step \in {"ticks", "size", "data", "close"} /\ Succeed(rest)
                \/ step = "data" /\ Fail(rest, tcp)
             /\ got' = IF step \in Values THEN [got EXCEPT ![step] = Got(line, from)] ELSE got
             /\ ForgetName
    <2>1. AnswersMatch' BY <1>1, <1>9, KeepsAnswers
    <2>2. CASE step \in DOMAIN Follows /\ Continue(rest)
      BY <1>1, <1>5, <1>9, <2>1, <2>2, ContinueInv
    <2>3. CASE step \in {"ticks", "size", "data", "close"} /\ Succeed(rest)
      BY <1>1, <1>5, <1>9, <2>1, <2>3, SucceedInv
    <2>4. CASE step = "data" /\ Fail(rest, tcp)
      BY <1>1, <1>2, <1>4, <1>6, <2>1, <2>4, FailInv
    <2> QED BY <1>9, <2>2, <2>3, <2>4
  <1> QED BY <1>7, <1>8, <1>9 DEF Received, Accepted

(* A line, or the end of the file.                                         *)
LEMMA ReadInv ==
  ASSUME IInv, ReadLine \/ ReadEof
  PROVE  IInv'
  <1>1. waiting /\ app \in Calls /\ UNCHANGED serverVars
    BY DEF ReadLine, ReadEof, IInv, StepOfCall
  <1>2. CASE ReadLine
    <2>1. FromSocket(net[1], "socket", Tail(net)) /\ Received(net[1], "socket", Tail(net))
      BY <1>2 DEF ReadLine, LineReady, FromSocket
    <2> QED BY <1>1, <2>1, ReceivedInv
  <1>3. CASE ReadEof
    <2>1. net = <<>> /\ tcp \in {"fin", "broken"} /\ srv = "ended"
      BY <1>3 DEF ReadEof, IInv, ConnInv, SockOf
    <2>2. CASE step # "data" /\ \E line \in Residue : Received(line, "residue", <<>>)
      <3>1. PICK line \in Residue : Received(line, "residue", <<>>) BY <2>2
      <3>2. line = NULL \/ (line \in ReplyLines /\ step \in {"serial", "ticks"})
        <4>1. CASE line = NULL BY <4>1
        <4>2. CASE \E v \in {"model", "serial"} : Follows[v] = step /\ got[v] # NULL
                                                  /\ line = got[v].line
          <5>1. PICK v \in {"model", "serial"} : Follows[v] = step /\ got[v] # NULL
                                                 /\ line = got[v].line
            BY <4>2
          <5>2. step \in {"serial", "ticks"} BY <5>1 DEF Follows
          <5>3. got[v] \in Kept BY DEF IInv, TypeInv, KeptType, Values
          <5> QED BY <5>1, <5>2, <5>3 DEF Kept
        <4> QED BY <4>1, <4>2 DEF Residue
      <3>3. FromMemory(line, "residue", <<>>) BY <2>1, <2>2, <3>2 DEF FromMemory
      <3> QED BY <1>1, <3>1, <3>3, ReceivedInv
    <2>3. CASE step = "data" /\ Fail(<<>>, tcp) /\ UNCHANGED <<ep, got>>
      <3>1. KeptType' /\ AnswersMatch'
        BY <2>3 DEF IInv, TypeInv, KeptType, GotInv, AnswersMatch
      <3>2. <<>> \in Seq(ReplyLines) /\ SockOf(tcp, srv) BY DEF IInv, ConnInv
      <3> QED BY <1>1, <2>1, <2>3, <3>1, <3>2, FailInv DEF Sockets
    <2>4. CASE Die("abort") BY <1>1, <2>4, DieInv DEF Killed
    <2> QED BY <1>3, <2>2, <2>3, <2>4 DEF ReadEof
  <1> QED BY <1>2, <1>3

-----------------------------------------------------------------------------
(* What is on its way depends on these variables alone.                    *)
LEMMA SameFlow ==
  ASSUME IInv, UNCHANGED <<app, step, waiting, token, net, out, wire, input>>
  PROVE  FlowInv'
  <1>1. /\ Pending' = Pending /\ (AtMostOne' <=> AtMostOne) /\ (AllDevices' <=> AllDevices)
        /\ (DevicesFirst' <=> DevicesFirst) /\ (DataLast' <=> DataLast)
        /\ \A r : Data(r)' <=> Data(r)
    BY DEF Pending, AtMostOne, AllDevices, DevicesFirst, DataLast, Data
  <1>2. (Unhandled' <=> Unhandled) /\ (Live' <=> Live) /\ Command' = Command
    BY DEF Unhandled, Live, Command
  <1>3. FlowInv BY DEF IInv
  <1> QED BY <1>1, <1>2, <1>3 DEF FlowInv

(* The calls that start: open.                                             *)
LEMMA OpenInv ==
  ASSUME IInv, smarti_driver_open
  PROVE  IInv'
  <1>1. /\ app = "created" /\ net = <<>> /\ srv = "none" /\ out = <<>> /\ wire = <<>> /\ input = <<>>
        /\ step = NULL /\ ~waiting /\ got["data"] = NULL
        /\ UNCHANGED <<token, ep, got, net, sess, wire, input>>
    BY DEF smarti_driver_open, IInv, ConnInv, SockOf, StepOfCall, Calls, GotInv
  <1>2. AnswersMatch' BY <1>1 DEF IInv, GotInv, AnswersMatch
  <1>3. CASE app' = "failed" /\ result' = "error" /\ UNCHANGED <<step, waiting, tcp, srv, out>>
    <2>1. TypeInv' BY <1>1, <1>3 DEF IInv, TypeInv, CallType, KeptType, ServerType, AppStates
    <2>2. StepOfCall' /\ ConnInv' /\ TransferMatchesToken'
      BY <1>1, <1>3 DEF IInv, StepOfCall, ConnInv, SockOf, Calls, TransferMatchesToken
    <2> QED BY <1>2, <1>3, <2>1, <2>2, CallOver
  <1>4. CASE /\ app' = "opening" /\ step' = "greeting" /\ waiting' = TRUE /\ UNCHANGED result
             /\ tcp' = "up" /\ srv' = "up" /\ out' = <<Status(READY, "ready")>>
    <2>1. waiting' \in BOOLEAN /\ waiting' BY <1>4
    <2>2. out' \in Seq(NotLate) BY <1>4, GreetingOK
    <2>3. CallType' /\ KeptType'
      BY <1>1, <1>4, <2>1 DEF IInv, TypeInv, CallType, KeptType, AppStates, Calls, Steps, Sockets
    <2>4. TypeInv' BY <1>1, <1>4, <2>2, <2>3 DEF IInv, TypeInv, ServerType
    <2>5. StepOfCall' /\ ConnInv' BY <1>1, <1>4, <2>1 DEF StepOfCall, ConnInv, SockOf, Calls
    <2>6. Pending' = {Status(READY, "ready")} /\ Len(net') = 0 /\ Len(out') = 1
      BY <1>1, <1>4 DEF Pending
    <2>7. Status(READY, "ready").kind # "base64" BY ReplyParts
    <2>8. AtMostOne' BY <2>6, <2>7 DEF AtMostOne
    <2>9. ~Unhandled' BY <1>1, <1>4, <2>1 DEF Unhandled
    <2>10. FlowInv' BY <1>1, <1>4, <2>8, <2>9 DEF FlowInv
    <2>11. AnswerInv' /\ GotInv' BY <1>1, <1>2, <1>4 DEF AnswerInv, GotInv, TransferMatchesToken
    <2> QED BY <2>4, <2>5, <2>10, <2>11 DEF IInv
  <1> QED BY <1>3, <1>4 DEF smarti_driver_open

(* Transfer: nothing is on its way when it starts.                         *)
LEMMA TransferInv ==
  ASSUME IInv, smarti_driver_transfer
  PROVE  IInv'
  <1>1. /\ app = "opened" /\ Live /\ step = NULL /\ ~waiting /\ got["data"] = NULL
        /\ UNCHANGED <<waiting, ep, got, tcp, net, serverVars>>
    BY DEF smarti_driver_transfer, IInv, StepOfCall, Calls, GotInv, Live
  <1>2. AnswersMatch' BY <1>1 DEF IInv, GotInv, AnswersMatch
  <1>3. ConnInv'
    <2>1. app' # "created" BY DEF smarti_driver_transfer
    <2> QED BY <1>1, <2>1 DEF IInv, ConnInv, SockOf, serverVars
  <1>4. CASE app' = "transferred" /\ result' = "error" /\ UNCHANGED <<step, token>>
    <2>1. TypeInv'
      BY <1>1, <1>4 DEF IInv, TypeInv, CallType, KeptType, ServerType, AppStates, serverVars
    <2>2. StepOfCall' /\ TransferMatchesToken'
      BY <1>1, <1>4 DEF StepOfCall, Calls, TransferMatchesToken
    <2> QED BY <1>2, <1>3, <1>4, <2>1, <2>2, CallOver
  <1>5. CASE app' = "transferring" /\ step' = "token" /\ token' \in Tokens /\ UNCHANGED result
    <2>1. TypeInv'
      BY <1>1, <1>5 DEF IInv, TypeInv, CallType, KeptType, ServerType, AppStates, Calls, Steps, serverVars
    <2>2. StepOfCall' BY <1>5 DEF StepOfCall, Calls
    <2>3. net = <<>> /\ out = <<>> /\ wire = <<>> /\ input = <<>>
      <3>1. Unhandled /\ app # "opening" BY <1>1 DEF Unhandled
      <3> QED BY <1>1, <3>1 DEF IInv, FlowInv
    <2>4. FlowInv' /\ Pending' = {} BY <1>1, <2>3, NothingPending DEF serverVars
    <2>5. AnswerInv' BY <1>5, <2>4 DEF AnswerInv
    <2>6. GotInv' BY <1>1, <1>2, <1>5 DEF GotInv, TransferMatchesToken
    <2> QED BY <1>3, <2>1, <2>2, <2>4, <2>5, <2>6 DEF IInv
  <1> QED BY <1>4, <1>5 DEF smarti_driver_transfer

(* Close and shutdown: nothing is kept any more.                           *)
LEMMA CloseInv ==
  ASSUME IInv, smarti_driver_close \/ smarti_driver_shutdown
  PROVE  IInv'
  <1>1. /\ UNCHANGED <<waiting, result, token, ep, got, serverVars>>
        /\ app \notin Calls /\ step = NULL /\ ~waiting
        /\ \/ app' = "closing" /\ step' = "close" /\ UNCHANGED <<tcp, net>>
           \/ app' = "done" /\ UNCHANGED step /\ tcp' = "none" /\ net' = <<>>
    BY DEF smarti_driver_close, smarti_driver_shutdown, smarti_client_disconnect, IInv, StepOfCall, Calls
  <1>2. net' \in Seq(ReplyLines)
    <2>1. CASE net' = net BY <2>1 DEF IInv, TypeInv, CallType
    <2>2. CASE net' = <<>> BY <2>2
    <2> QED BY <1>1, <2>1, <2>2
  <1>3. CallType'
    BY <1>1, <1>2 DEF IInv, TypeInv, CallType, AppStates, Calls, Steps, Sockets
  <1>4. TypeInv' BY <1>1, <1>3 DEF IInv, TypeInv, KeptType, ServerType, serverVars
  <1>5. StepOfCall' BY <1>1 DEF StepOfCall, Calls
  <1>6. ConnInv' BY <1>1 DEF IInv, ConnInv, SockOf, serverVars
  <1>7. AnswersMatch' /\ TransferMatchesToken'
    BY <1>1 DEF IInv, GotInv, AnswersMatch, TransferMatchesToken
  <1> QED BY <1>1, <1>4, <1>5, <1>6, <1>7, CallOver

-----------------------------------------------------------------------------
(* A command line is one the daemon knows.                                 *)
LEMMA CommandType ==
  ASSUME token \in Tokens, step \in Steps \ {"greeting", "data"}
  PROVE  Command \in Lines
  <1>1. step \in {"close", "enum", "model", "open", "serial", "size", "ticks", "token", "xfer"}
    BY DEF Steps, Values
  <1>2. step \in Words
    <2>1. /\ Len(CmdTable) = 11 /\ CmdTable[1] = "close" /\ CmdTable[2] = "enum"
          /\ CmdTable[4] = "model" /\ CmdTable[5] = "open" /\ CmdTable[6] = "serial"
          /\ CmdTable[7] = "size" /\ CmdTable[9] = "ticks" /\ CmdTable[10] = "token"
          /\ CmdTable[11] = "xfer"
      BY DEF CmdTable
    <2>2. \A i \in 1..11 : CmdTable[i] \in Words BY <2>1 DEF Words
    <2> QED BY <1>1, <2>1, <2>2
  <1> QED BY <1>2, TokensAssumption DEF Command, Lines, Line, LineWith

(* A command is sent, is lost, or kills the call or the process.           *)
LEMMA SendInv ==
  ASSUME IInv, Send
  PROVE  IInv'
  <1>1. /\ app \in Calls /\ ~waiting /\ UNCHANGED <<srv, sess, input, out>>
        /\ step \in Steps \ {"greeting", "data"}
    <2>1. step # NULL /\ ~waiting /\ UNCHANGED <<srv, sess, input, out>> BY DEF Send
    <2> QED BY <2>1 DEF IInv, StepOfCall, TypeInv, CallType
  <1>2. CASE /\ tcp = "up" /\ wire' = Append(wire, Command) /\ waiting' = TRUE
             /\ UNCHANGED <<app, step, result, token, ep, got, tcp, net>>
    <2>1. waiting' \in BOOLEAN /\ waiting' BY <1>2
    <2>2. wire' \in Seq(Lines) /\ (wire = <<>> => wire' = <<Command>>)
      <3>1. wire \in Seq(Lines) /\ token \in Tokens
        BY DEF IInv, TypeInv, CallType, ServerType
      <3>2. Command \in Lines BY <1>1, <3>1, CommandType
      <3>3. wire' = Append(wire, Command) BY <1>2
      <3>4. Append(wire, Command) \in Seq(Lines) BY <3>1, <3>2
      <3>5. wire = <<>> => Append(wire, Command) = <<Command>> BY <3>1
      <3> QED BY <3>3, <3>4, <3>5
    <2>3. TypeInv'
      BY <1>1, <1>2, <2>1, <2>2 DEF IInv, TypeInv, CallType, KeptType, ServerType
    <2>4. StepOfCall' BY <1>1, <1>2, <2>1 DEF IInv, StepOfCall
    <2>5. ConnInv' BY <1>1, <1>2 DEF IInv, ConnInv, SockOf, Calls
    <2>6. GotInv' BY <1>2 DEF IInv, GotInv, Live, AnswersMatch, TransferMatchesToken
    <2>7. CASE ~Live
      BY <1>1, <1>2, <2>3, <2>4, <2>5, <2>6, <2>7, CallOver DEF Live, Calls, GotInv
    <2>8. CASE Live
      <3>1. /\ wire = <<>> /\ input = <<>> /\ Unhandled
            /\ (net = <<>> /\ out = <<>>) \/ (app = "opening" /\ step = "open" /\ AllDevices)
        BY <1>1, <2>8 DEF IInv, FlowInv, Unhandled
      <3>2. wire' = <<Command'>> /\ wire' # <<>> /\ Unhandled'
        BY <1>2, <2>2, <3>1 DEF Command, Unhandled
      <3>3. CASE net = <<>> /\ out = <<>>
        <4>1. Pending' = {} /\ net' = <<>> /\ out' = <<>> BY <1>1, <1>2, <3>3 DEF Pending
        <4>2. AtMostOne' /\ AllDevices' /\ DataLast'
          BY <4>1 DEF AtMostOne, AllDevices, DataLast
        <4>3. FlowInv' BY <1>1, <1>2, <2>1, <3>1, <3>2, <4>1, <4>2 DEF FlowInv
        <4>4. AnswerInv'
          BY <1>1, <1>2, <3>1, <4>1 DEF IInv, AnswerInv
        <4> QED BY <2>3, <2>4, <2>5, <2>6, <4>3, <4>4 DEF IInv
      <3>4. CASE app = "opening" /\ step = "open" /\ AllDevices
        <4>1. AllDevices' BY <1>1, <1>2, <3>4 DEF AllDevices, Pending
        <4>2. FlowInv' BY <1>1, <1>2, <2>1, <3>1, <3>2, <3>4, <4>1 DEF FlowInv
        <4>3. AnswerInv' BY <1>2, <3>4 DEF AnswerInv
        <4> QED BY <2>3, <2>4, <2>5, <2>6, <4>2, <4>3 DEF IInv
      <3> QED BY <3>1, <3>3, <3>4
    <2> QED BY <2>7, <2>8
  <1>3. CASE /\ tcp = "fin" /\ tcp' = "broken" /\ waiting' = TRUE
             /\ UNCHANGED <<app, step, result, token, ep, got, net, wire>>
    <2>1. waiting' \in BOOLEAN /\ waiting' BY <1>3
    <2>2. srv = "ended" /\ out = <<>> /\ wire = <<>> /\ input = <<>>
      BY <1>3 DEF IInv, ConnInv, SockOf
    <2>3. TypeInv'
      BY <1>1, <1>3, <2>1 DEF IInv, TypeInv, CallType, KeptType, ServerType, Sockets
    <2>4. StepOfCall' BY <1>1, <1>3, <2>1 DEF IInv, StepOfCall
    <2>5. ConnInv' BY <1>1, <1>3, <2>2 DEF IInv, ConnInv, SockOf
    <2>6. GotInv' BY <1>3 DEF IInv, GotInv, Live, AnswersMatch, TransferMatchesToken
    <2>7. CASE ~Live
      BY <1>1, <1>3, <2>3, <2>4, <2>5, <2>6, <2>7, CallOver DEF Live, Calls, GotInv
    <2>8. CASE Live /\ net = <<>>
      <3>1. FlowInv' /\ Pending' = {} BY <1>1, <1>3, <2>2, <2>8, NothingPending
      <3>2. srv' # "up" BY <1>1, <2>2
      <3>3. AnswerInv' BY <3>1, <3>2 DEF AnswerInv
      <3> QED BY <2>3, <2>4, <2>5, <2>6, <3>1, <3>3 DEF IInv
    <2>9. CASE Live /\ net # <<>>
      <3>1. app = "opening" /\ step = "open" /\ AllDevices
        BY <1>1, <2>9 DEF IInv, FlowInv, Unhandled
      <3>2. Pending' = Pending BY <1>1, <1>3 DEF Pending
      <3>3. DevicesFirst'
        <4>1. \A r \in Pending' : IsDevice(r) BY <3>1, <3>2 DEF AllDevices
        <4>2. \A r \in Pending' : r.kind # "base64" BY <4>1 DEF IsDevice
        <4>3. \A i \in 1..Len(net') : IsDevice(net'[i].reply) BY <4>1 DEF Pending
        <4>4. \A i \in 1..Len(out') : IsDevice(out'[i]) BY <4>1 DEF Pending
        <4> QED BY <4>2, <4>3, <4>4 DEF DevicesFirst
      <3>4. ~Unhandled' BY <1>3, <2>1, <2>2 DEF Unhandled
      <3>5. FlowInv' BY <1>1, <1>3, <2>2, <3>1, <3>3, <3>4 DEF FlowInv
      <3>6. AnswerInv' BY <1>3, <3>1 DEF AnswerInv
      <3> QED BY <2>3, <2>4, <2>5, <2>6, <3>5, <3>6 DEF IInv
    <2> QED BY <2>7, <2>8, <2>9
  <1>4. CASE tcp = "rst" /\ Fail(net, "broken") /\ ForgetName /\ UNCHANGED <<got, wire>>
    <2>1. KeptType' /\ AnswersMatch'
      BY <1>4, ForgetType DEF IInv, TypeInv, GotInv, AnswersMatch
    <2>2. SockOf("broken", srv) /\ "broken" \in Sockets /\ net \in Seq(ReplyLines)
      BY <1>4 DEF IInv, ConnInv, SockOf, Sockets, TypeInv, CallType
    <2>3. UNCHANGED serverVars BY <1>1, <1>4 DEF serverVars
    <2> QED BY <1>1, <1>4, <2>1, <2>2, <2>3, FailInv
  <1>5. CASE Die("sigpipe") /\ UNCHANGED wire
    <2>1. UNCHANGED serverVars BY <1>1, <1>5 DEF serverVars
    <2> QED BY <1>5, <2>1, DieInv DEF Killed
  <1> QED BY <1>2, <1>3, <1>4, <1>5 DEF Send

-----------------------------------------------------------------------------
(* A step of the daemon leaves the client alone; only what is on its way   *)
(* and the daemon's own state are in question.                             *)
LEMMA ServerSide ==
  ASSUME IInv, UNCHANGED clientVars, TypeInv', ConnInv', Live => FlowInv' /\ AnswerInv'
  PROVE  IInv'
  <1>1. UNCHANGED <<app, step, waiting, result, token, ep, got>> BY DEF clientVars
  <1>2. StepOfCall' BY <1>1 DEF IInv, StepOfCall
  <1>3. GotInv' BY <1>1 DEF IInv, GotInv, Live, AnswersMatch, TransferMatchesToken
  <1>4. FlowInv' /\ AnswerInv'
    <2>1. CASE Live BY <2>1
    <2>2. CASE ~Live BY <1>1, <2>2 DEF FlowInv, AnswerInv, Live
    <2> QED BY <2>1, <2>2
  <1> QED BY <1>2, <1>3, <1>4 DEF IInv

(* The daemon ends: the replies it had not written are lost.               *)
LEMMA EndInv ==
  ASSUME IInv, SrvEnd
  PROVE  IInv'
  <1>1. /\ srv \notin {"none", "ended"} /\ srv' = "ended" /\ sess' = NewSession
        /\ wire' = <<>> /\ input' = <<>> /\ out' = <<>> /\ net' = net
        /\ UNCHANGED <<app, step, waiting, result, token, ep, got>> /\ UNCHANGED clientVars
        /\ tcp' \in {"fin", "rst", "broken"} \/ (tcp' = tcp /\ tcp # "up")
    BY DEF SrvEnd, clientVars
  <1>2. out' \in Seq(NotLate) BY <1>1
  <1>3. wire' \in Seq(Lines) /\ input' \in Seq(Lines) BY <1>1
  <1>4. TypeInv'
    BY <1>1, <1>2, <1>3, NewSessionOK DEF IInv, TypeInv, CallType, KeptType, ServerType, Sockets
  <1>5. ConnInv' BY <1>1 DEF IInv, ConnInv, SockOf
  <1>6. Pending' \subseteq Pending BY <1>1 DEF Pending
  <1>7. ASSUME Live
        PROVE  FlowInv' /\ AnswerInv'
    <2>1. FlowInv BY DEF IInv
    <2>2. Unhandled' => Unhandled BY <1>1 DEF Unhandled
    <2>3. net \in Seq(ReplyLines) /\ out \in Seq(NotLate) /\ Len(net) \in Nat /\ Len(out) \in Nat
      BY DEF IInv, TypeInv, CallType, ServerType
    <2>4. Len(out') = 0 /\ Len(net') = Len(net) BY <1>1
    <2>5. AtMostOne => AtMostOne' BY <1>6, <2>3, <2>4 DEF AtMostOne
    <2>6. AllDevices => AllDevices' /\ DevicesFirst'
      <3> HAVE AllDevices
      <3>1. \A r \in Pending' : IsDevice(r) /\ r.kind # "base64" BY <1>6 DEF AllDevices, IsDevice
      <3>2. \A i \in 1..Len(net') : IsDevice(net'[i].reply) BY <3>1 DEF Pending
      <3> QED BY <2>4, <3>1, <3>2 DEF AllDevices, DevicesFirst
    <2>7. DevicesFirst => DevicesFirst'
      BY <1>1, <1>6, <2>4 DEF DevicesFirst
    <2>8. DataLast => DataLast' BY <1>1, <1>6, <2>4 DEF DataLast, Data
    <2>9. (\A r \in Pending : Data(r)) => \A r \in Pending' : Data(r)' BY <1>1, <1>6 DEF Data
    <2>10. FlowInv'
      BY <1>1, <1>7, <2>1, <2>2, <2>5, <2>6, <2>7, <2>8, <2>9 DEF FlowInv, Live
    <2>11. AnswerInv' BY <1>1, <1>6 DEF IInv, AnswerInv
    <2> QED BY <2>10, <2>11
  <1> QED BY <1>1, <1>4, <1>5, <1>7, ServerSide

(* What a written line does to the two queues.                             *)
LEMMA WriteFacts ==
  ASSUME IInv, SrvWrite
  PROVE  /\ out' \in Seq(NotLate) /\ net' \in Seq(ReplyLines)
         /\ Len(net') \in Nat /\ Len(net') >= Len(net) /\ Len(net') <= Len(net) + 1
         /\ \A i \in 1..Len(net') : \/ i <= Len(net) /\ net'[i].reply = net[i].reply
                                    \/ i = Len(net') /\ net'[i].reply = out[1]
         /\ Len(out) \in Nat /\ Len(out) > 0
         /\ \/ /\ Len(out') = Len(out) - 1 /\ \A i \in 1..Len(out') : out'[i] = out[i + 1]
            \/ out' = out /\ out[1].kind = "base64"
         /\ Len(net') + Len(out') <= Len(net) + Len(out) \/ out[1].kind = "base64"
  <1>1. net \in Seq(ReplyLines) /\ out \in Seq(NotLate) /\ out # <<>>
    BY DEF IInv, TypeInv, CallType, ServerType, SrvWrite
  <1>2. /\ Len(out) \in Nat /\ Len(out) > 0 /\ out[1] \in NotLate /\ Tail(out) \in Seq(NotLate)
        /\ Len(Tail(out)) = Len(out) - 1 /\ \A i \in 1..Len(Tail(out)) : Tail(out)[i] = out[i + 1]
        /\ Len(net) \in Nat
    BY <1>1
  <1>3. /\ Sent(out[1], TRUE) \in ReplyLines /\ Sent(out[1], TRUE).reply = out[1]
        /\ Sent(out[1], FALSE) \in ReplyLines /\ Sent(out[1], FALSE).reply = out[1]
    BY <1>2 DEF Sent, ReplyLines, NotLate
  <1> DEFINE Grows(n) == \A i \in 1..Len(n) : \/ i <= Len(net) /\ n[i].reply = net[i].reply
                                              \/ i = Len(n) /\ n[i].reply = out[1]
  <1>4. ASSUME NEW x \in ReplyLines, x.reply = out[1]
        PROVE  /\ Append(net, x) \in Seq(ReplyLines) /\ Len(Append(net, x)) = Len(net) + 1
               /\ Grows(Append(net, x))
    <2>1. \A i \in 1..Len(net) : Append(net, x)[i] = net[i] BY <1>1
    <2>2. Len(Append(net, x)) = Len(net) + 1 /\ Append(net, x)[Len(net) + 1] = x BY <1>1
    <2>3. Append(net, x) \in Seq(ReplyLines) BY <1>1
    <2> QED BY <1>2, <1>4, <2>1, <2>2, <2>3
  <1>5. ASSUME NEW x \in ReplyLines, x.reply = out[1], Len(net) > 0
        PROVE  /\ Append(SubSeq(net, 1, Len(net) - 1), x) \in Seq(ReplyLines)
               /\ Len(Append(SubSeq(net, 1, Len(net) - 1), x)) = Len(net)
               /\ Grows(Append(SubSeq(net, 1, Len(net) - 1), x))
    <2> DEFINE front == SubSeq(net, 1, Len(net) - 1)
    <2>1. /\ front \in Seq(ReplyLines) /\ Len(front) = Len(net) - 1
          /\ \A i \in 1..Len(front) : front[i] = net[i]
      <3>1. \A i \in 1..(Len(net) - 1) : net[i] \in ReplyLines BY <1>1, <1>2
      <3>2. /\ front \in Seq(ReplyLines)
            /\ Len(front) = IF 1 <= Len(net) - 1 THEN (Len(net) - 1) - 1 + 1 ELSE 0
            /\ \A i \in 1..((Len(net) - 1) - 1 + 1) : front[i] = net[1 + i - 1]
        BY <1>2, <3>1, SubSeqProperties
      <3> HIDE DEF front
      <3>3. Len(front) = Len(net) - 1
        <4>1. Len(net) \in Nat /\ Len(net) > 0 BY <1>2, <1>5
        <4>2. CASE Len(net) = 1 BY <3>2, <4>1, <4>2
        <4>3. CASE Len(net) > 1
          <5>1. 1 <= Len(net) - 1 /\ (Len(net) - 1) - 1 + 1 = Len(net) - 1 BY <4>1, <4>3
          <5> QED BY <3>2, <5>1
        <4>4. \A k \in Nat : k > 0 => k = 1 \/ k > 1 OBVIOUS
        <4> QED BY <4>1, <4>2, <4>3, <4>4
      <3>4. \A i \in 1..Len(front) : front[i] = net[i] BY <1>2, <3>2, <3>3
      <3> QED BY <3>2, <3>3, <3>4
    <2> HIDE DEF front
    <2>2. \A i \in 1..Len(front) : Append(front, x)[i] = front[i] BY <2>1
    <2>3. Len(Append(front, x)) = Len(front) + 1 /\ Append(front, x)[Len(front) + 1] = x BY <2>1
    <2>4. Append(front, x) \in Seq(ReplyLines) BY <2>1
    <2>5. Grows(Append(front, x)) BY <1>2, <1>5, <2>1, <2>2, <2>3
    <2> QED BY <1>2, <2>1, <2>3, <2>4, <2>5 DEF front
  <1> HIDE DEF Grows
  <1>6. /\ net' \in Seq(ReplyLines) /\ Grows(net')
        /\ Len(net') \in Nat /\ Len(net') >= Len(net) /\ Len(net') <= Len(net) + 1
    <2>1. CASE net' = net
      <3>1. Grows(net) BY <1>2 DEF Grows
      <3> QED BY <1>1, <1>2, <2>1, <3>1
    <2>2. CASE \E x \in ReplyLines : x.reply = out[1] /\ net' = Append(net, x)
      BY <1>2, <1>4, <2>2
    <2>3. CASE CutAtEnd /\ net' = Append(SubSeq(net, 1, Len(net) - 1), Sent(out[1], TRUE))
      <3>1. Len(net) > 0 BY <1>1, <2>3 DEF CutAtEnd
      <3> DEFINE n == Append(SubSeq(net, 1, Len(net) - 1), Sent(out[1], TRUE))
      <3>2. n \in Seq(ReplyLines) /\ Len(n) = Len(net) /\ Grows(n) BY <1>3, <1>5, <3>1
      <3>3. net' = n BY <2>3
      <3> HIDE DEF n
      <3> QED BY <1>2, <3>2, <3>3
    <2> QED BY <1>3, <2>1, <2>2, <2>3 DEF SrvWrite
  <1>7. \/ out' = Tail(out) /\ (Len(net') <= Len(net) + 1)
        \/ out' = out /\ out[1].kind = "base64"
    BY <1>6 DEF SrvWrite
  <1>8. CASE out' = Tail(out)
    <2>1. Len(out') = Len(out) - 1 /\ \A i \in 1..Len(out') : out'[i] = out[i + 1] BY <1>2, <1>8
    <2>2. Len(net') + Len(out') <= Len(net) + Len(out) BY <1>2, <1>6, <2>1
    <2> QED BY <1>2, <1>6, <1>8, <2>1, <2>2 DEF Grows
  <1>9. CASE out' = out /\ out[1].kind = "base64"
    BY <1>1, <1>2, <1>6, <1>9 DEF Grows
  <1> QED BY <1>7, <1>8, <1>9

(* A reply, or a part of the data, reaches the client.                     *)
LEMMA WriteInv ==
  ASSUME IInv, SrvWrite
  PROVE  IInv'
  <1>1. /\ srv = "up" /\ out # <<>> /\ UNCHANGED <<tcp, srv, sess, wire, input>>
        /\ UNCHANGED <<app, step, waiting, result, token, ep, got>> /\ UNCHANGED clientVars
    BY DEF SrvWrite, clientVars
  <1>2. TypeInv'
    BY <1>1, WriteFacts DEF IInv, TypeInv, CallType, KeptType, ServerType
  <1>3. ConnInv' BY <1>1 DEF IInv, ConnInv
  <1>4. Pending' \subseteq Pending
    <2>1. ASSUME NEW i \in 1..Len(net') PROVE net'[i].reply \in Pending
      BY <2>1, WriteFacts DEF Pending
    <2>2. ASSUME NEW i \in 1..Len(out') PROVE out'[i] \in Pending
      BY <2>2, WriteFacts DEF Pending
    <2> QED BY <2>1, <2>2 DEF Pending
  <1>5. ASSUME Live
        PROVE  FlowInv' /\ AnswerInv'
    <2>1. FlowInv BY DEF IInv
    <2>2. (Unhandled' <=> Unhandled) /\ Command' = Command BY <1>1 DEF Unhandled, Command
    <2>3. out[1] \in Pending /\ Len(net) \in Nat
      BY WriteFacts DEF Pending, IInv, TypeInv, CallType
    <2>4. AtMostOne => AtMostOne' BY <1>4, <2>3, WriteFacts DEF AtMostOne
    <2>5. AllDevices => AllDevices' BY <1>4 DEF AllDevices
    <2>6. DevicesFirst => DevicesFirst'
      <3> HAVE DevicesFirst
      <3>1. out[1].kind # "base64" /\ \A r \in Pending' : r.kind # "base64"
        BY <1>4, <2>3 DEF DevicesFirst
      <3>2. Len(out') = Len(out) - 1 /\ \A i \in 1..Len(out') : out'[i] = out[i + 1]
        BY <3>1, WriteFacts
      <3>3. \A i \in 1..Len(out') : i < Len(out') => IsDevice(out'[i])
        <4>1. TAKE i \in 1..Len(out')
        <4>2. out'[i] = out[i + 1] /\ i + 1 \in 1..Len(out) BY <3>2, WriteFacts
        <4>3. i < Len(out') => i + 1 < Len(out) BY <3>2, WriteFacts
        <4> QED BY <4>2, <4>3 DEF DevicesFirst
      <3>4. ASSUME NEW i \in 1..Len(net'), i < Len(net') \/ out' # <<>>
            PROVE  IsDevice(net'[i].reply)
        <4>1. CASE i <= Len(net) /\ net'[i].reply = net[i].reply
          BY <1>1, <2>3, <3>4, <4>1, WriteFacts DEF DevicesFirst
        <4>2. CASE i = Len(net') /\ net'[i].reply = out[1]
          <5>1. out' # <<>> BY <3>4, <4>2, WriteFacts
          <5>2. Len(out') # 0 BY <5>1, WriteFacts
          <5>3. 1 < Len(out) /\ 1 \in 1..Len(out) BY <3>2, <5>2, WriteFacts
          <5> QED BY <4>2, <5>3 DEF DevicesFirst
        <4> QED BY <3>4, <4>1, <4>2, WriteFacts
      <3> QED BY <3>1, <3>3, <3>4 DEF DevicesFirst
    <2>7. DataLast => DataLast'
      <3> HAVE DataLast
      <3>1. \A r : Data(r)' <=> Data(r) BY <1>1 DEF Data
      <3>2. \A i \in 2..Len(out) : Data(out[i]) BY <2>3 DEF DataLast
      <3>3. out[1].kind = "base64" \/ net # <<>> => Data(out[1])
        BY <2>3, WriteFacts DEF DataLast, Data
      <3>4. net' # <<>> => \A i \in 1..Len(out') : Data(out'[i]) BY <3>2, <3>3, WriteFacts
      <3>5. net' = <<>> => \A i \in 2..Len(out') : Data(out'[i]) BY <3>2, WriteFacts
      <3>6. ASSUME NEW i \in 2..Len(net') PROVE Data(net'[i].reply)
        <4>1. Len(net) >= 1 /\ net # <<>> BY <2>3, <3>6, WriteFacts
        <4> QED BY <2>3, <3>3, <3>6, <4>1, WriteFacts DEF DataLast
      <3>7. \A r \in Pending' : r.kind = "base64" => r.tok = token' BY <1>1, <1>4 DEF DataLast
      <3> QED BY <3>1, <3>4, <3>5, <3>6, <3>7 DEF DataLast
    <2>8. (\A r \in Pending : Data(r)) => \A r \in Pending' : Data(r)' BY <1>1, <1>4 DEF Data
    <2>9. Unhandled => app = "opening" /\ step = "open" BY <1>1, <1>5, <2>1 DEF FlowInv
    <2>10. FlowInv'
      BY <1>1, <1>5, <2>1, <2>2, <2>4, <2>5, <2>6, <2>7, <2>8, <2>9 DEF FlowInv, Live
    <2>11. AnswerInv' BY <1>1, <1>4, <2>2 DEF IInv, AnswerInv
    <2> QED BY <2>10, <2>11
  <1> QED BY <1>1, <1>2, <1>3, <1>5, ServerSide

(* The replies to the command in hand: what each command of the driver can *)
(* be answered with, by the lemmas on the daemon's handlers.               *)
LEMMA AnswerToCommand ==
  ASSUME SessionOK(sess), token \in Tokens, NEW o \in smartid_cmd_process(Command, sess)
  PROVE  /\ step = "enum" => Brief(o) \/ \A i \in 1..Len(o.replies) : IsDevice(o.replies[i])
         /\ step = "open" => Brief(o)
         /\ step \in {"model", "serial", "ticks"} => ValueAnswer(o, sess, step, 0)
         /\ step = "size" => ValueAnswer(o, sess, step, sess.dev.tok)
         /\ step = "token" =>
              /\ Brief(o)
              /\ \A i \in 1..Len(o.replies) : o.replies[i].code = SUCCESS => o.s.dev.tok = token
         /\ step = "xfer" => DataAnswer(o, sess.dev.tok)
  <1>0. sess \in Sessions BY DEF SessionOK
  <1>1. CASE step = "enum"
    <2>1. Command = Line("enum") BY <1>1 DEF Command
    <2> QED BY <1>0, <1>1, <2>1, ProcessEnum
  <1>2. CASE step = "open"
    <2>1. Command = LineWith("open", 0) BY <1>2 DEF Command
    <2> QED BY <1>0, <1>2, <2>1, ProcessOpen
  <1>3. CASE step \in {"model", "serial", "ticks", "size"}
    <2>1. Command = Line(step) BY <1>3 DEF Command
    <2>2. ValueAnswer(o, sess, step, IF step = "size" THEN sess.dev.tok ELSE 0)
      BY <1>0, <1>3, <2>1, ProcessValue
    <2>3. CASE step = "size" BY <2>2, <2>3
    <2>4. CASE step \in {"model", "serial", "ticks"} BY <2>2, <2>4
    <2> QED BY <1>3, <2>3, <2>4
  <1>4. CASE step = "token"
    <2>1. Command = LineWith("token", token) BY <1>4 DEF Command
    <2> QED BY <1>0, <1>4, <2>1, ProcessToken
  <1>5. CASE step = "xfer"
    <2>1. Command = Line("xfer") BY <1>5 DEF Command
    <2> QED BY <1>0, <1>5, <2>1, ProcessXfer
  <1> QED BY <1>1, <1>2, <1>3, <1>4, <1>5

(* The daemon reads a line and handles it.                                 *)
LEMMA ReadCommandInv ==
  ASSUME IInv, NEW k \in 0..Len(wire), SrvRead(k)
  PROVE  IInv'
  <1> DEFINE lines == input \o SubSeq(wire, 1, k)
  <1>1. /\ srv = "up" /\ wire # <<>> /\ lines # <<>> /\ UNCHANGED <<tcp, net>>
        /\ UNCHANGED <<app, step, waiting, result, token, ep, got>> /\ UNCHANGED clientVars
        /\ input' = Tail(lines) /\ wire' = SubSeq(wire, k + 1, Len(wire))
    BY DEF SrvRead, clientVars
  <1>2. PICK o \in smartid_cmd_process(lines[1], sess) :
          /\ sess' = o.s /\ out' = out \o o.replies
          /\ srv' = IF o.fate = "run" THEN "up" ELSE o.fate
    BY DEF SrvRead
  <1>3. /\ wire \in Seq(Lines) /\ input \in Seq(Lines) /\ SessionOK(sess) /\ out \in Seq(NotLate)
        /\ net \in Seq(ReplyLines) /\ token \in Tokens /\ Len(wire) \in Nat
    BY DEF IInv, TypeInv, CallType, ServerType
  <1>4. SubSeq(wire, 1, k) \in Seq(Lines) /\ SubSeq(wire, k + 1, Len(wire)) \in Seq(Lines)
    <2>1. \A i \in 1..k : wire[i] \in Lines BY <1>3
    <2>2. \A i \in (k + 1)..Len(wire) : wire[i] \in Lines BY <1>3
    <2>3. k \in Int /\ k + 1 \in Int /\ Len(wire) \in Int BY <1>3
    <2> QED BY <2>1, <2>2, <2>3, SubSeqProperties
  <1>5. lines \in Seq(Lines) BY <1>3, <1>4
  <1>6. lines[1] \in Lines /\ Tail(lines) \in Seq(Lines)
    <2> HIDE DEF lines
    <2> QED BY <1>1, <1>5
  <1>7. OutcomeOK(o) BY <1>2, <1>3, <1>6, ProcessOK
  <1>8. o.replies \in Seq(NotLate) /\ SessionOK(o.s) /\ o.fate \in Fates BY <1>7 DEF OutcomeOK
  <1>9. out' \in Seq(NotLate)
    <2>1. out \o o.replies \in Seq(NotLate) BY <1>3, <1>8
    <2> QED BY <1>2, <2>1
  <1>10. srv' \in {"up"} \cup (Fates \ {"run"}) BY <1>2, <1>8
  <1>11. TypeInv'
    <2>1. CallType' /\ KeptType' BY <1>1 DEF IInv, TypeInv, CallType, KeptType
    <2>2. ServerType' BY <1>1, <1>2, <1>4, <1>6, <1>8, <1>9, <1>10 DEF ServerType
    <2> QED BY <2>1, <2>2 DEF TypeInv
  <1>12. ConnInv' BY <1>1, <1>10 DEF IInv, ConnInv, SockOf, Fates
  <1>13. ASSUME Live
         PROVE  FlowInv' /\ AnswerInv'
    <2>1. /\ input = <<>> /\ wire = <<Command>> /\ waiting /\ Unhandled
          /\ step \notin {"greeting", "data"}
          /\ (net = <<>> /\ out = <<>>) \/ (app = "opening" /\ step = "open" /\ AllDevices)
      BY <1>1, <1>13 DEF IInv, FlowInv, Unhandled
    <2>2. app \in {"opening", "transferring"} BY <1>13, <2>1 DEF Live, IInv, StepOfCall, Calls
    <2>3. k = 1
      <3>1. k \in {0, 1} BY <2>1
      <3>2. k = 0 => SubSeq(wire, 1, k) = <<>> BY SubSeqEmpty
      <3>3. k = 0 => lines = <<>> BY <2>1, <3>2
      <3> QED BY <1>1, <3>1, <3>3
    <2>4. lines[1] = Command /\ input' = <<>> /\ wire' = <<>>
      <3> DEFINE read == SubSeq(wire, 1, 1)
      <3>1. read \in Seq(Lines) /\ Len(read) = 1 /\ read[1] = Command
        <4>1. \A i \in 1..1 : wire[i] \in Lines BY <1>3, <2>1
        <4>2. Len(read) = 1 /\ \A i \in 1..1 : read[i] = wire[i] BY <4>1, SubSeqProperties
        <4>3. wire[1] = Command BY <2>1
        <4> QED BY <1>4, <2>3, <4>2, <4>3
      <3> HIDE DEF read
      <3>2. lines = <<>> \o read BY <2>1, <2>3 DEF read
      <3>5. <<>> \o read = read BY <3>1
      <3>3. lines[1] = Command /\ Tail(lines) = <<>>
        <4>1. lines = read BY <3>2, <3>5
        <4>2. Tail(read) = <<>>
          <5>1. Tail(read) \in Seq(Lines) /\ Len(Tail(read)) = 0 BY <3>1
          <5> QED BY <5>1, EmptySeq
        <4> QED BY <3>1, <4>1, <4>2
      <3>4. SubSeq(wire, 2, 1) = <<>> BY SubSeqEmpty
      <3> QED BY <1>1, <2>1, <2>3, <3>3, <3>4
    <2>5. ~Unhandled' BY <1>1, <2>1, <2>4 DEF Unhandled
    <2> DEFINE r == o.replies
    <2>6. /\ step = "enum" => Brief(o) \/ \A i \in 1..Len(r) : IsDevice(r[i])
          /\ step = "open" => Brief(o)
          /\ step \in {"model", "serial", "ticks"} => ValueAnswer(o, sess, step, 0)
          /\ step = "size" => ValueAnswer(o, sess, step, sess.dev.tok)
          /\ step = "token" =>
               Brief(o) /\ \A i \in 1..Len(r) : r[i].code = SUCCESS => o.s.dev.tok = token
          /\ step = "xfer" => DataAnswer(o, sess.dev.tok)
      BY <1>2, <1>3, <2>4, AnswerToCommand
    <2>7. r \in Seq(NotLate) /\ Len(r) \in Nat BY <1>8
    <2>8. CASE net = <<>> /\ out = <<>>
      <3>1. net' = <<>> /\ out' = r /\ Len(net') = 0
        <4>1. out' = <<>> \o r BY <1>2, <2>8
        <4>2. <<>> \o r = r BY <2>7
        <4> QED BY <1>1, <2>8, <4>1, <4>2
      <3> HIDE DEF r
      <3>2. Pending' = {r[i] : i \in 1..Len(r)} BY <3>1 DEF Pending
      <3>3. Brief(o) => AtMostOne' /\ DevicesFirst'
        <4> HAVE Brief(o)
        <4>1. Len(r) <= 1 /\ \A i \in 1..Len(r) : r[i].kind # "base64" BY DEF Brief, r
        <4>2. \A x \in Pending' : x.kind # "base64" BY <3>2, <4>1
        <4>3. AtMostOne' BY <2>7, <3>1, <4>1, <4>2 DEF AtMostOne
        <4>4. DevicesFirst' BY <2>7, <3>1, <4>1, <4>2 DEF DevicesFirst
        <4> QED BY <4>3, <4>4
      <3>4. (\A i \in 1..Len(r) : IsDevice(r[i])) => AllDevices' BY <3>2 DEF AllDevices
      <3>5. step \in {"model", "serial", "ticks", "size"} => Brief(o)
        BY <2>6 DEF ValueAnswer
      <3>6. step = "xfer" => DataLast'
        <4> HAVE step = "xfer"
        <4>1. app = "transferring" BY <2>2 DEF IInv, StepOfCall
        <4>2. sess.dev.tok = token BY <1>1, <2>1, <4>1 DEF IInv, AnswerInv
        <4>3. /\ \A i \in 1..Len(r) : r[i].kind = "base64" => r[i].tok = token
              /\ \A i \in 2..Len(r) : r[i].kind = "base64"
          BY <2>6, <4>2 DEF DataAnswer, r
        <4>4. \A i \in 2..Len(r) : r[i].kind = "base64" /\ r[i].tok = token BY <2>7, <4>3
        <4>5. \A x \in Pending' : x.kind = "base64" => x.tok = token' BY <1>1, <3>2, <4>3
        <4> QED BY <1>1, <3>1, <4>4, <4>5 DEF DataLast, Data
      <3>7. FlowInv'
        BY <1>1, <2>1, <2>2, <2>4, <2>5, <2>6, <3>3, <3>4, <3>5, <3>6 DEF FlowInv, r
      <3>8. AnswerInv'
        <4>1. ASSUME step \in {"model", "serial", "ticks"}
              PROVE  \A x \in Pending' : x.code = INFO => x.kind = step
          BY <2>6, <3>2, <4>1 DEF ValueAnswer, r
        <4>2. ASSUME step = "token"
              PROVE  \A x \in Pending' : x.code = SUCCESS => sess'.dev.tok = token
          BY <1>2, <2>6, <3>2, <4>2
        <4>3. ASSUME step = "size", app = "transferring"
              PROVE  \A x \in Pending' : x.code = INFO =>
                       x.kind = "size" /\ x.tok = token /\ sess'.dev.tok = token
          <5>1. sess.dev.tok = token BY <1>1, <2>1, <4>3 DEF IInv, AnswerInv
          <5>2. \A i \in 1..Len(r) : r[i].code = INFO =>
                  r[i].kind = "size" /\ r[i].tok = token /\ o.s.dev = sess.dev
            BY <2>6, <4>3, <5>1 DEF ValueAnswer, r
          <5> QED BY <1>2, <3>2, <5>1, <5>2
        <4> QED BY <1>1, <2>5, <4>1, <4>2, <4>3 DEF AnswerInv
      <3> QED BY <3>7, <3>8
    <2>9. CASE app = "opening" /\ step = "open" /\ AllDevices
      <3>1. Len(r) <= 1 /\ \A i \in 1..Len(r) : r[i].kind # "base64" BY <2>6, <2>9 DEF Brief
      <3> HIDE DEF r
      <3>2. /\ Len(out) \in Nat /\ out' = out \o r /\ Len(out') = Len(out) + Len(r)
            /\ \A i \in 1..Len(out) : out'[i] = out[i]
            /\ \A i \in (Len(out) + 1)..Len(out') : out'[i] = r[i - Len(out)]
        BY <1>2, <1>3, <2>7 DEF r
      <3>3. \A i \in 1..Len(net) : IsDevice(net[i].reply) BY <2>9 DEF AllDevices, Pending
      <3>4. \A i \in 1..Len(out) : IsDevice(out[i]) BY <2>9 DEF AllDevices, Pending
      <3>5. ASSUME NEW i \in 1..Len(out')
            PROVE  (i < Len(out') => IsDevice(out'[i])) /\ out'[i].kind # "base64"
        <4>1. CASE i <= Len(out) BY <3>2, <3>4, <3>5, <4>1 DEF IsDevice
        <4>2. CASE i > Len(out)
          <5>1. out'[i] = r[i - Len(out)] /\ i - Len(out) \in 1..Len(r)
            BY <2>7, <3>2, <3>5, <4>2
          <5>2. ~(i < Len(out')) BY <2>7, <3>1, <3>2, <3>5, <4>2
          <5> QED BY <3>1, <5>1, <5>2
        <4> QED BY <3>2, <3>5, <4>1, <4>2
      <3>6. \A x \in Pending' : x.kind # "base64"
        BY <1>1, <3>3, <3>5 DEF Pending, IsDevice
      <3>7. DevicesFirst' BY <1>1, <3>3, <3>5, <3>6 DEF DevicesFirst
      <3>8. FlowInv' BY <1>1, <2>4, <2>5, <2>9, <3>7 DEF FlowInv
      <3>9. AnswerInv' BY <1>1, <2>9 DEF AnswerInv
      <3> QED BY <3>8, <3>9
    <2> QED BY <2>1, <2>8, <2>9
  <1> QED BY <1>1, <1>11, <1>12, <1>13, ServerSide

-----------------------------------------------------------------------------
(* The initial state.                                                      *)
LEMMA InitInv ==
  ASSUME Init
  PROVE  IInv
  <1> USE DEF Init
  <1>1. waiting \in BOOLEAN /\ ~waiting OBVIOUS
  <1>2. net \in Seq(ReplyLines) /\ out \in Seq(NotLate) OBVIOUS
  <1>3. wire \in Seq(Lines) /\ input \in Seq(Lines) OBVIOUS
  <1>4. CallType BY <1>1, <1>2, TokensAssumption DEF CallType, AppStates, Sockets
  <1>5. got \in [Values -> Kept] /\ \A v \in Values : got[v] = NULL BY DEF Kept
  <1>6. TypeInv
    BY <1>2, <1>3, <1>4, <1>5, NewSessionOK DEF TypeInv, KeptType, ServerType
  <1>7. StepOfCall /\ ConnInv BY <1>1 DEF StepOfCall, ConnInv, SockOf, Calls
  <1>8. FlowInv /\ AnswerInv BY DEF FlowInv, AnswerInv, Live
  <1>9. AnswersMatch BY <1>5 DEF AnswersMatch
  <1>10. GotInv BY <1>5, <1>9 DEF GotInv, TransferMatchesToken, Live, Values
  <1> QED BY <1>6, <1>7, <1>8, <1>10 DEF IInv

(* A step that changes nothing.                                            *)
LEMMA StutterInv ==
  ASSUME IInv, UNCHANGED vars
  PROVE  IInv'
  <1>1. /\ UNCHANGED <<app, step, waiting, result, token, ep, got, tcp, net>> /\ UNCHANGED clientVars
        /\ UNCHANGED <<srv, sess, wire, input, out>>
    BY DEF vars, clientVars, serverVars
  <1>2. TypeInv' BY <1>1 DEF IInv, TypeInv, CallType, KeptType, ServerType
  <1>3. ConnInv' BY <1>1 DEF IInv, ConnInv
  <1>4. FlowInv' BY <1>1, SameFlow
  <1>5. Pending' = Pending /\ (Unhandled' <=> Unhandled) BY <1>1 DEF Pending, Unhandled
  <1>6. AnswerInv' BY <1>1, <1>5 DEF IInv, AnswerInv
  <1> QED BY <1>1, <1>2, <1>3, <1>4, <1>6, ServerSide

(* Every step of the driver and of the daemon keeps the invariant.         *)
THEOREM Invariance == Spec => []IInv
  <1>1. Init => IInv BY InitInv
  <1>2. IInv /\ [Next]_vars => IInv'
    <2> SUFFICES ASSUME IInv, [Next]_vars PROVE IInv' OBVIOUS
    <2>1. CASE smarti_driver_open BY <2>1, OpenInv
    <2>2. CASE smarti_driver_transfer BY <2>2, TransferInv
    <2>3. CASE smarti_driver_close \/ smarti_driver_shutdown BY <2>3, CloseInv
    <2>4. CASE Send BY <2>4, SendInv
    <2>5. CASE ReadLine \/ ReadEof BY <2>5, ReadInv
    <2>6. CASE ReadReset \/ Timeout BY <2>6, GiveUpInv
    <2>7. CASE \E k \in 0..Len(wire) : SrvRead(k) BY <2>7, ReadCommandInv
    <2>8. CASE SrvWrite BY <2>8, WriteInv
    <2>9. CASE SrvEnd BY <2>9, EndInv
    <2>10. CASE UNCHANGED vars BY <2>10, StutterInv
    <2> QED BY <2>1, <2>2, <2>3, <2>4, <2>5, <2>6, <2>7, <2>8, <2>9, <2>10 DEF Next
  <1> QED BY <1>1, <1>2, PTL DEF Spec

(* Every variable keeps its type, whatever the tokens, the names and the   *)
(* devices discovered.                                                     *)
THEOREM TypeCorrect == Spec => []TypeOK
  <1>1. IInv => TypeOK
    <2> SUFFICES ASSUME IInv PROVE TypeOK OBVIOUS
    <2>1. out \in Seq(Replies)
      <3>1. out \in Seq(NotLate) /\ NotLate \subseteq Replies
        BY DEF IInv, TypeInv, ServerType, NotLate
      <3> QED BY <3>1
    <2> QED BY <2>1 DEF IInv, TypeInv, CallType, KeptType, ServerType, TypeOK, Kept, ReplyLines, SessionOK
  <1> QED BY <1>1, Invariance, PTL

(* A value the driver read from the socket is the daemon's answer to the   *)
(* command that asked for it, though smartic_parse_devinfo takes any pair  *)
(* of texts: at each of those steps nothing else can be on its way.        *)
THEOREM AnswersAreTheirs == Spec => []AnswersMatch
  <1>1. IInv => AnswersMatch BY DEF IInv, GotInv
  <1> QED BY <1>1, Invariance, PTL

(* A transfer that smarti_driver_transfer reports as a success answers the *)
(* token it was called with, and its data are whole and of that token.     *)
THEOREM TransferIsTheTokens == Spec => []TransferMatchesToken
  <1>1. IInv => TransferMatchesToken BY DEF IInv, GotInv
  <1> QED BY <1>1, Invariance, PTL
=============================================================================
