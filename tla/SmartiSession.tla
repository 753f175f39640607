--------------------------- MODULE SmartiSession ---------------------------
(***************************************************************************)
(* One use of the smarti driver as transferapp makes it: open, transfer,   *)
(* close, shutdown (smarti_driver.c over smarti_client.c), against one     *)
(* connection of the smartid daemon, whose handlers are those of           *)
(* SmartidCmd.  The two run concurrently over TCP: replies arrive late, in *)
(* pieces, or not at all, each wait of the client may time out, and the    *)
(* daemon may end at any point.                                            *)
(***************************************************************************)
EXTENDS SmartidCmd

CONSTANTS
  SmartNames,    \* device names smarti_enum_cb takes for a Smart device
  NULL

ASSUME SmartNamesAssumption == SmartNames \subseteq DeviceNames /\ NULL \notin DeviceNames

VARIABLES
  app,       \* the call in progress, or what the application did last
  step,      \* the command in hand inside a call
  waiting,   \* it has been sent; its reply is being read
  result,    \* what the last call returned
  token,     \* token of the transfer
  ep,        \* epname: the device to open
  got,       \* the line accepted as each value the driver keeps
  tcp,       \* the client's socket
  net,       \* reply lines received and not read
  srv,       \* the daemon's end of the connection
  sess, wire, input, out   \* as in Smartid, for this connection

clientVars == <<app, step, waiting, result, token, ep, got>>
serverVars == <<srv, sess, wire, input, out>>
vars == <<clientVars, tcp, net, serverVars>>

Calls == {"opening", "transferring", "closing"}

Killed == {"sigpipe", "abort"}

AppStates == Calls \cup Killed
             \cup {"created", "failed", "opened", "transferred", "closed", "done"}

Values == {"model", "serial", "ticks", "size", "data"}

Steps == Values \cup {"greeting", "enum", "open", "token", "xfer", "close"}

(* The socket: not open; open; closed by the daemon in order; reset; or    *)
(* reset after the end of file, or with the error already reported.        *)
Sockets == {"none", "up", "fin", "rst", "broken"}

(* A line in transit: a reply, whole or cut short.                         *)
Sent(reply, whole) == [reply |-> reply, whole |-> whole]

(* An accepted line came from the socket, or is what an earlier call left  *)
(* in the stack memory of r_line.                                          *)
Got(line, from) == [line |-> line, from |-> from]

Init ==
  /\ app = "created" /\ step = NULL /\ waiting = FALSE /\ result = "none"
  /\ token = 0 /\ ep = NULL /\ got = [v \in Values |-> NULL]
  /\ tcp = "none" /\ net = <<>>
  /\ srv = "none" /\ sess = NewSession /\ wire = <<>> /\ input = <<>> /\ out = <<>>

-----------------------------------------------------------------------------
(* How a call goes on and ends.  rest is what stays unread on the socket,  *)
(* sock the state the socket is left in.                                   *)

(* The socket is closed, unread lines are lost.                            *)
smarti_client_disconnect == tcp' = "none" /\ net' = <<>>

Keep(rest, sock) == tcp' = sock /\ net' = rest

Returns == [opening |-> "failed", transferring |-> "transferred", closing |-> "closed"]

(* smarti_driver_close ignores what smarti_client_close returned.          *)
Return(res, state) ==
  /\ app' = state /\ step' = NULL /\ waiting' = FALSE
  /\ result' = IF app = "closing" THEN result ELSE res
  /\ UNCHANGED token

(* A failed transfer leaves the connection as it is, a failed open and any *)
(* close end it.                                                           *)
Fail(rest, sock) ==
  /\ Return("error", Returns[app])
  /\ IF app = "transferring" THEN Keep(rest, sock) ELSE smarti_client_disconnect

Succeed(rest) ==
  /\ Return("success", IF app = "opening" THEN "opened" ELSE Returns[app])
  /\ IF app = "closing" THEN smarti_client_disconnect ELSE Keep(rest, tcp)

Follows == [greeting |-> "enum", enum |-> "open", open |-> "model", model |-> "serial",
            serial |-> "ticks", token |-> "size", size |-> "xfer", xfer |-> "data"]

(* On to the next command of the call; the data line follows unasked.      *)
Continue(rest) ==
  /\ step' = Follows[step] /\ waiting' = (step = "xfer")
  /\ Keep(rest, tcp)
  /\ UNCHANGED <<app, result, token>>

(* The process is killed and the kernel closes the socket.                 *)
Die(signal) ==
  /\ app' = signal /\ step' = NULL /\ waiting' = FALSE
  /\ smarti_client_disconnect
  /\ UNCHANGED <<result, token, ep, got>>

-----------------------------------------------------------------------------
(* Replies, as the client understands them.  NULL is a line that does not  *)
(* parse.                                                                  *)

smartic_parse_response(line) == IF line = NULL THEN NoCode ELSE line.reply.code

(* smartic_parse_devinfo takes any "text: text" for the answer.            *)
DevInfoKinds == {"device", "model", "serial", "size", "tcorr", "ticks"}

smartic_parse_devinfo(line) ==
  smartic_parse_response(line) = INFO /\ line.reply.kind \in DevInfoKinds

smartic_parse_enuminfo(line) ==
  smartic_parse_response(line) = INFO /\ line.reply.kind = "device"

(* What each function of smarti_client.c takes for the reply it waits for. *)
smarti_client_connect(line)   == smartic_parse_response(line) = READY

smarti_client_enumerate(line) == smartic_parse_enuminfo(line)

smarti_client_open(line)      == smartic_parse_response(line) = SUCCESS

smarti_client_model(line)     == smartic_parse_devinfo(line)

smarti_client_serial(line)    == smartic_parse_devinfo(line)

smarti_client_ticks(line)     == smartic_parse_devinfo(line)

smarti_client_set_token(line) == smartic_parse_response(line) = SUCCESS

smarti_client_size(line)      == smartic_parse_devinfo(line)

smarti_client_xfer(line)      == smartic_parse_response(line) = DATA_FOLLOWS

smarti_client_close(line)     == smartic_parse_response(line) = SUCCESS

(* Variant: no check of the data's length.                                 *)
AnyLength(line) == TRUE

(* "Data Length Mismatch in XFER": the data have the length announced.     *)
LengthMatches(line) == line.whole

Accepts(line) ==
  CASE step = "greeting" -> smarti_client_connect(line)
    [] step = "enum"     -> smarti_client_enumerate(line)
    [] step = "open"     -> smarti_client_open(line)
    [] step = "model"    -> smarti_client_model(line)
    [] step = "serial"   -> smarti_client_serial(line)
    [] step = "ticks"    -> smarti_client_ticks(line)
    [] step = "token"    -> smarti_client_set_token(line)
    [] step = "size"     -> smarti_client_size(line)
    [] step = "xfer"     -> smarti_client_xfer(line)
    [] step = "data"     -> LengthMatches(line)
    [] step = "close"    -> smarti_client_close(line)

(* Variant: any device will do.                                            *)
TakeAnyName(name) == name

(* smarti_enum_cb keeps the last Smart device it is told of.               *)
smarti_enum_cb(name) == IF name \in SmartNames THEN name ELSE ep

(* smarti_client_enumerate goes on while FIONREAD says bytes are waiting.  *)
Enumerated(line, rest) ==
  LET name == smarti_enum_cb(line.reply.val) IN
  /\ ep' = name
  /\ \/ rest # <<>> /\ Keep(rest, tcp) /\ UNCHANGED <<app, step, waiting, result, token>>
     \/ rest = <<>> /\ name = NULL /\ Fail(rest, tcp)
     \/ rest = <<>> /\ name # NULL /\ Continue(rest)
  /\ UNCHANGED got

(* smarti_driver_close frees epname.                                       *)
ForgetName == ep' = IF app = "closing" THEN NULL ELSE ep

(* A size of zero ends the transfer at once; data of another size than the *)
(* one reported fail it.                                                   *)
Accepted(line, from, rest) ==
  \/ step = "enum" /\ Enumerated(line, rest)
  \/ /\ step # "enum"
     /\ \/ step \in DOMAIN Follows /\ Continue(rest)
        \/ step \in {"ticks", "size", "data", "close"} /\ Succeed(rest)
        \/ step = "data" /\ Fail(rest, tcp)
     /\ got' = IF step \in Values THEN [got EXCEPT ![step] = Got(line, from)] ELSE got
     /\ ForgetName

Received(line, from, rest) ==
  \/ Accepts(line) /\ Accepted(line, from, rest)
  \/ ~Accepts(line) /\ Fail(rest, tcp) /\ ForgetName /\ UNCHANGED got

-----------------------------------------------------------------------------
(* The driver's calls.  Each line sent and each line read is a step.       *)

(* The argument list or the address is bad, nobody listens, or the daemon  *)
(* accepts and greets.                                                     *)
smarti_driver_open ==
  /\ app = "created"
  /\ \/ app' = "failed" /\ result' = "error" /\ UNCHANGED <<step, waiting, tcp, srv, out>>
     \/ /\ app' = "opening" /\ step' = "greeting" /\ waiting' = TRUE /\ UNCHANGED result
        /\ tcp' = "up" /\ srv' = "up" /\ out' = <<Status(READY, "ready")>>
  /\ UNCHANGED <<token, ep, got, net, sess, wire, input>>

(* The device callback fails or its token does not scan; or TOKEN is next. *)
smarti_driver_transfer ==
  /\ app = "opened"
  /\ \/ app' = "transferred" /\ result' = "error" /\ UNCHANGED <<step, token>>
     \/ app' = "transferring" /\ step' = "token" /\ token' \in Tokens /\ UNCHANGED result
  /\ UNCHANGED <<waiting, ep, got, tcp, net, serverVars>>

smarti_driver_close ==
  /\ app = "transferred"
  /\ app' = "closing" /\ step' = "close"
  /\ UNCHANGED <<waiting, result, token, ep, got, tcp, net, serverVars>>

(* Variant: smarti_client_dispose does not disconnect.                     *)
ShutdownKeepsSocket ==
  /\ app \in {"failed", "closed"}
  /\ app' = "done"
  /\ UNCHANGED <<step, waiting, result, token, ep, got, tcp, net, serverVars>>

smarti_driver_shutdown ==
  /\ app \in {"failed", "closed"}
  /\ app' = "done" /\ smarti_client_disconnect
  /\ UNCHANGED <<step, waiting, result, token, ep, got, serverVars>>

(* Variant: the token is not put into the command.                         *)
CommandWithoutToken ==
  IF step = "open" THEN LineWith("open", 0)
  ELSE IF step = "token" THEN LineWith("token", 0) ELSE Line(step)

Command ==
  IF step = "open" THEN LineWith("open", 0)
  ELSE IF step = "token" THEN LineWith("token", token) ELSE Line(step)

(* smartic_socket_write.  The first write after the daemon closed is taken *)
(* and lost; a reset is reported once; after that SIGPIPE is raised, which *)
(* nobody handles.                                                         *)
Send ==
  /\ step # NULL /\ ~waiting
  /\ \/ /\ tcp = "up" /\ wire' = Append(wire, Command) /\ waiting' = TRUE
        /\ UNCHANGED <<app, step, result, token, ep, got, tcp, net>>
     \/ /\ tcp = "fin" /\ tcp' = "broken" /\ waiting' = TRUE
        /\ UNCHANGED <<app, step, result, token, ep, got, net, wire>>
     \/ tcp = "rst" /\ Fail(net, "broken") /\ ForgetName /\ UNCHANGED <<got, wire>>
     \/ tcp = "broken" /\ Die("sigpipe") /\ UNCHANGED wire
  /\ UNCHANGED <<srv, sess, input, out>>

(* smartic_socket_readln ends at a newline, or at end of file with what it *)
(* has.                                                                    *)
LineReady == net # <<>> /\ (net[1].whole \/ tcp \in {"fin", "broken"})

ReadLine ==
  /\ waiting /\ LineReady
  /\ Received(net[1], "socket", Tail(net))
  /\ UNCHANGED serverVars

(* End of file before the first byte: readln returns 0, which is no error, *)
(* and r_line is parsed uninitialised.  MODEL, SERIAL and TICKS are read   *)
(* by functions of one frame layout, called in turn: what the one before   *)
(* received may still be there.                                            *)
Residue ==
  {NULL} \cup {got[v].line : v \in {w \in {"model", "serial"} :
                                      Follows[w] = step /\ got[w] # NULL}}

(* In place of data, the loop that trims the empty buffer runs off its     *)
(* start, and free() may find the heap damaged.                            *)
ReadEof ==
  /\ waiting /\ net = <<>> /\ tcp \in {"fin", "broken"}
  /\ \/ step # "data" /\ \E line \in Residue : Received(line, "residue", <<>>)
     \/ step = "data" /\ Fail(<<>>, tcp) /\ UNCHANGED <<ep, got>>
     \/ step = "data" /\ Die("abort")
  /\ UNCHANGED serverVars

(* read() fails once the lines received before the reset are used up.      *)
ReadReset ==
  /\ waiting /\ ~LineReady /\ tcp = "rst"
  /\ Fail(<<>>, "broken") /\ ForgetName
  /\ UNCHANGED <<got, serverVars>>

(* Variant: select() waits without a limit for the data line.              *)
TimeoutExceptData ==
  /\ waiting /\ ~LineReady /\ tcp = "up" /\ step # "data"
  /\ Fail(<<>>, tcp) /\ ForgetName
  /\ UNCHANGED <<got, serverVars>>

(* Variant: the driver does without a value that is late.                  *)
TimeoutSkipsValue ==
  /\ waiting /\ ~LineReady /\ tcp = "up" /\ step \in {"model", "serial"}
  /\ step' = Follows[step] /\ waiting' = FALSE
  /\ UNCHANGED <<app, result, token, ep, got, tcp, net, serverVars>>

(* No byte for 2 s (10 s for ENUM, 60 s for XFER).  What was read of the   *)
(* line is dropped; the rest of it may still come.  Only the greeting's    *)
(* timeout does not disconnect.                                            *)
Timeout ==
  /\ waiting /\ ~LineReady /\ tcp = "up"
  /\ \/ step = "greeting" /\ Return("error", "failed") /\ Keep(<<>>, tcp)
     \/ step # "greeting" /\ Fail(<<>>, tcp)
  /\ ForgetName
  /\ UNCHANGED <<got, serverVars>>

-----------------------------------------------------------------------------
(* The daemon's end of the connection *)

(* As conn_read in Smartid: one read event, at most one line handled.  A   *)
(* handler that does not return leaves the connection to SrvEnd.           *)
SrvRead(k) ==
  LET lines == input \o SubSeq(wire, 1, k) IN
  /\ srv = "up" /\ wire # <<>> /\ lines # <<>>
  /\ \E o \in smartid_cmd_process(lines[1], sess) :
       /\ sess' = o.s /\ out' = out \o o.replies
       /\ srv' = IF o.fate = "run" THEN "up" ELSE o.fate
  /\ input' = Tail(lines) /\ wire' = SubSeq(wire, k + 1, Len(wire))
  /\ UNCHANGED <<clientVars, tcp, net>>

CutAtEnd == net # <<>> /\ ~net[Len(net)].whole

(* A line reaches the client.  The base64 line spans many segments, so a   *)
(* first part of it may arrive alone.                                      *)
SrvWrite ==
  /\ srv = "up" /\ out # <<>>
  /\ \/ /\ tcp = "up" /\ out' = Tail(out)
        /\ net' = Append(IF CutAtEnd THEN SubSeq(net, 1, Len(net) - 1) ELSE net,
                         Sent(out[1], TRUE))
     \/ /\ tcp = "up" /\ out[1].kind = "base64" /\ ~CutAtEnd
        /\ net' = Append(net, Sent(out[1], FALSE)) /\ UNCHANGED out
     \/ tcp = "none" /\ out' = Tail(out) /\ UNCHANGED net
  /\ UNCHANGED <<clientVars, tcp, srv, sess, wire, input>>

(* The daemon drops the connection: end of file, 300 s without data,       *)
(* SIGTERM, or the process is killed.  Replies not yet written are lost;   *)
(* lines it has not read turn the close into a reset.                      *)
SrvEnd ==
  /\ srv \notin {"none", "ended"}
  /\ srv' = "ended" /\ sess' = NewSession
  /\ wire' = <<>> /\ input' = <<>> /\ out' = <<>>
  /\ tcp' \in IF tcp # "up" THEN {tcp} ELSE IF wire = <<>> THEN {"fin"} ELSE {"rst", "broken"}
  /\ UNCHANGED <<clientVars, net>>

-----------------------------------------------------------------------------
Next ==
  \/ smarti_driver_open \/ smarti_driver_transfer
  \/ smarti_driver_close \/ smarti_driver_shutdown
  \/ Send \/ ReadLine \/ ReadEof \/ ReadReset \/ Timeout
  \/ \E k \in 0..Len(wire) : SrvRead(k)
  \/ SrvWrite \/ SrvEnd

Spec == Init /\ [][Next]_vars

(* A call of the driver runs to its end, each wait having its time limit.  *)
(* The daemon reads what is sent to it and notices the end of file.        *)
Fairness ==
  /\ WF_vars(Send) /\ WF_vars(ReadLine \/ ReadEof \/ ReadReset) /\ WF_vars(Timeout)
  /\ WF_vars(\E k \in 1..Len(wire) : SrvRead(k))
  /\ WF_vars(srv = "up" /\ tcp = "none" /\ wire = <<>> /\ SrvEnd)

FairSpec == Spec /\ Fairness

-----------------------------------------------------------------------------
(* Correctness *)

(* The type of every variable.                                             *)
TypeOK ==
  /\ app \in AppStates /\ step \in Steps \cup {NULL} /\ waiting \in BOOLEAN
  /\ result \in {"none", "success", "error"} /\ token \in Tokens
  /\ ep \in SmartNames \cup {NULL}
  /\ got \in [Values -> [line : [reply : Replies, whole : BOOLEAN],
                         from : {"socket", "residue"}] \cup {NULL}]
  /\ tcp \in Sockets
  /\ net \in Seq([reply : Replies, whole : BOOLEAN])
  /\ srv \in {"none", "up", "ended"} \cup (Fates \ {"run"})
  /\ sess \in Sessions
  /\ wire \in Seq(Lines) /\ input \in Seq(Lines) /\ out \in Seq(Replies)

(* A value read from the socket is the daemon's answer to the command that *)
(* asked for it: the loose parsing of smartic_parse_devinfo never takes    *)
(* one answer for another, though replies are matched to commands by their *)
(* order alone and lines may be left over from commands given up.          *)
AnswersMatch ==
  \A v \in Values \ {"data"} :
    got[v] # NULL /\ got[v].from = "socket" => got[v].line.reply.kind = v

(* A transfer that succeeded, with or without data, answers the token it   *)
(* was called with, and the data are all there.                            *)
TransferMatchesToken ==
  app = "transferred" /\ result = "success" =>
    /\ got["size"].line.reply.tok = token
    /\ got["data"] # NULL => /\ got["data"].line.whole
                             /\ got["data"].line.reply.kind = "base64"
                             /\ got["data"].line.reply.tok = token

(* Every call of the driver returns or kills the process, even when the    *)
(* daemon hangs or ends in the middle of it.                               *)
CallsReturn == app \in Calls ~> app \notin Calls

(* Once the application is done with the driver the daemon releases the    *)
(* connection, unless a handler of it never returned.                      *)
ServerReleased ==
  app \in Killed \cup {"done"} ~> srv \in {"none", "ended"} \cup (Fates \ {"run"})

(* smarti_client_enumerate "calls the callback function for each device    *)
(* returned" (smarti_client.h): no device line is left when OPEN is sent.  *)
EnumComplete ==
  step = "open" =>
    /\ \A i \in 1..Len(net) : net[i].reply.kind # "device"
    /\ \A i \in 1..Len(out) : out[i].kind # "device"
=============================================================================
