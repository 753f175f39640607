----------------------------- MODULE SmartidCmd -----------------------------
(***************************************************************************)
(* What one Smart-I command line does to one connection of the smartid     *)
(* daemon (smartid_cmd.c, smartid_device.c, and the part of irda.c they    *)
(* call).  The daemon is single threaded and its IrDA calls block, so a    *)
(* handler runs to its end before anything else happens: it is described   *)
(* here as a function from the connection's state to the SET of outcomes   *)
(* the dive computer and the IrDA link may lead to.  The module has no     *)
(* variables: Smartid and SmartiSession both build their actions from it.  *)
(***************************************************************************)
EXTENDS Integers, Sequences

CONSTANTS
  Tokens,       \* uint32 transfer tokens a client may send; 0 is the default
  DeviceNames,  \* names IrDA devices announce
  Discoveries   \* device lists irda_socket_discover may report, a set of
                \* sequences of names (at most 16 long in the code)

ASSUME TokensAssumption == Tokens \subseteq Nat /\ 0 \in Tokens


-----------------------------------------------------------------------------
(* smarti_codes.h *)

SUCCESS          == 210
READY            == 220
INFO             == 230
NO_DEVS          == 241
NO_DATA          == 243
DATA_FOLLOWS     == 301
NO_DEVICE        == 400
CONNECT_ERROR    == 401
HANDSHAKE_ERROR  == 402
IO_ERROR         == 403
EXISTS           == 410
TIMEOUT          == 440
UNKNOWN_COMMAND  == 500
INVALID_COMMAND  == 501
IRDA_ERROR       == 510
INTERNAL_ERROR   == 520
DEVICE_ERROR     == 540

NoCode == 0    \* the base64 line that follows a 301 line carries no code

-----------------------------------------------------------------------------
(* Replies.  kind is what the text of the line describes; val says where a *)
(* number in it comes from: "fresh" is the device's answer to this very    *)
(* command, "late" its answer to an earlier one, "junk" memory no answer   *)
(* was written to, "none" a line without a device value.                   *)

Vals == {"none", "fresh", "late", "junk"}

ASSUME DiscoveriesAssumption ==
  Discoveries \subseteq Seq(DeviceNames) /\ DeviceNames \cap Vals = {}

Kinds == {"ready", "error", "closed", "opened", "token", "nodevs", "device", "help",
          "model", "serial", "size", "tcorr", "ticks", "nodata", "length", "base64"}

Reply(code, kind, val, tok) ==
  [code |-> code, kind |-> kind, val |-> val, tok |-> tok]

Replies == [code : Nat, kind : Kinds, val : Vals \cup DeviceNames, tok : Tokens]

Status(code, kind) == Reply(code, kind, "none", 0)

Info(kind, val) == Reply(INFO, kind, val, 0)

(* smart_device_t: NULL, or the handle OPEN made.  The link is the state   *)
(* of the connection's IrDA socket; late: the device may still deliver an  *)
(* answer nobody waits for any more.                                       *)

Links == {"idle", "connecting", "connected", "lost"}

NoDev == [open |-> FALSE, tok |-> 0, ticks |-> "none"]

Devs == [open : BOOLEAN, tok : Tokens, ticks : Vals]

Sessions == [dev : Devs, link : Links, late : BOOLEAN]

NewSession == [dev |-> NoDev, link |-> "idle", late |-> FALSE]

(* How a handler ends: it returns to the event loop ("run"), free() stops  *)
(* the process ("abort"), SIGPIPE stops it ("sigpipe"), it never returns   *)
(* ("hung").                                                               *)
Fates == {"run", "abort", "sigpipe", "hung"}

-----------------------------------------------------------------------------
(* Exchanges with the device.  An exchange ends with a return code, the    *)
(* provenance of the answer and what became of the link.                   *)

Exchange(rc, val, link, late, fate) ==
  [rc |-> rc, val |-> val, link |-> link, late |-> late, fate |-> fate]

(* irda_socket_write: error, timeout, or the command goes out.  smartid    *)
(* leaves SIGPIPE at its default, so a write to a link the device has      *)
(* dropped, noticed or not, may end the process.                           *)
WriteFailures(link, late) ==
  {Exchange(IO_ERROR, "none", link, late, "run"),
   Exchange(TIMEOUT, "none", link, late, "run"),
   Exchange(IO_ERROR, "none", "lost", late, "sigpipe")}

(* irda_socket_read: the answers of one or four bytes come whole.  A read  *)
(* that gives up leaves the answer on its way; recv() returning 0 (the     *)
(* device is gone) is not an error to irda_socket_read, and the answer     *)
(* buffer keeps what it held.                                              *)
ReadResults(late) ==
  {Exchange(0, "fresh", "connected", FALSE, "run"),
   Exchange(IO_ERROR, "none", "connected", TRUE, "run"),
   Exchange(TIMEOUT, "none", "connected", TRUE, "run"),
   Exchange(0, "junk", "lost", FALSE, "run")}
  \cup IF late THEN {Exchange(0, "late", "connected", TRUE, "run")} ELSE {}

smart_driver_cmd(link, late) ==
  WriteFailures(link, late) \cup IF link = "connected" THEN ReadResults(late) ELSE {}

(* One phase of the handshake: any failure, and any answer other than      *)
(* 0x01, is a handshake error.                                             *)
HandshakePhase(link, late) ==
  LET ends == smart_driver_cmd(link, late) IN
  {x \in ends : x.fate # "run" \/ x.rc = 0}
  \cup {[x EXCEPT !.rc = HANDSHAKE_ERROR] : x \in {y \in ends : y.fate = "run"}}

(* Continue after every exchange that succeeded.                           *)
AndThen(ends, Op(_, _)) ==
  UNION {IF x.rc = 0 /\ x.fate = "run" THEN Op(x.link, x.late) ELSE {x} : x \in ends}

smart_driver_handshake(link, late) ==
  AndThen(HandshakePhase(link, late), HandshakePhase)

(* connect() on the session's socket: a socket that is or has been         *)
(* connected refuses; a timeout leaves the attempt going.                  *)
irda_socket_connect_lsap(link, late) ==
  IF link \in {"connected", "lost"}
  THEN {Exchange(CONNECT_ERROR, "none", link, late, "run")}
  ELSE {Exchange(0, "none", "connected", late, "run"),
        Exchange(CONNECT_ERROR, "none", "idle", late, "run"),
        Exchange(CONNECT_ERROR, "none", "connecting", late, "run")}

(* Connect, shake hands, read the tick count kept in the handle.           *)
smartid_dev_connect(link, late) ==
  AndThen(AndThen(irda_socket_connect_lsap(link, late), smart_driver_handshake),
          smart_driver_cmd)

-----------------------------------------------------------------------------
(* Handlers: sets of outcomes [s, replies, fate].                          *)

Outcome(s, replies, fate) == [s |-> s, replies |-> replies, fate |-> fate]

Just(s, reply) == {Outcome(s, <<reply>>, "run")}

After(s, x) == [s EXCEPT !.link = x.link, !.late = x.late]

(* smartid_dev_dispose frees the handle; the IrDA socket stays as it is.   *)
smartid_dev_dispose(s) == [s EXCEPT !.dev = NoDev]

(* Variant: a failed command leaves the device handle in place.            *)
FailedKeepsDevice(s, x) ==
  IF x.fate # "run" THEN {Outcome(After(s, x), <<>>, x.fate)}
  ELSE Just(After(s, x), Status(x.rc, "error"))

(* A device command failed: its code is sent and the handle disposed.      *)
DeviceFailed(s, x) ==
  IF x.fate # "run" THEN {Outcome(After(s, x), <<>>, x.fate)}
  ELSE Just(smartid_dev_dispose(After(s, x)), Status(x.rc, "error"))

smartid_cmd_close(s) == Just(smartid_dev_dispose(s), Status(SUCCESS, "closed"))

(* irda_socket_discover: an error, or the devices of one discovery.        *)
irda_socket_discover ==
  {[nd |-> -1, devs |-> <<>>]} \cup {[nd |-> Len(list), devs |-> list] : list \in Discoveries}

(* irda_enum_cb inserts at the head: the last device found is listed first. *)
irda_enum_cb(devs) == [i \in 1..Len(devs) |-> devs[Len(devs) + 1 - i]]

DeviceLines(names) == [i \in 1..Len(names) |-> Reply(INFO, "device", names[i], 0)]

(* Variant: no line is sent when the list is empty.                        *)
EnumSilentWhenEmpty(s) ==
  UNION {IF d.nd < 0 THEN Just(s, Status(IRDA_ERROR, "error"))
         ELSE {Outcome(s, DeviceLines(irda_enum_cb(d.devs)), "run")}
         : d \in irda_socket_discover}

smartid_cmd_enum(s) ==
  UNION {IF d.nd < 0 THEN Just(s, Status(IRDA_ERROR, "error"))
         ELSE IF d.nd = 0 THEN Just(s, Status(NO_DEVS, "nodevs"))
         ELSE {Outcome(s, DeviceLines(irda_enum_cb(d.devs)), "run")}
         : d \in irda_socket_discover}

(* Every command, in table order (help answers with one line for each).    *)
CmdTable == <<"close", "enum", "help", "model", "open", "serial", "size",
              "tcorr", "ticks", "token", "xfer">>

smartid_cmd_help(s) ==
  {Outcome(s, [i \in 1..Len(CmdTable) |-> Info("help", "none")], "run")}

(* MODEL, SERIAL and SIZE ask the device.  SIZE goes with the token.       *)
AskDevice(s, kind, tok) ==
  UNION {IF x.rc = 0 /\ x.fate = "run"
         THEN Just(After(s, x), Reply(INFO, kind, x.val, tok))
         ELSE DeviceFailed(s, x)
         : x \in smart_driver_cmd(s.link, s.late)}

smartid_cmd_model(s) == AskDevice(s, "model", 0)

smartid_cmd_serial(s) == AskDevice(s, "serial", 0)

smartid_cmd_size(s) == AskDevice(s, "size", s.dev.tok)

(* TCORR and TICKS report what OPEN stored: both come from the tick count. *)
smartid_cmd_tcorr(s) == Just(s, Info("tcorr", s.dev.ticks))

smartid_cmd_ticks(s) == Just(s, Info("ticks", s.dev.ticks))

smartid_cmd_open(s) ==
  IF s.dev.open THEN Just(s, Status(EXISTS, "error"))
  ELSE Just(s, Status(INTERNAL_ERROR, "error"))
       \cup UNION {IF x.fate # "run" THEN {Outcome(After(s, x), <<>>, x.fate)}
                   ELSE IF x.rc # 0 THEN Just(After(s, x), Status(x.rc, "error"))
                   ELSE Just([After(s, x) EXCEPT
                                !.dev = [open |-> TRUE, tok |-> 0, ticks |-> x.val]],
                             Status(SUCCESS, "opened"))
                   : x \in smartid_dev_connect(s.link, s.late)}

smartid_cmd_token(s, tok) ==
  Just([s EXCEPT !.dev.tok = tok], Status(SUCCESS, "token"))

(* The length and the data, or nothing at all when base64_encode has no    *)
(* memory.  (The copy it then makes is not checked: no memory for that     *)
(* ends the process, which "abort" in XferLoop stands for.)                *)
smartid_conn_send_buffer(val, tok) ==
  {<<Reply(DATA_FOLLOWS, "length", val, tok), Reply(NoCode, "base64", val, tok)>>, <<>>}

(* The chunk loop of smartid_dev_xfer_data, once a length above 4 was      *)
(* read: all chunks arrive, and the buffer is sent; a read fails or times  *)
(* out, and free(buf) is given the address of the caller's variable, which *)
(* free() may or may not detect; recv() returns 0 for ever once the device *)
(* is gone.                                                                *)
XferLoop(s, x) ==
  IF x.link = "lost" THEN {Outcome(After(s, x), <<>>, "hung")}
  ELSE {Outcome(After(s, x), sent, "run") : sent \in smartid_conn_send_buffer(x.val, s.dev.tok)}
       \cup {Outcome([After(s, x) EXCEPT !.link = "lost"], <<>>, "hung"),
             Outcome(After(s, x), <<>>, "abort")}
       \cup UNION {DeviceFailed(s, [x EXCEPT !.rc = rc, !.late = TRUE])
                   : rc \in {IO_ERROR, TIMEOUT}}

(* The announced length: 4 is "no data", less is a device error (neither   *)
(* disposes the handle), more is transferred if the buffer can be had.     *)
smartid_cmd_xfer(s) ==
  UNION {IF x.rc # 0 \/ x.fate # "run" THEN DeviceFailed(s, x)
         ELSE Just(After(s, x), Status(NO_DATA, "nodata"))
              \cup Just(After(s, x), Status(DEVICE_ERROR, "error"))
              \cup DeviceFailed(s, [x EXCEPT !.rc = INTERNAL_ERROR])
              \cup XferLoop(s, x)
         : x \in smart_driver_cmd(s.link, s.late)}

-----------------------------------------------------------------------------
(* Command lines.  A line is its first word and its parameters: none, text *)
(* that does not scan, or numbers (for TOKEN, the token).                  *)

Abbreviations == [s |-> {"serial", "size"}, t |-> {"tcorr", "ticks", "token"}]

(* strncasecmp(name, cmd->name, name_len): the word typed is a prefix.     *)
Matches(word, name) ==
  \/ word = name
  \/ word \in DOMAIN Abbreviations /\ name \in Abbreviations[word]

MatchesAt(word) == {i \in 1..Len(CmdTable) : Matches(word, CmdTable[i])}

(* The loop's variable after the search: the first match, else the last    *)
(* entry of the table, for it is assigned before the comparison.           *)
Searched(word) ==
  IF MatchesAt(word) = {} THEN CmdTable[Len(CmdTable)]
  ELSE CmdTable[CHOOSE i \in MatchesAt(word) : \A j \in MatchesAt(word) : i <= j]

TakesParams == {"open", "token"}

NeedsDevice == {"close", "model", "serial", "size", "tcorr", "ticks", "token", "xfer"}

(* CHECK_NO_PARAMS / CHECK_PARAMS, CHECK_DEVICE, then the command itself.  *)
(* OPEN looks for an open device before it scans its parameters.           *)
RunCmd(name, line, s) ==
  IF (name \in TakesParams) # (line.params # "none")
    THEN Just(s, Status(INVALID_COMMAND, "error"))
  ELSE IF name \in NeedsDevice /\ ~s.dev.open
    THEN Just(s, Status(NO_DEVICE, "error"))
  ELSE IF line.params = "text" /\ ~(name = "open" /\ s.dev.open)
    THEN Just(s, Status(INVALID_COMMAND, "error"))
  ELSE CASE name = "close"  -> smartid_cmd_close(s)
         [] name = "enum"   -> smartid_cmd_enum(s)
         [] name = "help"   -> smartid_cmd_help(s)
         [] name = "model"  -> smartid_cmd_model(s)
         [] name = "open"   -> smartid_cmd_open(s)
         [] name = "serial" -> smartid_cmd_serial(s)
         [] name = "size"   -> smartid_cmd_size(s)
         [] name = "tcorr"  -> smartid_cmd_tcorr(s)
         [] name = "ticks"  -> smartid_cmd_ticks(s)
         [] name = "token"  -> smartid_cmd_token(s, line.tok)
         [] name = "xfer"   -> smartid_cmd_xfer(s)

smartid_cmd_process(line, s) ==
  IF line.word = "" THEN Just(s, Status(READY, "ready"))
  ELSE IF MatchesAt(line.word) # {} THEN RunCmd(Searched(line.word), line, s)
  ELSE IF Searched(line.word) = "" THEN Just(s, Status(UNKNOWN_COMMAND, "error"))
  ELSE {Outcome(s, <<>>, "run")}

Words == {CmdTable[i] : i \in 1..Len(CmdTable)} \cup DOMAIN Abbreviations
         \cup {"", "bogus"}

Lines == [word : Words, params : {"none", "text", "numbers"}, tok : Tokens]

Line(word) == [word |-> word, params |-> "none", tok |-> 0]

LineWith(word, tok) == [word |-> word, params |-> "numbers", tok |-> tok]

(* Lines whose first word is empty or starts the name of a command.        *)
Known(line) == line.word = "" \/ MatchesAt(line.word) # {}

-----------------------------------------------------------------------------
(* A device handle belongs to a socket that reached the device, with no    *)
(* answer outstanding: a handle never outlives a failed exchange.          *)
Settled(s) == s.dev.open => s.link \in {"connected", "lost"} /\ ~s.late
=============================================================================
