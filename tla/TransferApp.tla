---------------------------- MODULE TransferApp ----------------------------
(***************************************************************************)
(* Runs of benthos-xfr with the smart driver (transferapp/main.cpp): open, *)
(* transfer, extract, parse into an output file, store the transfer token, *)
(* close.  The output and the token file outlive a run; a run may be       *)
(* killed between any two steps.  A choice the user makes on the command   *)
(* line is made where the code looks at it.                                *)
(***************************************************************************)
EXTENDS SmartDriver

CONSTANT DiskFull   \* writing the output file may fail

ASSUME DiskFullAssumption == DiskFull \in BOOLEAN

VARIABLES
  pc,         \* where run_transfer stands
  status,     \* what main will return
  exit,       \* how the last run ended
  given,      \* the token came from the command line
  format,     \* the output formatter
  next,       \* dives of this run that are parsed
  repgrp,     \* the UDDF document has a repetition group
  doc,        \* dives in the document
  tokenfile,  \* the token file: the dive it names, 0 when missing or empty
  delivered,  \* dives of the runs whose run_parser succeeded
  leftout,    \* dives before a token given on the command line by such a run
  saved       \* dives in an output file that was written

runVars == <<status, given, format, next, repgrp, doc>>
userVars == <<tokenfile, delivered, leftout, saved>>
appVars == <<pc, exit, runVars, userVars>>
vars == <<deviceVars, driverVars, appVars>>

PCs == {"idle", "open", "transfer", "extract", "format", "parse", "finish",
        "store", "write", "close", "shutdown"}

ClearRun ==
  /\ status' = 0 /\ given' = FALSE /\ format' = "none"
  /\ next' = 0 /\ repgrp' = FALSE /\ doc' = {}

Init ==
  /\ DriverInit
  /\ pc = "idle" /\ exit = "none" /\ status = 0 /\ given = FALSE /\ format = "none"
  /\ next = 0 /\ repgrp = FALSE /\ doc = {}
  /\ tokenfile = 0 /\ delivered = {} /\ leftout = {} /\ saved = {}

(* The steps of run_transfer that leave the driver's transfer alone.       *)
Goto(label) == pc' = label /\ UNCHANGED <<deviceVars, exit>>

Fail == status' = 1 /\ UNCHANGED <<given, format, next, repgrp, doc, userVars>>

-----------------------------------------------------------------------------
(* A run that ends before it has a device handle changes nothing.          *)
Start ==
  /\ pc = "idle" /\ smart_driver_create
  /\ pc' = "open" /\ exit' = "none"
  /\ UNCHANGED <<deviceVars, runVars, userVars>>

(* A handle that could not be opened is shut down and not closed.          *)
OpenReturns ==
  /\ pc = "open"
  /\ \/ call = "ok" /\ Goto("transfer") /\ call' = "token" /\ UNCHANGED <<runVars, userVars>>
     \/ call = "error" /\ Goto("shutdown") /\ call' = "none" /\ Fail
  /\ UNCHANGED <<s, xferVars>>

(* device_cb, and the transfer's use of the token: from the command line,  *)
(* "-" for none, or else from the token file.  A token that is no number   *)
(* ends the transfer.                                                      *)
device_cb ==
  /\ pc = "transfer" /\ call = "token"
  /\ \/ token' = tokenfile /\ given' = FALSE /\ call' = "size"
     \/ token' = 0 /\ given' = FALSE /\ call' = "size"
     \/ token' \in 1 .. MaxDives /\ given' = TRUE /\ call' = "size"
     \/ token' = 0 /\ given' = TRUE /\ call' = "error"
  /\ UNCHANGED <<deviceVars, s, size, len, pos, stream, sent, buffer, bar, dives,
                 pc, exit, status, format, next, repgrp, doc, userVars>>

(* Without data there is nothing to extract, to parse or to mark.          *)
TransferReturns ==
  /\ pc = "transfer"
  /\ \/ call = "error" /\ Goto("close") /\ call' = "none" /\ UNCHANGED pos /\ Fail
     \/ /\ call = "ok" /\ size = 0 /\ Goto("close") /\ call' = "none"
        /\ UNCHANGED <<pos, runVars, userVars>>
     \/ /\ call = "ok" /\ size > 0 /\ Goto("extract") /\ call' = "extract" /\ pos' = 0
        /\ UNCHANGED <<runVars, userVars>>
  /\ UNCHANGED <<s, token, size, len, stream, sent, buffer, bar, dives>>

(* Variant: what was extracted before an error is used.                    *)
ExtractReturnsPartial ==
  /\ pc = "extract" /\ call \in {"ok", "error"}
  /\ Goto("format") /\ call' = "none"
  /\ UNCHANGED <<s, xferVars, runVars, userVars>>

(* The dives extracted before an error are dropped with it.                *)
ExtractReturns ==
  /\ pc = "extract"
  /\ \/ call = "ok" /\ Goto("format") /\ UNCHANGED <<runVars, userVars>>
     \/ call = "error" /\ Goto("close") /\ Fail
  /\ call' = "none"
  /\ UNCHANGED <<s, xferVars>>

-----------------------------------------------------------------------------
(* run_parser.                                                             *)

(* The formatter may be unknown, the CSV file may not open.                *)
InitFormatter ==
  /\ pc = "format"
  /\ \/ /\ format' \in {"uddf", "csv"} /\ Goto("parse")
        /\ UNCHANGED <<status, given, next, repgrp, doc, userVars>>
     \/ Goto("close") /\ Fail
  /\ UNCHANGED driverVars

Dive == dives[next + 1]

Repetition == memory[Dive].rep

(* Variant: the prolog forgets the repetition group of the last dive.      *)
ParseDiveForgetful ==
  /\ pc = "parse" /\ next < Len(dives)
  /\ IF memory[Dive].form = "unparsable"
       THEN Goto("close") /\ Fail
       ELSE /\ Goto("parse")
            /\ next' = next + 1
            /\ repgrp' = (Repetition = 1)
            /\ doc' = IF format = "csv" \/ repgrp' THEN doc \cup {Dive} ELSE doc
            /\ UNCHANGED <<status, given, format, userVars>>
  /\ UNCHANGED driverVars

(* One dive: prolog, reset, header, profile, epilog.  A header with        *)
(* repetition 1 opens a group in the UDDF document, and the epilog hangs   *)
(* the dive in the group there is: without one the dive is dropped.        *)
ParseDive ==
  /\ pc = "parse" /\ next < Len(dives)
  /\ IF memory[Dive].form = "unparsable"
       THEN Goto("close") /\ Fail
       ELSE /\ Goto("parse")
            /\ next' = next + 1
            /\ repgrp' = (repgrp \/ Repetition = 1)
            /\ doc' = IF format = "csv" \/ repgrp' THEN doc \cup {Dive} ELSE doc
            /\ UNCHANGED <<status, given, format, userVars>>
  /\ UNCHANGED driverVars

(* The formatter's close_fn writes the file; nobody looks whether it could.*)
FinishParser ==
  /\ pc = "parse" /\ next = Len(dives)
  /\ Goto("store")
  /\ saved' \in {saved \cup doc} \cup (IF DiskFull THEN {saved} ELSE {})
  /\ delivered' = delivered \cup ToSet(dives)
  /\ leftout' = IF given THEN leftout \cup 1 .. token ELSE leftout
  /\ UNCHANGED <<driverVars, runVars, tokenfile>>

-----------------------------------------------------------------------------
(* The token file.                                                         *)

(* Opening the file for writing empties it.  It stays as it is with        *)
(* --no-store-token, and when its directory or the file cannot be made.    *)
StoreToken ==
  /\ pc = "store"
  /\ \/ Goto("close") /\ UNCHANGED tokenfile
     \/ Goto("write") /\ tokenfile' = 0
  /\ UNCHANGED <<driverVars, runVars, delivered, leftout, saved>>

(* Variant: the newest dive of the computer is marked.                      *)
WriteTokenNewest ==
  /\ pc = "write" /\ Goto("close")
  /\ tokenfile' \in {Len(memory), tokenfile}
  /\ UNCHANGED <<driverVars, runVars, delivered, leftout, saved>>

(* Variant: the token names the dive to start with.                        *)
WriteTokenAfter ==
  /\ pc = "write" /\ Goto("close")
  /\ tokenfile' \in {Last(dives) + 1, tokenfile}
  /\ UNCHANGED <<driverVars, runVars, delivered, leftout, saved>>

(* The token of the last dive extracted; a failed write is not noticed.    *)
WriteToken ==
  /\ pc = "write" /\ Goto("close")
  /\ tokenfile' \in {Last(dives), tokenfile}
  /\ UNCHANGED <<driverVars, runVars, delivered, leftout, saved>>

-----------------------------------------------------------------------------
CloseDevice ==
  /\ pc = "close" /\ Goto("shutdown")
  /\ smart_driver_close
  /\ UNCHANGED <<call, xferVars, runVars, userVars>>

(* smart_driver_shutdown closes a socket that dev->s still points to.  If  *)
(* it has been freed the second free() may be noticed, and ends the        *)
(* process.                                                                *)
ShutdownDevice ==
  /\ pc = "shutdown"
  /\ exit' \in {IF status = 0 THEN "done" ELSE "failed"}
               \cup (IF s = "freed" THEN {"aborted"} ELSE {})
  /\ pc' = "idle" /\ call' = "none" /\ s' = "null"
  /\ ClearTransfer /\ ClearRun
  /\ UNCHANGED <<deviceVars, userVars>>

(* The process is gone: what is on disk stays.                             *)
ProcessEnds(how) ==
  /\ pc' = "idle" /\ exit' = how /\ call' = "none" /\ s' = "null"
  /\ ClearTransfer /\ ClearRun
  /\ UNCHANGED <<deviceVars, userVars>>

(* The process is killed, or the machine stops.                            *)
Crash == pc # "idle" /\ ProcessEnds("killed")

(* extract_cb copies as many bytes as the length says, almost 2^32: there  *)
(* is no memory for them, or the copy runs into a page that is not there.  *)
ExtractOverruns == Overruns /\ ProcessEnds("aborted")

RunSteps ==
  \/ (DriverSteps /\ UNCHANGED appVars)
  \/ OpenReturns \/ device_cb \/ TransferReturns
  \/ ExtractOverruns \/ ExtractReturns \/ InitFormatter \/ ParseDive \/ FinishParser \/ StoreToken \/ WriteToken
  \/ CloseDevice \/ ShutdownDevice

Environment ==
  \/ ((OpenFails \/ LinkFails \/ RecordDive \/ Leave \/ ComeBack) /\ UNCHANGED appVars)
  \/ Start \/ Crash

Next == RunSteps \/ Environment

Spec == Init /\ [][Next]_vars

FairSpec == Spec /\ WF_vars(RunSteps)

-----------------------------------------------------------------------------
(* The variables hold values of their kinds.                               *)
TypeOK ==
  /\ DriverTypeOK
  /\ pc \in PCs /\ status \in 0 .. 1
  /\ exit \in {"none", "done", "failed", "killed", "aborted"}
  /\ given \in BOOLEAN /\ format \in {"none", "uddf", "csv"}
  /\ next \in 0 .. Len(dives) /\ repgrp \in BOOLEAN
  /\ tokenfile \in 0 .. Len(memory)
  /\ {doc, delivered, saved} \subseteq SUBSET (1 .. Len(memory))
  /\ leftout \subseteq 1 .. Len(memory)

(* The token file against the promise of DiveLog: whatever fails or is     *)
(* killed, and however the user sets tokens, the stored token never passes *)
(* a dive that run_parser has not been through.                            *)
Promise == INSTANCE DiveLog
             WITH held <- Len(memory), mark <- tokenfile, settled <- delivered \cup leftout

TokenKeepsPromise == Promise!Spec

(* The chunk loop of smart_driver_transfer fills the buffer from the front *)
(* with what the computer sends, whatever the sizes of the chunks; a       *)
(* transfer that succeeds has it all, and then the bar is at its end.      *)
BufferFollowsStream ==
  /\ call = "read" => /\ pos + len = size /\ len > 0 /\ sent = pos
                      /\ bar = "started"
  /\ (pc = "transfer" /\ call = "ok" /\ size > 0) => buffer = stream /\ bar = "finished"

(* extract_cb gets the dives after the token, each of them once and from   *)
(* the oldest on, so that the last one's token covers the others.          *)
DivesInOrder ==
  /\ \A i \in 1 .. Len(dives) : dives[i] = token + i
  /\ pc \in {"format", "parse", "store", "write"} =>
       Len(dives) * DiveLen = Len(stream)

(* A dive of a UDDF document is dropped by its epilog only if no dive of   *)
(* the same run, up to it, opened a repetition group.                      *)
GroupedDivesAreKept ==
  \A i \in 1 .. next :
    \/ dives[i] \in doc
    \/ format = "uddf" /\ \A j \in 1 .. i : memory[dives[j]].rep # 1

(* Every way out of run_transfer has closed the socket before the handle   *)
(* is shut down, and an open that failed leaves no handle to a socket that *)
(* is closed: shutdown would close it again.                               *)
SocketIsReleased ==
  /\ pc \in {"idle", "shutdown"} => s # "open"
  /\ pc \in {"idle", "open"} => s # "freed"

(* A run comes to its end, with two exceptions: the computer leaves, and   *)
(* the chunk loop goes on with reads that succeed without data, or a dive  *)
(* says that its length is 0.                                              *)
RunEnds == pc # "idle" ~> pc = "idle" \/ away \/ Endless

(* The promise of the manual page: a dive that will not be downloaded      *)
(* again is in an output file, unless the user passed over it.             *)
MarkedDivesAreSaved == 1 .. tokenfile \subseteq saved \cup leftout
=============================================================================
