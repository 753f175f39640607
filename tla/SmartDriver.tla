---------------------------- MODULE SmartDriver ----------------------------
(***************************************************************************)
(* The smart driver (plugins/smart): it opens the dive computer over IrDA, *)
(* asks for the dives after a token and reads them in chunks into one      *)
(* buffer, from which smart_extract_dives takes the dives.  A byte is      *)
(* abstracted to the dive it belongs to and its place in it; the numbers   *)
(* of the dives stand for their tokens, which grow with time.              *)
(***************************************************************************)
EXTENDS Integers, Sequences, SequencesExt

CONSTANTS
  MaxDives,   \* dives the computer records at most
  Kinds,      \* kinds of dive: records [rep, form], see DiveKinds
  DiveLen,    \* bytes of a dive
  ChunkSize   \* csize

(* rep: the repetition number in the dive's header, 0 when the model has   *)
(* none.  form: what the dive's bytes look like to the extraction and to   *)
(* the parser.                                                             *)
DiveKinds == [rep : 0 .. 2, form : {"good", "no_header", "too_long", "wraps", "endless", "unparsable"}]

ASSUME DriverAssumption ==
  /\ MaxDives \in Nat
  /\ Kinds \subseteq DiveKinds
  /\ DiveLen \in Nat \ {0, 1}
  /\ ChunkSize \in Nat \ {0}

VARIABLES
  memory,   \* dives in the computer, the oldest first
  away,     \* the computer has left the infrared link
  call,     \* where the driver call in progress stands, or what it returned
  s,        \* dev->s: null, open, or pointing to a closed and freed socket
  token,    \* the token given by the device callback, 0 for none
  size,     \* the buffer's size
  len, pos, \* bytes left to read, and the place in the buffer
  stream,   \* the data the computer is sending
  sent,     \* bytes of it received
  buffer,
  bar,      \* the progress bar transfer_cb draws
  dives     \* dives extract_cb was given

deviceVars == <<memory, away>>
xferVars == <<token, size, len, pos, stream, sent, buffer, bar, dives>>
driverVars == <<call, s, xferVars>>

OpenSteps == {"arglist", "socket", "discover", "connect", "handshake",
              "model", "serial", "ticks"}

Calls == OpenSteps \cup {"none", "token", "size", "data", "read", "extract", "ok", "error"}

Junk == [dive |-> 0, byte |-> 0]   \* what malloc leaves in the buffer

Bytes == [dive : 0 .. MaxDives, byte : 0 .. DiveLen]

NoTransfer ==
  /\ token = 0 /\ size = 0 /\ len = 0 /\ pos = 0
  /\ stream = <<>> /\ sent = 0 /\ buffer = <<>> /\ bar = "none" /\ dives = <<>>

ClearTransfer ==
  /\ token' = 0 /\ size' = 0 /\ len' = 0 /\ pos' = 0
  /\ stream' = <<>> /\ sent' = 0 /\ buffer' = <<>> /\ bar' = "none" /\ dives' = <<>>

DriverInit == memory = <<>> /\ away = FALSE /\ call = "none" /\ s = "null" /\ NoTransfer

-----------------------------------------------------------------------------
(* The dive computer.                                                      *)

RecordDive ==
  /\ Len(memory) < MaxDives
  /\ \E kind \in Kinds : memory' = Append(memory, kind)
  /\ UNCHANGED <<away, driverVars>>

(* Only a computer that is connected can be missed.                        *)
Leave == ~away /\ s = "open" /\ away' = TRUE /\ UNCHANGED <<memory, driverVars>>

(* A computer that comes back is a new station on the link.                *)
ComeBack == away /\ s # "open" /\ away' = FALSE /\ UNCHANGED <<memory, driverVars>>

(* The answer to 0xC4: every dive after the token.                         *)
DivesAfter(t) ==
  [i \in 1 .. DiveLen * (IF t < Len(memory) THEN Len(memory) - t ELSE 0) |->
     [dive |-> t + 1 + (i - 1) \div DiveLen, byte |-> (i - 1) % DiveLen]]

-----------------------------------------------------------------------------
(* Opening the device.                                                     *)

FollowsOpen == [arglist |-> "socket", socket |-> "discover", discover |-> "connect",
                connect |-> "handshake", handshake |-> "model", model |-> "serial",
                serial |-> "ticks", ticks |-> "ok"]

smart_driver_create == call' = "arglist" /\ s' = "null" /\ ClearTransfer

OpenStep ==
  /\ call \in OpenSteps
  /\ call' = FollowsOpen[call]
  /\ s' = IF call = "socket" THEN "open" ELSE s
  /\ UNCHANGED <<deviceVars, xferVars>>

(* Variant: a failed step closes the socket and leaves dev->s as it is.    *)
OpenFailsDangling ==
  /\ call \in OpenSteps
  /\ call' = "error" /\ s' = IF s = "open" THEN "freed" ELSE s
  /\ UNCHANGED <<deviceVars, xferVars>>

(* A failed step closes the socket if there is one and sets dev->s to 0.   *)
OpenFails ==
  /\ call \in OpenSteps
  /\ call' = "error" /\ s' = "null"
  /\ UNCHANGED <<deviceVars, xferVars>>

smart_driver_close == s' = IF s = "open" THEN "freed" ELSE s

-----------------------------------------------------------------------------
(* smart_driver_transfer.  Once the computer is away recv() returns 0 and  *)
(* irda_socket_read reports success: smart_driver_cmd leaves the answer as *)
(* it was (buffer_len and nb are uninitialised), and the chunk loop runs   *)
(* on without reading anything, which is a stuttering step here.           *)

LinkFails ==
  /\ call \in {"size", "data", "read"}
  /\ call' = "error"
  /\ UNCHANGED <<deviceVars, s, xferVars>>

SizeCmd ==
  /\ call = "size"
  /\ size' \in IF away THEN {0, 1} ELSE {Len(DivesAfter(token))}
  /\ call' = IF size' = 0 THEN "ok" ELSE "data"
  /\ UNCHANGED <<deviceVars, s, token, len, pos, stream, sent, buffer, bar, dives>>

(* The announced length is that of the first command, plus four.           *)
DataCmd ==
  /\ call = "data"
  /\ \/ \* a dive has been recorded since, or nb holds anything
        /\ away \/ size # Len(DivesAfter(token))
        /\ size' = 0 /\ call' = "error"
        /\ UNCHANGED <<token, len, pos, stream, sent, buffer, bar>>
     \/ /\ away \/ size = Len(DivesAfter(token))
        /\ stream' = IF away THEN <<>> ELSE DivesAfter(token)
        /\ buffer' = [i \in 1 .. size |-> Junk]
        /\ len' = size /\ pos' = 0 /\ sent' = 0
        /\ bar' = "started" /\ call' = "read"
        /\ UNCHANGED <<token, size>>
  /\ UNCHANGED <<deviceVars, s, dives>>

(* nt bytes received into the buffer at place p.                           *)
Fill(p, nt) ==
  [i \in 1 .. size |-> IF i \in p + 1 .. p + nt THEN stream[sent + i - p] ELSE buffer[i]]

(* Variant: the place moves on by what was asked for, not by what came.    *)
ReadChunkAsked ==
  /\ call = "read" /\ ~away
  /\ \E nt \in 1 .. IF len > ChunkSize THEN ChunkSize ELSE len :
       LET asked == IF len > ChunkSize THEN ChunkSize ELSE len IN
       /\ buffer' = Fill(pos, nt) /\ sent' = sent + nt
       /\ len' = len - asked /\ pos' = pos + asked
       /\ bar' = IF pos' = size THEN "finished" ELSE "started"
       /\ call' = IF len' = 0 THEN "ok" ELSE "read"
  /\ UNCHANGED <<deviceVars, s, token, size, stream, dives>>

(* One round of the loop: at most csize bytes are asked for, any number of *)
(* them may arrive.                                                        *)
ReadChunk ==
  /\ call = "read" /\ ~away
  /\ \E nt \in 1 .. IF len > ChunkSize THEN ChunkSize ELSE len :
       /\ buffer' = Fill(pos, nt) /\ sent' = sent + nt
       /\ len' = len - nt /\ pos' = pos + nt
       /\ bar' = IF pos' = size THEN "finished" ELSE "started"
       /\ call' = IF len' = 0 THEN "ok" ELSE "read"
  /\ UNCHANGED <<deviceVars, s, token, size, stream, dives>>

-----------------------------------------------------------------------------
(* smart_extract_dives, one round of its loop.  The length field of a      *)
(* too_long dive covers one byte more than the dive has, that of a wraps   *)
(* dive is 2^32 - DiveLen; that of an endless dive is 0, and the loop      *)
(* hands out an empty dive for ever.                                       *)

FormAt(p) == memory[buffer[p].dive].form

HasHeader(p) == buffer[p].byte = 0 /\ FormAt(p) # "no_header"

DLen(p) == IF FormAt(p) = "too_long" THEN DiveLen + 1 ELSE DiveLen

(* The check pos + dlen > size.  The sum is a uint32_t: 2^32 - DiveLen is  *)
(* found too long only at a place below DiveLen, and gives a sum of        *)
(* pos - DiveLen behind it.                                                *)
TooShort(p) == IF FormAt(p) = "wraps" THEN p <= DiveLen ELSE p - 1 + DLen(p) > size

(* The dive passes the check although it is longer than the buffer.        *)
Overruns ==
  /\ call = "extract" /\ pos < size
  /\ HasHeader(pos + 1) /\ FormAt(pos + 1) = "wraps" /\ ~TooShort(pos + 1)

Endless ==
  /\ call = "extract" /\ pos < size
  /\ HasHeader(pos + 1) /\ FormAt(pos + 1) = "endless"

(* Variant: a dive that is cut off is left to the next round.              *)
ExtractDiveWaits ==
  /\ call = "extract" /\ pos < size /\ ~Endless /\ ~Overruns
  /\ HasHeader(pos + 1) /\ ~TooShort(pos + 1)
  /\ dives' = Append(dives, buffer[pos + 1].dive)
  /\ pos' = pos + DLen(pos + 1)
  /\ UNCHANGED <<deviceVars, call, s, token, size, len, stream, sent, buffer, bar>>

ExtractDive ==
  /\ call = "extract" /\ pos < size /\ ~Endless /\ ~Overruns
  /\ IF ~HasHeader(pos + 1) \/ TooShort(pos + 1)
       THEN call' = "error" /\ UNCHANGED <<pos, dives>>
       ELSE /\ dives' = Append(dives, buffer[pos + 1].dive)
            /\ pos' = pos + DLen(pos + 1)
            /\ UNCHANGED call
  /\ UNCHANGED <<deviceVars, s, token, size, len, stream, sent, buffer, bar>>

ExtractEnd ==
  /\ call = "extract" /\ pos >= size
  /\ call' = IF pos = size THEN "ok" ELSE "error"
  /\ UNCHANGED <<deviceVars, s, xferVars>>

DriverSteps == OpenStep \/ SizeCmd \/ DataCmd \/ ReadChunk \/ ExtractDive \/ ExtractEnd

DriverTypeOK ==
  /\ memory \in Seq(Kinds) /\ Len(memory) <= MaxDives /\ away \in BOOLEAN
  /\ call \in Calls /\ s \in {"null", "open", "freed"}
  /\ token \in 0 .. MaxDives
  /\ {size, len, pos, sent} \subseteq Nat
  /\ stream \in Seq(Bytes) /\ buffer \in Seq(Bytes)
  /\ bar \in {"none", "started", "finished"}
  /\ dives \in Seq(1 .. MaxDives)
=============================================================================
