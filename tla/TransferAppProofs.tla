------------------------- MODULE TransferAppProofs -------------------------
(***************************************************************************)
(* Proofs about runs of benthos-xfr, for any number and any kinds of       *)
(* dives, any length of a dive and any chunk size.  The inductive          *)
(* invariant comes in layers, each resting on those before it: where the   *)
(* program stands, the transfer, the extraction, the parser, the token.    *)
(***************************************************************************)
EXTENDS TransferApp, TLAPS

-----------------------------------------------------------------------------
(* Where the program stands: the driver call that goes with a step of      *)
(* run_transfer, and the socket that goes with both.                       *)

ControlType ==
  /\ memory \in Seq(Kinds) /\ Len(memory) <= MaxDives /\ away \in BOOLEAN
  /\ call \in Calls /\ s \in {"null", "open", "freed"}
  /\ bar \in {"none", "started", "finished"}
  /\ pc \in PCs /\ status \in 0 .. 1
  /\ exit \in {"none", "done", "failed", "killed", "aborted"}
  /\ given \in BOOLEAN /\ format \in {"none", "uddf", "csv"}
  /\ repgrp \in BOOLEAN

CallOfStep ==
  /\ pc = "open" => call \in OpenSteps \cup {"ok", "error"}
  /\ pc = "transfer" => call \in {"token", "size", "data", "read", "ok", "error"}
  /\ pc = "extract" => call \in {"extract", "ok", "error"}
  /\ pc \notin {"open", "transfer", "extract"} => call = "none"

SocketOfStep ==
  /\ pc = "idle" => s = "null"
  /\ pc = "open" => s = IF call \in {"arglist", "socket", "error"} THEN "null" ELSE "open"
  /\ pc \notin {"idle", "open", "shutdown"} => s = "open"
  /\ pc = "shutdown" => s # "open"

ControlInv == ControlType /\ CallOfStep /\ SocketOfStep

(* Every step of the program keeps the layer of control.                   *)
LEMMA ControlStep ==
  ASSUME ControlInv, [Next]_vars
  PROVE  ControlInv'
  <1> USE DriverAssumption DEF ControlInv, ControlType, CallOfStep, SocketOfStep,
          deviceVars, xferVars, driverVars, runVars, userVars, appVars, Calls, OpenSteps, PCs
  <1>1. CASE OpenStep /\ UNCHANGED appVars
    BY <1>1 DEF OpenStep, FollowsOpen
  <1>2. CASE SizeCmd /\ UNCHANGED appVars
    BY <1>2 DEF SizeCmd
  <1>3. CASE DataCmd /\ UNCHANGED appVars
    BY <1>3 DEF DataCmd
  <1>4. CASE ReadChunk /\ UNCHANGED appVars
    BY <1>4 DEF ReadChunk
  <1>5. CASE ExtractDive /\ UNCHANGED appVars
    BY <1>5 DEF ExtractDive
  <1>6. CASE ExtractEnd /\ UNCHANGED appVars
    BY <1>6 DEF ExtractEnd
  <1>7. CASE OpenReturns
    BY <1>7 DEF OpenReturns, Goto, Fail
  <1>8. CASE device_cb
    BY <1>8 DEF device_cb
  <1>9. CASE TransferReturns
    BY <1>9 DEF TransferReturns, Goto, Fail
  <1>10. CASE ExtractReturns
    BY <1>10 DEF ExtractReturns, Goto, Fail
  <1>11. CASE InitFormatter
    BY <1>11 DEF InitFormatter, Goto, Fail
  <1>12. CASE ParseDive
    <2>1. repgrp' \in BOOLEAN BY <1>12 DEF ParseDive, Goto, Fail
    <2> QED BY <1>12, <2>1 DEF ParseDive, Goto, Fail
  <1>13. CASE FinishParser
    BY <1>13 DEF FinishParser, Goto
  <1>14. CASE StoreToken
    BY <1>14 DEF StoreToken, Goto
  <1>15. CASE WriteToken
    BY <1>15 DEF WriteToken, Goto
  <1>16. CASE CloseDevice
    BY <1>16 DEF CloseDevice, Goto, smart_driver_close
  <1>17. CASE ShutdownDevice
    <2>1. given' \in BOOLEAN /\ repgrp' \in BOOLEAN BY <1>17 DEF ShutdownDevice, ClearRun
    <2> QED BY <1>17, <2>1 DEF ShutdownDevice, ClearTransfer, ClearRun
  <1>18. CASE Start
    BY <1>18 DEF Start, smart_driver_create, ClearTransfer
  <1>19. CASE Crash \/ ExtractOverruns
    <2>1. given' \in BOOLEAN /\ repgrp' \in BOOLEAN
      BY <1>19 DEF Crash, ExtractOverruns, ProcessEnds, ClearRun
    <2> QED BY <1>19, <2>1 DEF Crash, ExtractOverruns, ProcessEnds, ClearTransfer, ClearRun
  <1>20. CASE OpenFails /\ UNCHANGED appVars
    BY <1>20 DEF OpenFails
  <1>21. CASE LinkFails /\ UNCHANGED appVars
    BY <1>21 DEF LinkFails
  <1>22. CASE RecordDive /\ UNCHANGED appVars
    <2>1. PICK kind \in Kinds : memory' = Append(memory, kind) BY <1>22 DEF RecordDive
    <2>2. memory' \in Seq(Kinds) /\ Len(memory') = Len(memory) + 1 BY <2>1
    <2> QED BY <1>22, <2>2 DEF RecordDive
  <1>23. CASE Leave /\ UNCHANGED appVars
    BY <1>23 DEF Leave
  <1>24. CASE ComeBack /\ UNCHANGED appVars
    <2>1. away' \in BOOLEAN BY <1>24 DEF ComeBack
    <2> QED BY <1>24, <2>1 DEF ComeBack
  <1>25. CASE UNCHANGED vars
    BY <1>25 DEF vars
  <1> QED
    BY <1>1, <1>2, <1>3, <1>4, <1>5, <1>6, <1>7, <1>8, <1>9, <1>10, <1>11, <1>12, <1>13,
       <1>14, <1>15, <1>16, <1>17, <1>18, <1>19, <1>20, <1>21, <1>22, <1>23, <1>24, <1>25
    DEF Next, RunSteps, Environment, DriverSteps

(* Where the program stands is as it should be from the start on.          *)
LEMMA ControlInit ==
  ASSUME Init
  PROVE  ControlInv
  <1>1. away \in BOOLEAN /\ given \in BOOLEAN /\ repgrp \in BOOLEAN
    BY DEF Init, DriverInit
  <1> QED BY DriverAssumption, <1>1
      DEF Init, DriverInit, NoTransfer, ControlInv, ControlType, CallOfStep, SocketOfStep,
          Calls, PCs

-----------------------------------------------------------------------------
(* The data: the values of the variables, what the computer sends, what    *)
(* the chunk loop has of it, what was extracted and parsed, and which      *)
(* dives are settled.                                                      *)

DataType ==
  /\ token \in 0 .. MaxDives
  /\ size \in Nat /\ len \in Nat /\ pos \in Nat /\ sent \in Nat
  /\ stream \in Seq(Bytes) /\ buffer \in Seq(Bytes)
  /\ dives \in Seq(1 .. MaxDives)
  /\ next \in 0 .. Len(dives)
  /\ tokenfile \in 0 .. Len(memory)
  /\ doc \subseteq 1 .. Len(memory) /\ saved \subseteq 1 .. Len(memory)
  /\ delivered \subseteq 1 .. Len(memory) /\ leftout \subseteq 1 .. Len(memory)

(* The bytes of n dives, from the one after t on.                          *)
Portion(t, n) ==
  [i \in 1 .. DiveLen * n |-> [dive |-> t + 1 + (i - 1) \div DiveLen, byte |-> (i - 1) % DiveLen]]

StreamInv ==
  /\ \/ stream = <<>>
     \/ \E n \in Nat \ {0} : token + n <= Len(memory) /\ stream = Portion(token, n)
  /\ pc \in {"idle", "open"} \/ call \in {"token", "size", "data"} => stream = <<>>

LoopInv ==
  /\ call = "data" => size > 0
  /\ call = "read" =>
       /\ pos + len = size /\ len > 0 /\ sent = pos /\ bar = "started" /\ Len(buffer) = size
       /\ \/ away
          \/ Len(stream) = size /\ \A i \in 1 .. pos : buffer[i] = stream[i]
  /\ pc = "extract" \/ (pc = "transfer" /\ call = "ok" /\ size > 0) =>
       size > 0 /\ size = Len(stream) /\ buffer = stream /\ bar = "finished"

ExtractInv ==
  /\ pc \in {"idle", "open", "transfer"} => dives = <<>>
  /\ Len(dives) > 0 => token + Len(dives) <= Len(memory)
  /\ \A i \in 1 .. Len(dives) : dives[i] = token + i
  /\ pc = "extract" /\ call = "extract" =>
       \/ pos = DiveLen * Len(dives) /\ pos <= size
       \/ pos = DiveLen * Len(dives) + 1 /\ pos < size
  /\ (pc = "extract" /\ call = "ok") \/ pc \in {"format", "parse", "store", "write"} =>
       Len(dives) > 0 /\ DiveLen * Len(dives) = Len(stream)

ParseInv ==
  /\ pc \in {"idle", "open", "transfer", "extract", "format"} => next = 0
  /\ pc = "parse" => format # "none"
  /\ repgrp \/ \A j \in 1 .. next : memory[dives[j]].rep # 1
  /\ GroupedDivesAreKept

TokenInv ==
  /\ 1 .. tokenfile \subseteq delivered \cup leftout
  /\ given \/ 1 .. token \subseteq delivered \cup leftout
  /\ pc \in {"store", "write"} => 1 .. token + Len(dives) \subseteq delivered \cup leftout

IInv == ControlInv /\ DataType /\ StreamInv /\ LoopInv /\ ExtractInv /\ ParseInv /\ TokenInv

-----------------------------------------------------------------------------
(* The place of a byte among those of n dives of length d.                 *)
LEMMA Divided ==
  ASSUME NEW d \in Nat \ {0}, NEW n \in Nat, NEW i \in 1 .. d * n
  PROVE  (i - 1) \div d \in 0 .. n - 1 /\ (i - 1) % d \in 0 .. d - 1
  OBVIOUS

(* The order and the distance of multiples.                                *)
LEMMA Multiples ==
  ASSUME NEW d \in Nat \ {0}, NEW k \in Nat, NEW n \in Nat
  PROVE  /\ d * k \in Nat /\ d * (k + 1) = d * k + d
         /\ d * k < d * n => k < n
         /\ k < n => d * k + d <= d * n
         /\ d * k = d * n => k = n
  OBVIOUS

(* Quotient and remainder of a multiple.                                   *)
LEMMA MultipleDivided ==
  ASSUME NEW d \in Nat \ {0}, NEW k \in Nat
  PROVE  (d * k) \div d = k /\ (d * k) % d = 0
  OBVIOUS

(* The remainder just after a multiple.                                    *)
LEMMA AfterMultiple ==
  ASSUME NEW d \in Nat \ {0, 1}, NEW k \in Nat
  PROVE  (d * k + 1) % d = 1
  <1> DEFINE m == d * k + 1
  <1>1. m \in Nat OBVIOUS
  <1>2. PICK q \in Nat, r \in Nat : m = d * q + r /\ r < d /\ m % d = r
    <2>1. m \div d \in Nat /\ m % d \in Nat /\ m % d < d /\ m = d * (m \div d) + (m % d)
      <3> HIDE DEF m
      <3> QED BY <1>1
    <2> QED BY <2>1
  <1>3. d * q \in Nat /\ d * k \in Nat OBVIOUS
  <1>4. ~(q < k)
    <2> SUFFICES ASSUME q < k PROVE FALSE OBVIOUS
    <2>1. d * q + d <= d * k BY Multiples
    <2> QED BY <1>2, <1>3, <2>1
  <1>5. ~(k < q)
    <2> SUFFICES ASSUME k < q PROVE FALSE OBVIOUS
    <2>1. d * k + d <= d * q BY Multiples
    <2> QED BY <1>2, <1>3, <2>1
  <1>6. q = k BY <1>4, <1>5
  <1> QED BY <1>2, <1>6

(* A function on 1 .. n is a sequence of length n.                         *)
LEMMA FunctionIsSeq ==
  ASSUME NEW S, NEW n \in Nat, NEW f \in [1 .. n -> S]
  PROVE  f \in Seq(S) /\ Len(f) = n
  OBVIOUS

(* The bytes the computer sends for n dives.                               *)
LEMMA PortionType ==
  ASSUME NEW t \in Nat, NEW n \in Nat \ {0}, t + n <= MaxDives
  PROVE  Portion(t, n) \in Seq(Bytes) /\ Len(Portion(t, n)) = DiveLen * n
  <1> USE DriverAssumption
  <1>1. ASSUME NEW i \in 1 .. DiveLen * n
        PROVE  [dive |-> t + 1 + (i - 1) \div DiveLen, byte |-> (i - 1) % DiveLen] \in Bytes
    <2>1. (i - 1) \div DiveLen \in 0 .. n - 1 /\ (i - 1) % DiveLen \in 0 .. DiveLen - 1
      BY Divided
    <2> QED BY <2>1 DEF Bytes
  <1>2. Portion(t, n) \in [1 .. DiveLen * n -> Bytes] BY <1>1 DEF Portion
  <1>3. DiveLen * n \in Nat OBVIOUS
  <1> QED BY <1>2, <1>3, FunctionIsSeq

(* The first byte of a dive in the stream, and the one that follows it.    *)
LEMMA PortionAt ==
  ASSUME NEW t \in Nat, NEW n \in Nat \ {0}, NEW k \in Nat, k < n
  PROVE  /\ Portion(t, n)[DiveLen * k + 1] = [dive |-> t + 1 + k, byte |-> 0]
         /\ Portion(t, n)[DiveLen * k + 2].byte = 1
  <1> USE DriverAssumption
  <1>1. DiveLen * k \in Nat /\ DiveLen * n \in Nat /\ DiveLen * k + DiveLen <= DiveLen * n
    BY Multiples
  <1>2. DiveLen * k + 1 \in 1 .. DiveLen * n /\ DiveLen * k + 2 \in 1 .. DiveLen * n
    BY <1>1
  <1>3. (DiveLen * k + 1) - 1 = DiveLen * k /\ (DiveLen * k + 2) - 1 = DiveLen * k + 1
    BY <1>1
  <1>4. /\ (DiveLen * k) \div DiveLen = k /\ (DiveLen * k) % DiveLen = 0
        /\ (DiveLen * k + 1) % DiveLen = 1
    BY MultipleDivided, AfterMultiple
  <1> QED BY <1>2, <1>3, <1>4 DEF Portion

(* What the computer answers is the portion of the dives after the token.  *)
LEMMA DivesAfterPortion ==
  ASSUME memory \in Seq(Kinds), NEW t \in Nat, Len(DivesAfter(t)) > 0
  PROVE  \E n \in Nat \ {0} : t + n <= Len(memory) /\ DivesAfter(t) = Portion(t, n)
  <1> USE DriverAssumption
  <1>1. CASE t < Len(memory)
    <2>1. Len(memory) - t \in Nat \ {0} BY <1>1
    <2>2. DivesAfter(t) = Portion(t, Len(memory) - t) BY <1>1 DEF DivesAfter, Portion
    <2> QED BY <2>1, <2>2
  <1>2. CASE ~(t < Len(memory))
    <2>1. DivesAfter(t) \in [1 .. 0 -> {0}] BY <1>2 DEF DivesAfter
    <2>2. Len(DivesAfter(t)) = 0 BY <2>1, FunctionIsSeq
    <2> QED BY <2>2
  <1> QED BY <1>1, <1>2

(* The length of the computer's answer is a number.                        *)
LEMMA AnswerLength ==
  ASSUME memory \in Seq(Kinds), token \in Nat
  PROVE  Len(DivesAfter(token)) \in Nat
  <1> USE DriverAssumption
  <1> DEFINE n == IF token < Len(memory) THEN Len(memory) - token ELSE 0
  <1>1. n \in Nat /\ DiveLen * n \in Nat OBVIOUS
  <1>2. DivesAfter(token) \in [1 .. DiveLen * n -> [dive : Int, byte : Int]] BY DEF DivesAfter
  <1> QED BY <1>1, <1>2, FunctionIsSeq

-----------------------------------------------------------------------------
(* Every step keeps what is known of the data the computer sends.          *)
LEMMA StreamStep ==
  ASSUME IInv, ControlInv', [Next]_vars
  PROVE  StreamInv'
  <1> USE DriverAssumption DEF StreamInv,
          deviceVars, xferVars, driverVars, runVars, userVars, appVars
  <1>0. /\ ControlType /\ DataType /\ StreamInv /\ LoopInv
        /\ CallOfStep
    BY DEF IInv, ControlInv
  <1>1. CASE DataCmd /\ UNCHANGED appVars
    <2>1. token \in Nat /\ memory \in Seq(Kinds) BY <1>0 DEF ControlType, DataType
    <2>2. CASE UNCHANGED stream
      <3>1. UNCHANGED <<token, memory, pc>> /\ call = "data" BY <1>1 DEF DataCmd
      <3> QED BY <1>0, <2>2, <3>1
    <2>3. CASE stream' = <<>> BY <2>3
    <2>4. CASE stream' = DivesAfter(token) /\ ~away /\ size = Len(DivesAfter(token))
               /\ call' = "read"
      <3>1. UNCHANGED <<token, memory, pc>> /\ call = "data" BY <1>1 DEF DataCmd
      <3>2. pc \notin {"idle", "open"} BY <1>0, <3>1 DEF CallOfStep, OpenSteps
      <3>3. size > 0 BY <1>0, <3>1 DEF LoopInv
      <3>4. PICK n \in Nat \ {0} : token + n <= Len(memory) /\ DivesAfter(token) = Portion(token, n)
        BY <2>1, <2>4, <3>3, DivesAfterPortion
      <3> QED BY <2>4, <3>1, <3>2, <3>4
    <2> QED BY <1>1, <2>2, <2>3, <2>4 DEF DataCmd
  <1>2. CASE device_cb
    BY <1>0, <1>2 DEF device_cb, CallOfStep
  <1>3. CASE RecordDive /\ UNCHANGED appVars
    <2>1. Len(memory') = Len(memory) + 1 /\ Len(memory) \in Nat
      BY <1>0, <1>3 DEF RecordDive, ControlType
    <2>2. UNCHANGED <<stream, token, call, pc>> BY <1>3 DEF RecordDive
    <2>3. token \in Nat BY <1>0 DEF DataType
    <2> QED BY <1>0, <2>1, <2>2, <2>3
  <1>4. CASE ShutdownDevice \/ Start \/ Crash \/ ExtractOverruns
    BY <1>4 DEF ShutdownDevice, Start, Crash, ExtractOverruns, ProcessEnds, ClearTransfer,
           smart_driver_create
  <1>5. CASE (OpenStep \/ SizeCmd \/ ReadChunk \/ ExtractDive \/ ExtractEnd) /\ UNCHANGED appVars
    BY <1>0, <1>5 DEF OpenStep, SizeCmd, ReadChunk, ExtractDive, ExtractEnd, OpenSteps, FollowsOpen
  <1>6. CASE (OpenFails \/ LinkFails \/ Leave \/ ComeBack) /\ UNCHANGED appVars
    BY <1>0, <1>6 DEF OpenFails, LinkFails, Leave, ComeBack
  <1>7. CASE OpenReturns \/ TransferReturns \/ ExtractReturns \/ InitFormatter \/ ParseDive
    BY <1>0, <1>7 DEF OpenReturns, TransferReturns, ExtractReturns, InitFormatter, ParseDive,
       Goto, Fail, CallOfStep
  <1>8. CASE FinishParser \/ StoreToken \/ WriteToken \/ CloseDevice \/ UNCHANGED vars
    BY <1>0, <1>8 DEF FinishParser, StoreToken, WriteToken, CloseDevice, Goto, vars, CallOfStep
  <1> QED
    BY <1>1, <1>2, <1>3, <1>4, <1>5, <1>6, <1>7, <1>8
    DEF Next, RunSteps, Environment, DriverSteps

(* What a round of the chunk loop leaves in the buffer.                    *)
LEMMA Filled ==
  ASSUME NEW n \in Nat, buffer \in Seq(Bytes), stream \in Seq(Bytes), size \in Nat,
         Len(buffer) = size, Len(stream) = size, pos \in Nat, sent = pos,
         pos + n <= size, \A i \in 1 .. pos : buffer[i] = stream[i]
  PROVE  /\ Fill(pos, n) \in Seq(Bytes) /\ Len(Fill(pos, n)) = size
         /\ \A i \in 1 .. pos + n : Fill(pos, n)[i] = stream[i]
  <1>1. Fill(pos, n) \in [1 .. size -> Bytes]
    BY DEF Fill
  <1>2. \A i \in 1 .. pos + n : Fill(pos, n)[i] = stream[i]
    BY DEF Fill
  <1> QED BY <1>1, <1>2, FunctionIsSeq

(* Every step keeps what is known of the chunk loop and its buffer.        *)
LEMMA LoopStep ==
  ASSUME IInv, ControlInv', [Next]_vars
  PROVE  LoopInv'
  <1> USE DriverAssumption DEF LoopInv,
          deviceVars, xferVars, driverVars, runVars, userVars, appVars
  <1>0. /\ ControlType /\ DataType /\ LoopInv
        /\ CallOfStep /\ SocketOfStep
    BY DEF IInv, ControlInv
  <1>1. CASE DataCmd /\ UNCHANGED appVars
    <2>1. pc = "transfer" /\ pc' = pc /\ size \in Nat /\ size > 0 /\ call = "data" /\ away' = away
      BY <1>0, <1>1 DEF DataCmd, CallOfStep, OpenSteps, DataType
    <2>2. CASE call' = "error" BY <2>1, <2>2
    <2>3. CASE /\ stream' = IF away THEN <<>> ELSE DivesAfter(token)
               /\ away \/ size = Len(DivesAfter(token))
               /\ buffer' = [i \in 1 .. size |-> Junk]
               /\ len' = size /\ pos' = 0 /\ sent' = 0 /\ bar' = "started" /\ call' = "read"
               /\ size' = size
      <3>1. Len(buffer') = size
        BY <2>1, <2>3
      <3> QED BY <2>1, <2>3, <3>1
    <2> QED BY <1>1, <2>2, <2>3 DEF DataCmd
  <1>2. CASE ReadChunk /\ UNCHANGED appVars
    <2>1. /\ call = "read" /\ ~away /\ pc = "transfer" /\ pc' = pc
          /\ UNCHANGED <<away, size, stream>>
      BY <1>0, <1>2 DEF ReadChunk, CallOfStep, OpenSteps
    <2>2. PICK nt \in 1 .. IF len > ChunkSize THEN ChunkSize ELSE len :
            /\ buffer' = Fill(pos, nt) /\ sent' = sent + nt
            /\ len' = len - nt /\ pos' = pos + nt
            /\ bar' = IF pos' = size THEN "finished" ELSE "started"
            /\ call' = IF len' = 0 THEN "ok" ELSE "read"
      BY <1>2 DEF ReadChunk
    <2>3. nt \in Nat /\ nt > 0 /\ nt <= len BY <1>0 DEF DataType
    <2>4. /\ buffer \in Seq(Bytes) /\ stream \in Seq(Bytes)
          /\ size \in Nat /\ pos \in Nat /\ len \in Nat /\ sent \in Nat
      BY <1>0 DEF DataType
    <2>5. /\ pos + len = size /\ sent = pos /\ Len(buffer) = size /\ Len(stream) = size
          /\ \A i \in 1 .. pos : buffer[i] = stream[i]
      BY <1>0, <2>1
    <2>6. pos + nt <= size BY <2>3, <2>4, <2>5
    <2>7. /\ buffer' \in Seq(Bytes) /\ Len(buffer') = size
          /\ \A i \in 1 .. pos + nt : buffer'[i] = stream[i]
      BY <2>2, <2>3, <2>4, <2>5, <2>6, Filled
    <2>8. CASE len' = 0
      <3>1. pos + nt = size BY <2>2, <2>3, <2>4, <2>5, <2>8
      <3>2. buffer' = stream BY <2>4, <2>5, <2>7, <3>1
      <3>3. bar' = "finished" /\ call' = "ok" BY <2>2, <2>8, <3>1
      <3>4. size > 0 BY <2>3, <2>4, <2>5
      <3> QED BY <2>1, <2>5, <3>2, <3>3, <3>4
    <2>9. CASE len' # 0
      <3>1. pos' + len' = size /\ len' > 0 /\ sent' = pos' /\ pos' # size
        BY <2>2, <2>3, <2>4, <2>5, <2>9
      <3>2. call' = "read" /\ bar' = "started" BY <2>2, <2>9, <3>1
      <3> QED BY <2>1, <2>2, <2>5, <2>7, <3>1, <3>2
    <2> QED BY <2>8, <2>9
  <1>3. CASE SizeCmd /\ UNCHANGED appVars
    <2>1. call = "size" /\ pc = "transfer" /\ pc' = pc
      BY <1>0, <1>3 DEF SizeCmd, CallOfStep, OpenSteps
    <2>2. size' \in Nat
      BY <1>0, <1>3, AnswerLength DEF SizeCmd, ControlType, DataType
    <2>3. call' = IF size' = 0 THEN "ok" ELSE "data" BY <1>3 DEF SizeCmd
    <2> QED BY <2>1, <2>2, <2>3
  <1>4. CASE ShutdownDevice \/ Start \/ Crash \/ ExtractOverruns
    BY <1>4 DEF ShutdownDevice, Start, Crash, ExtractOverruns, ProcessEnds, ClearTransfer,
           smart_driver_create
  <1>5. CASE (OpenStep \/ ExtractDive \/ ExtractEnd) /\ UNCHANGED appVars
    BY <1>0, <1>5 DEF OpenStep, ExtractDive, ExtractEnd, OpenSteps, FollowsOpen, CallOfStep
  <1>6. CASE (OpenFails \/ LinkFails \/ Leave) /\ UNCHANGED appVars
    BY <1>0, <1>6 DEF OpenFails, LinkFails, Leave, CallOfStep, OpenSteps
  <1>7. CASE ComeBack /\ UNCHANGED appVars
    <2>1. pc \notin {"transfer", "extract"} BY <1>0, <1>7 DEF ComeBack, SocketOfStep
    <2>2. call \notin {"data", "read"} BY <1>0, <2>1 DEF CallOfStep, OpenSteps
    <2> QED BY <1>7, <2>1, <2>2 DEF ComeBack
  <1>8. CASE RecordDive /\ UNCHANGED appVars
    BY <1>0, <1>8 DEF RecordDive
  <1>9. CASE OpenReturns \/ device_cb \/ TransferReturns
    BY <1>0, <1>9 DEF OpenReturns, device_cb, TransferReturns, Goto, Fail
  <1>10. CASE ExtractReturns \/ InitFormatter \/ ParseDive
    BY <1>0, <1>10 DEF ExtractReturns, InitFormatter, ParseDive, Goto, Fail, CallOfStep
  <1>11. CASE FinishParser \/ StoreToken \/ WriteToken \/ CloseDevice \/ UNCHANGED vars
    BY <1>0, <1>11 DEF FinishParser, StoreToken, WriteToken, CloseDevice, Goto, vars, CallOfStep
  <1> QED
    BY <1>1, <1>2, <1>3, <1>4, <1>5, <1>6, <1>7, <1>8, <1>9, <1>10, <1>11
    DEF Next, RunSteps, Environment, DriverSteps

-----------------------------------------------------------------------------
(* One round of smart_extract_dives: the dive taken is the next one after  *)
(* the token.                                                              *)
LEMMA ExtractRound ==
  ASSUME IInv, pc = "extract", call = "extract", pos < size
  PROVE  /\ token + Len(dives) + 1 <= Len(memory)
         /\ HasHeader(pos + 1) =>
              /\ pos = DiveLen * Len(dives)
              /\ buffer[pos + 1].dive = token + Len(dives) + 1
              /\ pos + DiveLen + 1 # size
  <1> USE DriverAssumption
  <1> DEFINE k == Len(dives)
  <1>1. /\ token \in Nat /\ pos \in Nat /\ size \in Nat /\ k \in Nat
        /\ Len(memory) \in Nat /\ Len(memory) <= MaxDives
    BY DEF IInv, ControlInv, ControlType, DataType
  <1>2. size > 0 /\ size = Len(stream) /\ buffer = stream BY DEF IInv, LoopInv
  <1>3. PICK n \in Nat \ {0} : token + n <= Len(memory) /\ stream = Portion(token, n)
    BY <1>2 DEF IInv, StreamInv
  <1>4. size = DiveLen * n BY <1>1, <1>2, <1>3, PortionType
  <1>5. \/ pos = DiveLen * k
        \/ pos = DiveLen * k + 1
    BY DEF IInv, ExtractInv
  <1>6. DiveLen * k \in Nat /\ k < n BY <1>1, <1>4, <1>5, Multiples
  <1>7. /\ stream[DiveLen * k + 1] = [dive |-> token + 1 + k, byte |-> 0]
        /\ stream[DiveLen * k + 2].byte = 1
    BY <1>1, <1>3, <1>6, PortionAt
  <1>8. CASE pos = DiveLen * k + 1
    <2>1. buffer[pos + 1].byte = 1
      <3>1. pos + 1 = DiveLen * k + 2 BY <1>6, <1>8
      <3> QED BY <1>2, <1>7, <3>1
    <2> QED BY <1>1, <1>3, <1>6, <2>1 DEF HasHeader
  <1>9. CASE pos = DiveLen * k
    <2>1. buffer[pos + 1].dive = token + 1 + k BY <1>2, <1>7, <1>9
    <2>2. pos + DiveLen = DiveLen * (k + 1) /\ DiveLen * (k + 1) \in Nat
      BY <1>1, <1>9, Multiples
    <2>3. DiveLen * (k + 1) + 1 # DiveLen * n
      <3>1. CASE k + 1 < n
        <4>1. DiveLen * (k + 1) + DiveLen <= DiveLen * n BY <1>1, <3>1, Multiples
        <4> QED BY <1>1, <1>4, <2>2, <4>1
      <3>2. CASE k + 1 = n
        BY <1>4, <2>2, <3>2
      <3> QED BY <1>1, <1>6, <3>1, <3>2
    <2> QED BY <1>1, <1>3, <1>4, <1>6, <1>9, <2>1, <2>2, <2>3
  <1> QED BY <1>5, <1>8, <1>9

(* Every step keeps what is known of the dives extracted.                  *)
LEMMA ExtractStep ==
  ASSUME IInv, ControlInv', [Next]_vars
  PROVE  ExtractInv'
  <1> USE DriverAssumption DEF ExtractInv,
          deviceVars, xferVars, driverVars, runVars, userVars, appVars
  <1>0. /\ ControlType /\ DataType /\ StreamInv /\ LoopInv /\ ExtractInv
        /\ CallOfStep
    BY DEF IInv, ControlInv
  <1>1. CASE ExtractDive /\ UNCHANGED appVars
    <2>1. /\ call = "extract" /\ pc = "extract" /\ pc' = pc /\ pos < size
          /\ UNCHANGED <<memory, token, size, stream>>
      BY <1>0, <1>1 DEF ExtractDive, CallOfStep, OpenSteps
    <2>2. CASE call' = "error" /\ UNCHANGED <<pos, dives>>
      BY <1>0, <2>1, <2>2
    <2>3. CASE /\ HasHeader(pos + 1) /\ ~TooShort(pos + 1) /\ ~Overruns
               /\ dives' = Append(dives, buffer[pos + 1].dive)
               /\ pos' = pos + DLen(pos + 1)
               /\ UNCHANGED call
      <3>1. /\ token \in Nat /\ pos \in Nat /\ size \in Nat /\ dives \in Seq(1 .. MaxDives)
            /\ Len(dives) \in Nat /\ Len(memory) \in Nat /\ Len(memory) <= MaxDives
        BY <1>0 DEF DataType, ControlType
      <3>2. /\ token + Len(dives) + 1 <= Len(memory)
            /\ pos = DiveLen * Len(dives)
            /\ buffer[pos + 1].dive = token + Len(dives) + 1
            /\ pos + DiveLen + 1 # size
        BY <2>1, <2>3, ExtractRound
      <3>3. dives' = Append(dives, token + Len(dives) + 1) /\ token + Len(dives) + 1 \in 1 .. MaxDives
        BY <2>3, <3>1, <3>2
      <3>4. Len(dives') = Len(dives) + 1 /\ \A i \in 1 .. Len(dives') : dives'[i] = token + i
        <4>1. Len(dives') = Len(dives) + 1 BY <3>1, <3>3
        <4>2. \A i \in 1 .. Len(dives) : dives'[i] = dives[i] BY <3>1, <3>3
        <4>3. dives'[Len(dives) + 1] = token + Len(dives) + 1 BY <3>1, <3>3
        <4>4. \A i \in 1 .. Len(dives) : dives'[i] = token + i BY <1>0, <4>2
        <4>5. ASSUME NEW i \in 1 .. Len(dives')
              PROVE  dives'[i] = token + i
          <5>1. CASE i \in 1 .. Len(dives) BY <4>4, <5>1
          <5>2. CASE i = Len(dives) + 1 BY <3>1, <4>3, <5>2
          <5> QED BY <3>1, <4>1, <5>1, <5>2
        <4> QED BY <4>1, <4>5
      <3>5. DiveLen * Len(dives') = DiveLen * Len(dives) + DiveLen
        BY <3>1, <3>4, Multiples
      <3>6. DLen(pos + 1) = DiveLen \/ DLen(pos + 1) = DiveLen + 1 BY DEF DLen
      <3>7. /\ pos' = pos + DiveLen \/ pos' = pos + DiveLen + 1
            /\ ~(pos' > size)
        <4>1. ~(FormAt(pos + 1) = "wraps") BY <2>1, <2>3 DEF Overruns
        <4>2. ~((pos + 1) - 1 + DLen(pos + 1) > size) BY <2>3, <4>1 DEF TooShort
        <4> QED BY <2>3, <3>1, <3>6, <4>2
      <3>8. \/ pos' = DiveLen * Len(dives') /\ pos' <= size
            \/ pos' = DiveLen * Len(dives') + 1 /\ pos' < size
        BY <3>1, <3>2, <3>5, <3>7
      <3> QED BY <2>1, <2>3, <3>1, <3>2, <3>4, <3>8
    <2> QED BY <1>1, <2>2, <2>3 DEF ExtractDive
  <1>2. CASE ExtractEnd /\ UNCHANGED appVars
    <2>1. /\ call = "extract" /\ pc = "extract" /\ pc' = pc /\ pos >= size
          /\ UNCHANGED <<memory, token, size, stream, dives, pos>>
          /\ call' = IF pos = size THEN "ok" ELSE "error"
      BY <1>0, <1>2 DEF ExtractEnd, CallOfStep, OpenSteps
    <2>2. pos \in Nat /\ size \in Nat /\ Len(dives) \in Nat BY <1>0 DEF DataType
    <2>3. size > 0 /\ size = Len(stream) BY <1>0, <2>1 DEF LoopInv
    <2>4. pos = DiveLen * Len(dives) /\ pos <= size BY <1>0, <2>1, <2>2
    <2>5. Len(dives) > 0 /\ DiveLen * Len(dives) = Len(stream) BY <2>1, <2>2, <2>3, <2>4
    <2> QED BY <1>0, <2>1, <2>5
  <1>3. CASE RecordDive /\ UNCHANGED appVars
    <2>1. Len(memory') = Len(memory) + 1 /\ Len(memory) \in Nat
      BY <1>0, <1>3 DEF RecordDive, ControlType
    <2>2. UNCHANGED <<dives, token, call, pc, pos, size, stream>> BY <1>3 DEF RecordDive
    <2>3. token \in Nat /\ Len(dives) \in Nat BY <1>0 DEF DataType
    <2> QED BY <1>0, <2>1, <2>2, <2>3
  <1>4. CASE ShutdownDevice \/ Start \/ Crash \/ ExtractOverruns
    <2>1. dives' = <<>> /\ pc' \in {"idle", "open"}
      BY <1>4 DEF ShutdownDevice, Start, Crash, ExtractOverruns, ProcessEnds, ClearTransfer,
           smart_driver_create
    <2> QED BY <2>1
  <1>5. CASE DataCmd /\ UNCHANGED appVars
    <2>1. pc = "transfer" /\ pc' = pc /\ UNCHANGED <<dives, token, memory>>
      BY <1>0, <1>5 DEF DataCmd, CallOfStep, OpenSteps
    <2> QED BY <1>0, <2>1
  <1>6. CASE (OpenStep \/ SizeCmd \/ ReadChunk) /\ UNCHANGED appVars
    <2>1. pc \in {"open", "transfer"} /\ pc' = pc /\ UNCHANGED <<dives, token, memory>>
      BY <1>0, <1>6 DEF OpenStep, SizeCmd, ReadChunk, CallOfStep, OpenSteps
    <2> QED BY <1>0, <2>1
  <1>7. CASE (OpenFails \/ LinkFails \/ Leave \/ ComeBack) /\ UNCHANGED appVars
    BY <1>0, <1>7 DEF OpenFails, LinkFails, Leave, ComeBack
  <1>8. CASE OpenReturns \/ device_cb
    <2>1. dives = <<>> BY <1>0, <1>8 DEF OpenReturns, device_cb
    <2>2. dives' = dives /\ pc' \in {"open", "transfer", "shutdown"}
      BY <1>8 DEF OpenReturns, device_cb, Goto, Fail
    <2> QED BY <2>1, <2>2
  <1>9. CASE TransferReturns
    <2>1. dives = <<>> BY <1>0, <1>9 DEF TransferReturns
    <2>2. /\ dives' = dives /\ UNCHANGED size
          /\ pc' = "close" \/ (pc' = "extract" /\ call' = "extract" /\ pos' = 0)
      BY <1>9 DEF TransferReturns, Goto, Fail
    <2>3. DiveLen * Len(dives') = 0 /\ size' \in Nat BY <1>0, <2>1, <2>2 DEF DataType
    <2> QED BY <2>1, <2>2, <2>3
  <1>10. CASE ExtractReturns \/ InitFormatter \/ ParseDive
    BY <1>0, <1>10 DEF ExtractReturns, InitFormatter, ParseDive, Goto, Fail, CallOfStep
  <1>11. CASE FinishParser \/ StoreToken \/ WriteToken \/ CloseDevice \/ UNCHANGED vars
    BY <1>0, <1>11 DEF FinishParser, StoreToken, WriteToken, CloseDevice, Goto, vars, CallOfStep
  <1> QED
    BY <1>1, <1>2, <1>3, <1>4, <1>5, <1>6, <1>7, <1>8, <1>9, <1>10, <1>11
    DEF Next, RunSteps, Environment, DriverSteps

-----------------------------------------------------------------------------
(* The dives of a run, and the last of them, as run_parser and the token   *)
(* file see them.                                                          *)
LEMMA DivesOfRun ==
  ASSUME IInv, pc \in {"parse", "store", "write"}
  PROVE  /\ token \in Nat /\ Len(dives) \in Nat \ {0} /\ token + Len(dives) <= Len(memory)
         /\ Len(memory) \in Nat
         /\ ToSet(dives) = token + 1 .. token + Len(dives)
         /\ Last(dives) = token + Len(dives)
         /\ \A i \in 1 .. Len(dives) : dives[i] = token + i
  <1>1. /\ token \in Nat /\ dives \in Seq(1 .. MaxDives) /\ Len(memory) \in Nat
    BY DEF IInv, DataType, ControlInv, ControlType
  <1>2. /\ Len(dives) \in Nat \ {0} /\ token + Len(dives) <= Len(memory)
        /\ \A i \in 1 .. Len(dives) : dives[i] = token + i
    BY <1>1 DEF IInv, ExtractInv
  <1>3. ToSet(dives) = token + 1 .. token + Len(dives)
    <2>1. DOMAIN dives = 1 .. Len(dives) BY <1>1
    <2>2. ToSet(dives) = {dives[i] : i \in 1 .. Len(dives)} BY <2>1 DEF ToSet
    <2>3. ASSUME NEW d \in token + 1 .. token + Len(dives) PROVE d \in ToSet(dives)
      <3>1. d - token \in 1 .. Len(dives) BY <1>1, <1>2
      <3>2. dives[d - token] = d BY <1>1, <1>2, <3>1
      <3> QED BY <2>2, <3>1, <3>2
    <2>4. ASSUME NEW i \in 1 .. Len(dives) PROVE dives[i] \in token + 1 .. token + Len(dives)
      <3>1. dives[i] = token + i BY <1>2
      <3> QED BY <1>1, <1>2, <3>1
    <2> QED BY <2>2, <2>3, <2>4
  <1>4. Last(dives) = token + Len(dives) BY <1>1, <1>2 DEF Last
  <1> QED BY <1>1, <1>2, <1>3, <1>4

(* The variables keep their types.                                         *)
LEMMA DataTypeStep ==
  ASSUME IInv, ControlInv', [Next]_vars
  PROVE  DataType'
  <1> USE DriverAssumption DEF DataType,
          deviceVars, xferVars, driverVars, runVars, userVars, appVars
  <1>0. /\ ControlType /\ DataType /\ StreamInv /\ LoopInv /\ ExtractInv /\ ParseInv
        /\ CallOfStep
    BY DEF IInv, ControlInv
  <1>0a. Len(memory) \in Nat /\ Len(memory) <= MaxDives /\ memory \in Seq(Kinds)
    BY <1>0 DEF ControlType
  <1>1. CASE device_cb
    BY <1>0, <1>0a, <1>1 DEF device_cb
  <1>2. CASE SizeCmd /\ UNCHANGED appVars
    BY <1>0, <1>0a, <1>2, AnswerLength DEF SizeCmd
  <1>3. CASE DataCmd /\ UNCHANGED appVars
    <2>1. stream' \in Seq(Bytes)
      <3>1. CASE stream' = DivesAfter(token) /\ size = Len(DivesAfter(token)) /\ size > 0
        <4>1. PICK n \in Nat \ {0} : token + n <= Len(memory) /\ stream' = Portion(token, n)
          BY <1>0, <1>0a, <3>1, DivesAfterPortion
        <4> QED BY <1>0, <1>0a, <4>1, PortionType
      <3>2. CASE stream' = <<>>
        BY <3>2
      <3>3. CASE UNCHANGED stream
        BY <1>0, <3>3
      <3> QED BY <1>0, <1>3, <3>1, <3>2, <3>3 DEF DataCmd, LoopInv
    <2>2. buffer' \in Seq(Bytes)
      <3>1. [i \in 1 .. size |-> Junk] \in Seq(Bytes)
        BY <1>0 DEF Junk, Bytes
      <3> QED BY <1>0, <1>3, <3>1 DEF DataCmd
    <2>3. size' \in Nat /\ len' \in Nat /\ pos' \in Nat /\ sent' \in Nat
      BY <1>0, <1>3 DEF DataCmd
    <2>4. UNCHANGED <<memory, token, dives, appVars>> BY <1>3 DEF DataCmd
    <2> QED BY <1>0, <2>1, <2>2, <2>3, <2>4
  <1>4. CASE ReadChunk /\ UNCHANGED appVars
    <2>1. PICK nt \in 1 .. IF len > ChunkSize THEN ChunkSize ELSE len :
            buffer' = Fill(pos, nt) /\ sent' = sent + nt /\ len' = len - nt /\ pos' = pos + nt
      BY <1>4 DEF ReadChunk
    <2>2. nt \in Nat /\ nt <= len BY <1>0
    <2>3. /\ pos + len = size /\ sent = pos /\ Len(buffer) = size /\ Len(stream) = size
          /\ \A i \in 1 .. pos : buffer[i] = stream[i]
      BY <1>0, <1>4 DEF ReadChunk, LoopInv
    <2>4. buffer' \in Seq(Bytes)
      <3>1. pos + nt <= size BY <1>0, <2>2, <2>3
      <3> QED BY <1>0, <2>1, <2>2, <2>3, <3>1, Filled
    <2>5. sent' \in Nat /\ len' \in Nat /\ pos' \in Nat BY <1>0, <2>1, <2>2
    <2> QED BY <1>0, <1>4, <2>4, <2>5 DEF ReadChunk
  <1>5. CASE ExtractDive /\ UNCHANGED appVars
    <2>1. call = "extract" /\ pc = "extract" /\ pos < size
      BY <1>0, <1>5 DEF ExtractDive, CallOfStep, OpenSteps
    <2>2. next = 0 BY <1>0, <2>1 DEF ParseInv
    <2>3. CASE UNCHANGED <<pos, dives>>
      BY <1>0, <1>5, <2>3 DEF ExtractDive
    <2>4. CASE /\ HasHeader(pos + 1) /\ dives' = Append(dives, buffer[pos + 1].dive)
               /\ pos' = pos + DLen(pos + 1)
      <3>1. buffer[pos + 1].dive \in 1 .. MaxDives
        <4>1. /\ buffer[pos + 1].dive = token + Len(dives) + 1
              /\ token + Len(dives) + 1 <= Len(memory)
          BY <2>1, <2>4, ExtractRound
        <4> QED BY <1>0, <1>0a, <4>1
      <3>2. dives' \in Seq(1 .. MaxDives) /\ Len(dives') \in Nat BY <1>0, <2>4, <3>1
      <3>3. DLen(pos + 1) \in Nat BY DEF DLen
      <3>4. pos' \in Nat /\ next' = 0 BY <1>0, <1>5, <2>2, <2>4, <3>3
      <3> QED BY <1>0, <1>5, <3>2, <3>4 DEF ExtractDive
    <2> QED BY <1>5, <2>3, <2>4 DEF ExtractDive
  <1>6. CASE ParseDive
    <2>1. next + 1 \in 1 .. Len(dives) BY <1>0, <1>6 DEF ParseDive
    <2>2. Dive \in 1 .. Len(memory)
      BY <1>6, <2>1, DivesOfRun DEF ParseDive, Dive
    <2>3. UNCHANGED <<memory, driverVars, userVars>> BY <1>6 DEF ParseDive, Goto, Fail
    <2>4. next' \in 0 .. Len(dives) BY <1>0, <1>6, <2>1 DEF ParseDive, Goto, Fail
    <2>5. doc' \subseteq doc \cup {Dive} BY <1>6 DEF ParseDive, Goto, Fail
    <2> QED BY <1>0, <2>2, <2>3, <2>4, <2>5
  <1>7. CASE FinishParser
    <2>1. /\ ToSet(dives) \subseteq 1 .. Len(memory)
          /\ 1 .. token \subseteq 1 .. Len(memory)
      BY <1>7, DivesOfRun DEF FinishParser
    <2>2. UNCHANGED <<memory, driverVars, runVars, tokenfile>> BY <1>7 DEF FinishParser, Goto
    <2>3. saved' \subseteq saved \cup doc BY <1>7 DEF FinishParser
    <2>4. delivered' = delivered \cup ToSet(dives) /\ leftout' \subseteq leftout \cup 1 .. token
      BY <1>7 DEF FinishParser
    <2> QED BY <1>0, <2>1, <2>2, <2>3, <2>4
  <1>8. CASE WriteToken
    <2>1. Last(dives) \in 0 .. Len(memory) BY <1>8, DivesOfRun DEF WriteToken
    <2> QED BY <1>0, <1>8, <2>1 DEF WriteToken, Goto
  <1>9. CASE RecordDive /\ UNCHANGED appVars
    <2>1. Len(memory') = Len(memory) + 1 BY <1>0a, <1>9 DEF RecordDive
    <2>2. UNCHANGED <<driverVars, appVars>> BY <1>9 DEF RecordDive
    <2>3. 1 .. Len(memory) \subseteq 1 .. Len(memory') /\ 0 .. Len(memory) \subseteq 0 .. Len(memory')
      BY <1>0a, <2>1
    <2> QED BY <1>0, <2>2, <2>3
  <1>10. CASE ShutdownDevice \/ Crash \/ ExtractOverruns
    <2>1. ClearTransfer /\ next' = 0 /\ doc' = {} /\ UNCHANGED <<memory, userVars>>
      BY <1>10 DEF ShutdownDevice, Crash, ExtractOverruns, ProcessEnds, ClearRun
    <2>2. /\ stream' \in Seq(Bytes) /\ buffer' \in Seq(Bytes) /\ dives' \in Seq(1 .. MaxDives)
          /\ Len(dives') = 0
      BY <2>1 DEF ClearTransfer
    <2> QED BY <1>0, <2>1, <2>2 DEF ClearTransfer
  <1>11. CASE Start
    BY <1>0, <1>11 DEF Start, ClearTransfer, smart_driver_create, ParseInv
  <1>12. CASE (OpenStep \/ ExtractEnd \/ OpenFails \/ LinkFails \/ Leave \/ ComeBack)
              /\ UNCHANGED appVars
    BY <1>0, <1>12 DEF OpenStep, ExtractEnd, OpenFails, LinkFails, Leave, ComeBack
  <1>13. CASE OpenReturns \/ TransferReturns \/ ExtractReturns \/ InitFormatter
    <2>1. /\ UNCHANGED <<memory, token, size, len, stream, sent, buffer, dives, next, doc>>
          /\ UNCHANGED userVars /\ pos' \in {0, pos}
      BY <1>13 DEF OpenReturns, TransferReturns, ExtractReturns, InitFormatter, Goto, Fail
    <2> QED BY <1>0, <2>1
  <1>14. CASE StoreToken \/ CloseDevice \/ UNCHANGED vars
    <2>1. /\ UNCHANGED <<memory, xferVars, next, doc, delivered, leftout, saved>>
          /\ tokenfile' \in {0, tokenfile}
      BY <1>14 DEF StoreToken, CloseDevice, Goto, vars
    <2> QED BY <1>0, <1>0a, <2>1
  <1> QED
    BY <1>1, <1>2, <1>3, <1>4, <1>5, <1>6, <1>7, <1>8, <1>9, <1>10, <1>11, <1>12, <1>13, <1>14
    DEF Next, RunSteps, Environment, DriverSteps

(* Every step keeps what is known of the dives the parser has been through.*)
LEMMA ParseStep ==
  ASSUME IInv, ControlInv', [Next]_vars
  PROVE  ParseInv'
  <1> USE DriverAssumption DEF deviceVars, xferVars, driverVars, runVars, userVars, appVars
  <1>0. /\ ControlType /\ DataType /\ ExtractInv /\ ParseInv /\ CallOfStep
    BY DEF IInv, ControlInv
  <1>1. CASE ParseDive
    <2>1. /\ pc = "parse" /\ next \in Nat /\ next + 1 \in 1 .. Len(dives)
          /\ UNCHANGED <<memory, dives>> /\ format \in {"uddf", "csv"}
      BY <1>0, <1>1 DEF ParseDive, Goto, Fail, DataType, ControlType, ParseInv
    <2>2. CASE pc' = "close" /\ UNCHANGED <<format, next, repgrp, doc>>
      BY <1>0, <2>1, <2>2 DEF ParseInv, GroupedDivesAreKept
    <2>3. CASE /\ pc' = "parse" /\ next' = next + 1
               /\ repgrp' = (repgrp \/ Repetition = 1)
               /\ doc' = IF format = "csv" \/ repgrp' THEN doc \cup {Dive} ELSE doc
               /\ UNCHANGED format
      <3>1. \A i \in 1 .. next' : i \in 1 .. next \/ i = next + 1 BY <2>1, <2>3
      <3>2. Dive = dives[next + 1] /\ Repetition = memory[dives[next + 1]].rep
        BY DEF Dive, Repetition
      <3>3. repgrp' \/ \A j \in 1 .. next' : memory[dives[j]].rep # 1
        BY <1>0, <2>3, <3>1, <3>2 DEF ParseInv
      <3>4. \A i \in 1 .. next : \/ dives[i] \in doc'
                                 \/ format = "uddf" /\ \A j \in 1 .. i : memory[dives[j]].rep # 1
        BY <1>0, <2>3 DEF ParseInv, GroupedDivesAreKept
      <3>5. \/ dives[next + 1] \in doc'
            \/ format = "uddf" /\ \A j \in 1 .. next + 1 : memory[dives[j]].rep # 1
        BY <2>1, <2>3, <3>2, <3>3
      <3>6. GroupedDivesAreKept'
        BY <2>1, <2>3, <3>1, <3>4, <3>5 DEF GroupedDivesAreKept
      <3> QED BY <2>1, <2>3, <3>3, <3>6 DEF ParseInv
    <2> QED BY <1>1, <2>2, <2>3 DEF ParseDive, Goto, Fail
  <1>2. CASE RecordDive /\ UNCHANGED appVars
    <2>1. PICK kind \in Kinds : memory' = Append(memory, kind) BY <1>2 DEF RecordDive
    <2>2. \A d \in 1 .. Len(memory) : memory'[d] = memory[d]
      BY <1>0, <2>1 DEF ControlType
    <2>3. UNCHANGED <<pc, call, dives, format, next, repgrp, doc, token>> BY <1>2 DEF RecordDive
    <2>4. \A j \in 1 .. Len(dives) : dives[j] \in 1 .. Len(memory)
      <3>1. token \in Nat /\ Len(dives) \in Nat /\ Len(memory) \in Nat
        BY <1>0 DEF DataType, ControlType
      <3> QED BY <1>0, <3>1 DEF ExtractInv
    <2>5. \A j \in 1 .. next : memory'[dives[j]] = memory[dives[j]]
      BY <1>0, <2>2, <2>4 DEF DataType
    <2>6. \A i \in 1 .. next : \A j \in 1 .. i : j \in 1 .. next BY <1>0 DEF DataType
    <2> QED BY <1>0, <2>3, <2>5, <2>6 DEF ParseInv, GroupedDivesAreKept
  <1>3. CASE ShutdownDevice \/ Crash \/ ExtractOverruns
    <2>1. next' = 0 /\ pc' = "idle"
      BY <1>3 DEF ShutdownDevice, Crash, ExtractOverruns, ProcessEnds, ClearRun
    <2> QED BY <2>1 DEF ParseInv, GroupedDivesAreKept
  <1>4. CASE (pc \in {"idle", "open", "transfer", "extract"} /\ UNCHANGED <<next, pc>>) \/ Start
    <2>1. next' = 0 /\ pc' \in {"idle", "open", "transfer", "extract"}
      BY <1>0, <1>4 DEF ParseInv, Start
    <2> QED BY <2>1 DEF ParseInv, GroupedDivesAreKept
  <1>5. CASE OpenReturns \/ device_cb \/ TransferReturns \/ ExtractReturns \/ InitFormatter
    <2>1. next = 0 BY <1>0, <1>5
          DEF ParseInv, OpenReturns, device_cb, TransferReturns, ExtractReturns, InitFormatter
    <2>2. next' = next /\ (pc' = "parse" => format' # "none")
      BY <1>5 DEF OpenReturns, device_cb, TransferReturns, ExtractReturns, InitFormatter, Goto, Fail
    <2> QED BY <2>1, <2>2 DEF ParseInv, GroupedDivesAreKept
  <1>6. CASE FinishParser \/ StoreToken \/ WriteToken \/ CloseDevice
    <2>1. /\ UNCHANGED <<memory, dives, format, next, repgrp, doc>>
          /\ pc' \in {"store", "write", "close", "shutdown"}
      BY <1>6 DEF FinishParser, StoreToken, WriteToken, CloseDevice, Goto
    <2> QED BY <1>0, <2>1 DEF ParseInv, GroupedDivesAreKept
  <1>7. CASE UNCHANGED <<memory, pc, dives, format, next, repgrp, doc>>
    BY <1>0, <1>7 DEF ParseInv, GroupedDivesAreKept
  <1>8. CASE DriverSteps /\ UNCHANGED appVars
    <2>1. call # "none" BY <1>8
          DEF DriverSteps, OpenStep, OpenSteps, SizeCmd, DataCmd, ReadChunk, ExtractDive, ExtractEnd
    <2>2. pc \in {"open", "transfer", "extract"} BY <1>0, <2>1 DEF CallOfStep
    <2> QED BY <1>4, <1>8, <2>2
  <1>9. CASE (OpenFails \/ LinkFails \/ Leave \/ ComeBack) /\ UNCHANGED appVars
    BY <1>7, <1>9 DEF OpenFails, LinkFails, Leave, ComeBack
  <1>10. CASE UNCHANGED vars
    BY <1>7, <1>10 DEF vars
  <1> QED
    BY <1>1, <1>2, <1>3, <1>4, <1>5, <1>6, <1>8, <1>9, <1>10 DEF Next, RunSteps, Environment

(* Every step keeps the dives up to the stored token, those up to a token  *)
(* that came from the file, and in the end those of the run, settled.      *)
LEMMA TokenStep ==
  ASSUME IInv, ControlInv', [Next]_vars
  PROVE  TokenInv'
  <1> USE DriverAssumption DEF TokenInv,
          deviceVars, xferVars, driverVars, runVars, userVars, appVars
  <1>0. /\ ControlType /\ DataType /\ TokenInv /\ CallOfStep
    BY DEF IInv, ControlInv
  <1>1. CASE FinishParser
    <2>1. /\ token \in Nat /\ Len(dives) \in Nat
          /\ ToSet(dives) = token + 1 .. token + Len(dives)
      BY <1>1, DivesOfRun DEF FinishParser
    <2>2. /\ delivered' = delivered \cup ToSet(dives)
          /\ leftout' = IF given THEN leftout \cup 1 .. token ELSE leftout
          /\ UNCHANGED <<token, dives, tokenfile, given>>
      BY <1>1 DEF FinishParser
    <2>3. 1 .. token \subseteq delivered' \cup leftout'
      BY <1>0, <2>2
    <2>4. 1 .. token + Len(dives) = (1 .. token) \cup (token + 1 .. token + Len(dives))
      BY <2>1
    <2>5. 1 .. token + Len(dives) \subseteq delivered' \cup leftout'
      BY <2>1, <2>2, <2>3, <2>4
    <2> QED BY <1>0, <2>2, <2>3, <2>5
  <1>2. CASE WriteToken
    <2>1. Last(dives) = token + Len(dives) BY <1>2, DivesOfRun DEF WriteToken
    <2> QED BY <1>0, <1>2, <2>1 DEF WriteToken, Goto
  <1>3. CASE StoreToken
    BY <1>0, <1>3 DEF StoreToken, Goto
  <1>4. CASE device_cb
    BY <1>0, <1>4 DEF device_cb
  <1>5. CASE ShutdownDevice \/ Crash \/ ExtractOverruns
    BY <1>0, <1>5 DEF ShutdownDevice, Crash, ExtractOverruns, ProcessEnds, ClearTransfer, ClearRun
  <1>6. CASE Start
    BY <1>0, <1>6 DEF Start, ClearTransfer, smart_driver_create
  <1>7. CASE DriverSteps /\ UNCHANGED appVars
    <2>1. UNCHANGED <<token, given, userVars, pc>> BY <1>7
          DEF DriverSteps, OpenStep, SizeCmd, DataCmd, ReadChunk, ExtractDive, ExtractEnd
    <2>2. call # "none" BY <1>7
          DEF DriverSteps, OpenStep, OpenSteps, SizeCmd, DataCmd, ReadChunk, ExtractDive, ExtractEnd
    <2>3. pc \notin {"store", "write"} BY <1>0, <2>2 DEF CallOfStep
    <2> QED BY <1>0, <2>1, <2>3
  <1>8. CASE OpenReturns \/ TransferReturns \/ ExtractReturns \/ InitFormatter \/ ParseDive
    <2>1. UNCHANGED <<token, given, userVars>> /\ pc' \notin {"store", "write"} BY <1>8
          DEF OpenReturns, TransferReturns, ExtractReturns, InitFormatter, ParseDive, Goto, Fail
    <2> QED BY <1>0, <2>1
  <1>9. CASE CloseDevice
    BY <1>0, <1>9 DEF CloseDevice, Goto
  <1>10. CASE (OpenFails \/ LinkFails \/ RecordDive \/ Leave \/ ComeBack) /\ UNCHANGED appVars
    BY <1>0, <1>10 DEF OpenFails, LinkFails, RecordDive, Leave, ComeBack
  <1>11. CASE UNCHANGED vars
    BY <1>0, <1>11 DEF vars
  <1> QED
    BY <1>1, <1>2, <1>3, <1>4, <1>5, <1>6, <1>7, <1>8, <1>9, <1>10, <1>11
    DEF Next, RunSteps, Environment

-----------------------------------------------------------------------------
(* The layers hold together in every state a run of benthos-xfr reaches.   *)
THEOREM Invariance == Spec => []IInv
  <1>1. ASSUME Init PROVE IInv
    <2>1. ControlInv BY <1>1, ControlInit
    <2>2. memory = <<>> /\ Len(memory) = 0 /\ dives = <<>> /\ Len(dives) = 0
      BY <1>1 DEF Init, DriverInit, NoTransfer
    <2>3. DataType
      BY <1>1, <2>2, DriverAssumption DEF Init, DriverInit, NoTransfer, DataType
    <2>4. StreamInv /\ LoopInv
      BY <1>1 DEF Init, DriverInit, NoTransfer, StreamInv, LoopInv
    <2>5. ExtractInv /\ ParseInv /\ TokenInv
      BY <1>1, <2>2
      DEF Init, DriverInit, NoTransfer, ExtractInv, ParseInv, TokenInv, GroupedDivesAreKept
    <2> QED BY <2>1, <2>3, <2>4, <2>5 DEF IInv
  <1>2. ASSUME IInv, [Next]_vars PROVE IInv'
    <2>1. ControlInv' BY <1>2, ControlStep DEF IInv
    <2> QED
      BY <1>2, <2>1, DataTypeStep, StreamStep, LoopStep, ExtractStep, ParseStep, TokenStep
      DEF IInv
  <1> QED BY <1>1, <1>2, PTL DEF Spec

(* Every variable of the program, the driver and the files keeps its type: *)
(* a stored token names a dive that the computer holds.                    *)
THEOREM TypeCorrect == Spec => []TypeOK
  <1>1. ASSUME IInv PROVE TypeOK
    BY <1>1 DEF IInv, ControlInv, ControlType, DataType, TypeOK, DriverTypeOK
  <1> QED BY <1>1, Invariance, PTL

(* Every way out of run_transfer, of smart_driver_open and of a kill gives *)
(* the socket back exactly once.                                           *)
THEOREM SocketReleased == Spec => []SocketIsReleased
  <1>1. ASSUME IInv PROVE SocketIsReleased
    BY <1>1 DEF IInv, ControlInv, ControlType, CallOfStep, SocketOfStep, OpenSteps, SocketIsReleased
  <1> QED BY <1>1, Invariance, PTL

(* The chunk loop of smart_driver_transfer puts the whole answer into the  *)
(* buffer in its order, whatever the chunk size and the sizes received.    *)
THEOREM BufferCorrect == Spec => []BufferFollowsStream
  <1>1. ASSUME IInv PROVE BufferFollowsStream
    BY <1>1 DEF IInv, LoopInv, BufferFollowsStream
  <1> QED BY <1>1, Invariance, PTL

(* smart_extract_dives hands out the dives after the token in their order, *)
(* and the parser gets all of them.                                        *)
THEOREM ExtractionCorrect == Spec => []DivesInOrder
  <1>1. ASSUME IInv PROVE DivesInOrder
    <2>1. Len(dives) * DiveLen = DiveLen * Len(dives)
      BY <1>1, DriverAssumption DEF IInv, DataType
    <2> QED BY <1>1, <2>1 DEF IInv, ExtractInv, DivesInOrder
  <1> QED BY <1>1, Invariance, PTL

(* The UDDF document loses a dive only before its first repetition group.  *)
THEOREM GroupingCorrect == Spec => []GroupedDivesAreKept
  <1>1. ASSUME IInv PROVE GroupedDivesAreKept
    BY <1>1 DEF IInv, ParseInv
  <1> QED BY <1>1, Invariance, PTL

-----------------------------------------------------------------------------
(* A step of a run is, for the token file and the dives handed over, a     *)
(* step of the promise or none.                                            *)
LEMMA PromiseStep ==
  ASSUME IInv, [Next]_vars
  PROVE  [Promise!Next]_(Promise!logVars)
  <1> USE DEF Promise!logVars, deviceVars, xferVars, driverVars, runVars, userVars, appVars
  <1>1. CASE RecordDive /\ UNCHANGED appVars
    <2>1. Len(memory') = Len(memory) + 1 /\ Len(memory) < MaxDives
      BY <1>1 DEF IInv, ControlInv, ControlType, RecordDive
    <2>2. Promise!Record
      BY <1>1, <2>1 DEF Promise!Record
    <2> QED BY <2>2 DEF Promise!Next
  <1>2. CASE FinishParser
    <2> DEFINE last == token + Len(dives)
    <2>1. /\ token \in 0 .. Len(memory) /\ last \in 0 .. Len(memory) /\ token < last
          /\ ToSet(dives) = token + 1 .. last
      BY <1>2, DivesOfRun DEF FinishParser
    <2>2. /\ delivered' = delivered \cup ToSet(dives)
          /\ leftout' = IF given THEN leftout \cup 1 .. token ELSE leftout
          /\ UNCHANGED <<memory, tokenfile>>
      BY <1>2 DEF FinishParser, Goto
    <2>3. given \in BOOLEAN BY DEF IInv, ControlInv, ControlType
    <2>4. delivered' \cup leftout' = (delivered \cup leftout) \cup (token + 1 .. last)
                                       \cup (IF given THEN 1 .. token ELSE {})
      BY <2>1, <2>2
    <2> HIDE DEF last
    <2>5. Promise!HandOver
      BY <2>1, <2>2, <2>3, <2>4 DEF Promise!HandOver
    <2> QED BY <2>5 DEF Promise!Next
  <1>3. CASE StoreToken
    BY <1>3 DEF StoreToken, Goto, Promise!Next, Promise!Forget
  <1>4. CASE WriteToken
    <2>1. UNCHANGED <<memory, delivered, leftout>> /\ tokenfile' \in {Last(dives), tokenfile}
      BY <1>4 DEF WriteToken, Goto
    <2>2. Last(dives) = token + Len(dives) /\ Last(dives) \in 1 .. Len(memory)
      BY <1>4, DivesOfRun DEF WriteToken
    <2>3. 1 .. Last(dives) \subseteq delivered \cup leftout
      BY <1>4, <2>2 DEF IInv, TokenInv, WriteToken
    <2>4. CASE tokenfile' = Last(dives)
      <3>1. Promise!Mark BY <2>1, <2>2, <2>3, <2>4 DEF Promise!Mark
      <3> QED BY <3>1 DEF Promise!Next
    <2> QED BY <2>1, <2>4
  <1>5. CASE UNCHANGED <<memory, tokenfile, delivered, leftout>>
    BY <1>5
  <1>6. CASE (DriverSteps \/ OpenFails \/ LinkFails \/ Leave \/ ComeBack) /\ UNCHANGED appVars
    BY <1>5, <1>6 DEF DriverSteps, OpenStep, SizeCmd, DataCmd, ReadChunk, ExtractDive, ExtractEnd,
       OpenFails, LinkFails, Leave, ComeBack
  <1>7. CASE OpenReturns \/ device_cb \/ TransferReturns \/ ExtractReturns \/ InitFormatter
    BY <1>5, <1>7 DEF OpenReturns, device_cb, TransferReturns, ExtractReturns, InitFormatter,
       Goto, Fail
  <1>8. CASE ParseDive \/ CloseDevice \/ ShutdownDevice \/ Start \/ Crash \/ ExtractOverruns
              \/ UNCHANGED vars
    BY <1>5, <1>8 DEF ParseDive, CloseDevice, ShutdownDevice, Start, Crash, ExtractOverruns, ProcessEnds,
           Goto, Fail, vars
  <1> QED
    BY <1>1, <1>2, <1>3, <1>4, <1>6, <1>7, <1>8 DEF Next, RunSteps, Environment

(* Runs of benthos-xfr, with their failures, kills and tokens given by the *)
(* user, implement the promise of DiveLog: the token file never passes a   *)
(* dive that run_parser has not been through and nobody left out.          *)
THEOREM KeepsPromise == Spec => TokenKeepsPromise
  <1>1. ASSUME Init PROVE Promise!Init
    BY <1>1 DEF Init, DriverInit, Promise!Init
  <1> QED BY <1>1, PromiseStep, Invariance, PTL DEF Spec, TokenKeepsPromise, Promise!Spec
=============================================================================
