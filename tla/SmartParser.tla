---------------------------- MODULE SmartParser ----------------------------
(***************************************************************************)
(* The parser for Uwatec Smart dives (common-smart/smart_parser.c).  After *)
(* its header a dive is a run of records, each introduced by a data type   *)
(* indicator (DTI) of up to 14 bits; the parser keeps the current value of *)
(* every sensor and emits a waypoint per depth record, and several for a   *)
(* time record.  The operators work on a parser p, a record with the       *)
(* fields of smart_parser_; data is the dive without its header.           *)
(***************************************************************************)
EXTENDS Integers, Sequences, FiniteSets, SequencesExt, FiniteSetsExt

DTI(type, abs, idx, ntb, ignore, extra) ==
  [type |-> type, abs |-> abs = 1, idx |-> idx, ntb |-> ntb, ignore |-> ignore = 1,
   extra |-> extra]

smart_pro_table ==
  << DTI("depth", 0, 0, 1, 0, 0), DTI("temp", 0, 0, 2, 0, 0), DTI("time", 1, 0, 3, 0, 0),
     DTI("alarms", 1, 0, 4, 0, 0), DTI("depth", 0, 0, 5, 0, 1), DTI("temp", 0, 0, 6, 0, 1),
     DTI("depth", 1, 0, 7, 1, 2), DTI("temp", 1, 0, 8, 0, 2) >>

smart_galileo_sol_table ==
  << DTI("depth", 0, 0, 1, 0, 0), DTI("rbt", 0, 0, 3, 0, 0), DTI("pressure", 0, 0, 4, 0, 0),
     DTI("temp", 0, 0, 4, 0, 0), DTI("time", 1, 0, 4, 0, 0), DTI("heartrate", 0, 0, 4, 0, 0),
     DTI("alarms", 1, 0, 4, 0, 0), DTI("alarms", 1, 1, 8, 0, 1), DTI("depth", 1, 0, 8, 0, 2),
     DTI("rbt", 1, 0, 8, 0, 1), DTI("temp", 1, 0, 8, 0, 2), DTI("pressure", 1, 0, 8, 0, 2),
     DTI("pressure", 1, 1, 8, 0, 2), DTI("pressure", 1, 2, 8, 0, 2),
     DTI("heartrate", 1, 0, 8, 0, 1), DTI("bearing", 1, 0, 8, 0, 2),
     DTI("alarms", 1, 2, 8, 0, 1) >>

smart_aladin_table == Append(smart_pro_table, DTI("alarms", 1, 1, 9, 0, 0))

smart_com_table ==
  << DTI("pressure_depth", 0, 0, 1, 0, 1), DTI("rbt", 0, 0, 2, 0, 0), DTI("temp", 0, 0, 3, 0, 0),
     DTI("pressure", 0, 0, 4, 0, 1), DTI("depth", 0, 0, 5, 0, 1), DTI("temp", 0, 0, 6, 0, 1),
     DTI("alarms", 1, 0, 7, 1, 1), DTI("time", 1, 0, 8, 0, 1), DTI("depth", 1, 0, 9, 1, 2),
     DTI("temp", 1, 0, 10, 1, 2), DTI("pressure", 1, 0, 11, 1, 2), DTI("rbt", 1, 0, 12, 1, 1) >>

(* Variant: the tanks of the pressure records count from 1.                *)
smart_tec_table_tanks ==
  SubSeq(smart_com_table, 1, 11) \o
  << DTI("pressure", 1, 2, 12, 1, 2), DTI("pressure", 1, 3, 13, 1, 2),
     DTI("rbt", 1, 0, 14, 1, 1) >>

smart_tec_table ==
  SubSeq(smart_com_table, 1, 11) \o
  << DTI("pressure", 1, 1, 12, 1, 2), DTI("pressure", 1, 2, 13, 1, 2),
     DTI("rbt", 1, 0, 14, 1, 1) >>

Models == {"smart_pro", "galileo_sol", "aladin_tec", "aladin_tec2g", "smart_com",
           "smart_tec", "smart_z"}

dti_table(model) ==
  CASE model = "smart_pro" -> smart_pro_table
    [] model = "galileo_sol" -> smart_galileo_sol_table
    [] model \in {"aladin_tec", "aladin_tec2g"} -> smart_aladin_table
    [] model = "smart_com" -> smart_com_table
    [] model \in {"smart_tec", "smart_z"} -> smart_tec_table

-----------------------------------------------------------------------------
Readings == {"depth", "temp", "pressure", "rbt", "heartrate", "bearing"}

NewParser ==
  [val |-> [r \in Readings |-> IF r = "rbt" THEN 99 ELSE 0], alarms |-> <<0, 0, 0>>, tank |-> 0,
   time |-> 0, dcal |-> 0, complete |-> 0, calibrated |-> FALSE, have |-> {}]

(* Variant: the have_ flags of the last dive stay set.                     *)
smart_parser_reset_values(p) == [NewParser EXCEPT !.have = p.have]

(* Variant: the clock goes on.                                             *)
smart_parser_reset_clock(p) == [NewParser EXCEPT !.time = p.time]

smart_parser_reset(p) == NewParser

(* What the header callback is told, as far as a formatter tells it apart: *)
(* which of the models know a repetition number, and for which tanks there *)
(* are a mix and pressures.  hdr is the header's content.                  *)
HasRepetition == {"galileo_sol", "aladin_tec", "aladin_tec2g"}
ThreeMixes == {"galileo_sol", "aladin_tec2g", "smart_tec"}

Event(token, value, index) == [token |-> token, value |-> value, index |-> index]

Mixes(model, hdr) ==
  LET tanks == IF model \in ThreeMixes THEN 3 ELSE 1
  IN [i \in 1 .. tanks |-> Event("pmo2", hdr.o2[i], i - 1)]

Pressures(model) ==
  LET tanks == CASE model \in {"galileo_sol", "smart_tec"} -> 3
                 [] model \in {"smart_com", "smart_z"} -> 1
                 [] OTHER -> 0
  IN [i \in 1 .. tanks |-> Event("px", 0, i - 1)]

parse_header(model, hdr) ==
  (IF model \in HasRepetition THEN <<Event("repetition", hdr.rep, 0)>> ELSE <<>>)
    \o Mixes(model, hdr) \o Pressures(model)

-----------------------------------------------------------------------------
(* Finding the DTI at an offset, which counts from 0 behind the header.    *)

(* Outside the buffer there is memory of the heap: any value, here 0.      *)
Byte(data, i) == IF i \in 0 .. Len(data) - 1 THEN data[i + 1] ELSE 0

Bit(data, k) == (Byte(data, k \div 8) \div (2 ^ (7 - (k % 8)))) % 2

(* The number of ones before the first zero, in at most 8 bytes.           *)
smart_identify(data, offset) ==
  LET left == Len(data) - offset
      limit == IF left > 8 THEN 64 ELSE 8 * left
      zeros == {k \in 0 .. limit - 1 : Bit(data, (8 * offset) + k) = 0}
  IN IF zeros = {} THEN 255 ELSE Min(zeros)

galileo_identify(v) ==
  CASE v < 128 -> 0
    [] v \in 128 .. 159 -> 1
    [] v \in 160 .. 239 -> (v \div 16) % 8
    [] v >= 240 -> (v % 16) + 7

identify(model, data, offset) ==
  IF model = "galileo_sol" THEN galileo_identify(Byte(data, offset))
  ELSE smart_identify(data, offset)

(* The n low bits of x as a signed number.                                 *)
smart_fixsignbit(x, n) ==
  LET low == x % (2 ^ n)
  IN CASE n = 0 -> 0
       [] n > 0 /\ low >= 2 ^ (n - 1) -> low - (2 ^ n)
       [] n > 0 /\ low < 2 ^ (n - 1) -> low

(* A DTI's type bits may leave a rest of their last byte, which belongs to *)
(* the value unless ignored; the extra bytes follow.                       *)
RestBits(dti) == IF dti.ntb % 8 > 0 THEN 8 - (dti.ntb % 8) ELSE 0

ExtraAt(dti, offset) == offset + (dti.ntb \div 8) + (IF dti.ntb % 8 > 0 THEN 1 ELSE 0)

(* Variant: the check for the end of the buffer forgets the extra bytes.   *)
OverflowsTypeOnly(dti, data, offset) == ExtraAt(dti, offset) > Len(data)

Overflows(dti, data, offset) == ExtraAt(dti, offset) + dti.extra > Len(data)

(* Variant: a DTI without a rest does not count its last type byte.        *)
process_dti_stuck(dti, data, offset) ==
  [offset |-> IF dti.ntb = 8 THEN offset ELSE ExtraAt(dti, offset) + dti.extra,
   value |-> 0, svalue |-> 0]

(* A value with n bytes more of the data behind it, from position at on.   *)
Extended(rest, data, at, n) ==
  LET read[i \in 0 .. n] == IF i = 0 THEN rest ELSE (read[i - 1] * 256) + Byte(data, at + i - 1)
  IN read[n]

process_dti(dti, data, offset) ==
  LET at == ExtraAt(dti, offset)
      used == IF dti.ignore THEN 0 ELSE RestBits(dti)
      rest == Byte(data, at - 1) % (2 ^ used)
      value == Extended(rest, data, at, dti.extra)
  IN [offset |-> at + dti.extra, value |-> value,
      svalue |-> smart_fixsignbit(value, used + (8 * dti.extra))]

-----------------------------------------------------------------------------
Scale == [depth |-> 2, temp |-> 40, pressure |-> 250, rbt |-> 1, heartrate |-> 1]

Add(p, r, delta) == [p EXCEPT !.val[r] = @ + delta]

Set(p, r, value) == [p EXCEPT !.val[r] = value, !.have = @ \cup {r}]

(* A depth record ends a sample; the first absolute depth is the surface.  *)
Depth(p, dti, v) ==
  IF dti.abs
    THEN [Set(p, "depth", 2 * v.value) EXCEPT
            !.calibrated = TRUE,
            !.dcal = IF p.calibrated THEN @ ELSE 2 * v.value,
            !.complete = 1]
    ELSE [Add(p, "depth", 2 * v.svalue) EXCEPT !.complete = 1]

Reading(p, dti, v) ==
  IF ~dti.abs THEN Add(p, dti.type, v.svalue * Scale[dti.type])
  ELSE [Set(p, dti.type, v.value * Scale[dti.type]) EXCEPT
          !.tank = IF dti.type = "pressure" THEN dti.idx ELSE @]

parse_dti(p, dti, v) ==
  CASE dti.type = "depth" -> Depth(p, dti, v)
    [] dti.type = "pressure_depth" ->
         [Add(Add(p, "pressure", 250 * smart_fixsignbit(v.svalue \div 256, 8)),
              "depth", 2 * smart_fixsignbit(v.svalue, 8)) EXCEPT !.complete = 1]
    [] dti.type \in {"temp", "pressure", "rbt", "heartrate"} -> Reading(p, dti, v)
    [] dti.type = "bearing" -> Set(p, "bearing", v.value)
    [] dti.type = "alarms" -> [p EXCEPT !.alarms[dti.idx + 1] = v.value, !.have = @ \cup {"alarms"}]
    [] dti.type = "time" -> [p EXCEPT !.complete = v.value]
    [] OTHER -> p

(* The callbacks of one waypoint.  A reading is sent again with every      *)
(* waypoint once an absolute value has been read, bearing and alarms once. *)
Alarms(p) ==
  IF "alarms" \notin p.have THEN <<>>
  ELSE LET on == {a \in (0 .. 2) \X (0 .. 8) : (p.alarms[a[1] + 1] \div (2 ^ a[2])) % 2 = 1}
       IN [i \in 1 .. Cardinality(on) |-> Event("alarm", 0, 0)]

If(test, e) == IF test THEN <<e>> ELSE <<>>

Waypoint(p) ==
  <<Event("time", p.time, 0)>>
    \o If("depth" \in p.have, Event("depth", p.val.depth - p.dcal, 0))
    \o If("temp" \in p.have, Event("temp", p.val.temp, 0))
    \o If("pressure" \in p.have, Event("px", p.val.pressure, p.tank))
    \o If("rbt" \in p.have, Event("rbt", p.val.rbt, 0))
    \o If("heartrate" \in p.have, Event("heartrate", p.val.heartrate, 0))
    \o If("bearing" \in p.have, Event("bearing", p.val.bearing, 0))
    \o Alarms(p)

WaypointDone(p) ==
  [p EXCEPT !.time = @ + 4, !.complete = @ - 1, !.have = @ \ {"bearing", "alarms"}]
=============================================================================
