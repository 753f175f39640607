----------------------------- MODULE DiveOutput -----------------------------
(***************************************************************************)
(* The formatters of benthos-xfr: output_uddf.cpp and output_csv.cpp.  A   *)
(* formatter is a record f that its callbacks change; magic tells the two  *)
(* apart, as it does in the code, and profile is output_profile.  An event *)
(* is a call of header_cb or waypoint_cb.  The fields of a header that go  *)
(* to the file as they come are left out, and so is PMHe, which the Smart  *)
(* parser never sends and both formatters treat as they treat PMO2.        *)
(***************************************************************************)
EXTENDS Integers, Sequences, FiniteSets, SequencesExt

None == -1

MaxTanks == 3
TankIds == 0 .. MaxTanks - 1

(* Oxygen, in permille, for each tank: None for a tank there is not.       *)
NoTanks == [t \in TankIds |-> None]

-----------------------------------------------------------------------------
(* UDDF.  The document has gas mixes, named air, ean32, ean36 and mix-n,   *)
(* here 0, 1, 2 and n; it has groups of dives, and a dive has tanks with a *)
(* link to a mix, and samples with their elements.                         *)

Mix(id, o2) == [id |-> id, o2 |-> o2]

uddf_init_formatter(profile) ==
  [magic |-> "uddf", profile |-> profile,
   mixes |-> {Mix(0, 210), Mix(1, 320), Mix(2, 360)}, rgid |-> 0,
   tanks |-> {}, cur_mixes |-> NoTanks, samples |-> <<>>, links |-> NoTanks, lost |-> 0]

(* Variant: the mixes of the last dive's tanks stay.                       *)
uddf_prolog_keeps(f) == [f EXCEPT !.tanks = {}, !.samples = <<>>, !.links = NoTanks]

(* Variant: the samples of the last dive stay.                             *)
uddf_prolog_samples(f) == [f EXCEPT !.tanks = {}, !.cur_mixes = NoTanks, !.links = NoTanks]

uddf_prolog(f) ==
  [f EXCEPT !.tanks = {}, !.cur_mixes = NoTanks, !.samples = <<>>, !.links = NoTanks]

uddf_header_cb(f, e) ==
  CASE e.token = "repetition" /\ e.value = 1 -> [f EXCEPT !.rgid = @ + 1]
    [] e.token = "px" -> [f EXCEPT !.tanks = @ \cup {e.index}]
    [] e.token = "pmo2" /\ e.value # 0 ->
         [f EXCEPT !.tanks = @ \cup {e.index}, !.cur_mixes[e.index] = e.value]
    [] OTHER -> f

(* A time opens a waypoint; without one xmlNewChild gets a null parent and *)
(* the element is lost.  Other tokens are not written.                     *)
uddf_waypoint_cb(f, e) ==
  CASE ~f.profile -> f
    [] f.profile /\ e.token = "time" -> [f EXCEPT !.samples = Append(@, <<e>>)]
    [] f.profile /\ e.token \in {"depth", "temp", "alarm"} ->
         IF f.samples = <<>> THEN [f EXCEPT !.lost = @ + 1]
         ELSE [f EXCEPT !.samples[Len(f.samples)] = Append(@, e)]
    [] OTHER -> f

(* A tank without a mix gets air, another one the mix of the document that *)
(* has its gas, or a new one with the next number.                         *)
LinkTank(f, t) ==
  LET known == {m \in f.mixes : m.o2 = f.cur_mixes[t]}
      id == Cardinality(f.mixes)
  IN CASE f.cur_mixes[t] = None -> [f EXCEPT !.links[t] = 0]
       [] f.cur_mixes[t] # None /\ known # {} ->
            [f EXCEPT !.links[t] = (CHOOSE m \in known : TRUE).id]
       [] f.cur_mixes[t] # None /\ known = {} ->
            [f EXCEPT !.links[t] = id,
                      !.mixes = IF \E m \in @ : m.id = id THEN @
                                ELSE @ \cup {Mix(id, f.cur_mixes[t])}]

(* The dive goes to the last group; TransferApp has what becomes of a dive *)
(* when there is none.  The tanks are linked in their order.               *)
uddf_epilog(f) ==
  LET Link(g, t) == IF t \in f.tanks THEN LinkTank(g, t) ELSE g
  IN Link(Link(Link(f, 0), 1), 2)

-----------------------------------------------------------------------------
(* CSV.  hdr_complete has no initial value.                                *)

Waypoint0 == [valid |-> FALSE, time |-> 0, depth |-> 0, temp |-> 0, alarms |-> 0]

csv_init_formatter(profile, hdr_complete) ==
  [magic |-> "csv", profile |-> profile, hdr_complete |-> hdr_complete,
   tanks |-> NoTanks, cur_wp |-> Waypoint0, titles |-> 0, tankrows |-> NoTanks, rows |-> <<>>]

csv_prolog(f) ==
  [f EXCEPT !.tanks = NoTanks, !.cur_wp = Waypoint0,
            !.titles = 0, !.tankrows = NoTanks, !.rows = <<>>]

(* A tank's gas is 20.9 % until there is a mix.                            *)
csv_header_cb(f, e) ==
  CASE e.token = "px" -> [f EXCEPT !.tanks[e.index] = IF @ = None THEN 209 ELSE @]
    [] e.token = "pmo2" /\ e.value # 0 -> [f EXCEPT !.tanks[e.index] = e.value]
    [] OTHER -> f

(* The first waypoint event prints the tanks and the column titles.        *)
Titles(f) ==
  IF f.hdr_complete THEN f
  ELSE [f EXCEPT !.hdr_complete = TRUE, !.titles = @ + 1, !.tankrows = f.tanks]

Row(wp) == [time |-> wp.time, depth |-> wp.depth, temp |-> wp.temp, alarms |-> wp.alarms]

(* Variant: the alarms of a row stay for the next one.                     *)
NextRowKeeps(f, time) ==
  [f EXCEPT !.rows = IF f.cur_wp.valid THEN Append(@, Row(f.cur_wp)) ELSE @,
            !.cur_wp.time = time, !.cur_wp.valid = TRUE]

(* A time prints the waypoint before it.                                   *)
NextRow(f, time) ==
  [f EXCEPT !.rows = IF f.cur_wp.valid THEN Append(@, Row(f.cur_wp)) ELSE @,
            !.cur_wp.alarms = IF f.cur_wp.valid THEN 0 ELSE @,
            !.cur_wp.time = time, !.cur_wp.valid = TRUE]

csv_waypoint_cb(f, e) ==
  LET g == Titles(f)
  IN CASE ~f.profile -> g
       [] f.profile /\ e.token = "time" -> NextRow(g, e.value)
       [] f.profile /\ e.token = "depth" -> [g EXCEPT !.cur_wp.depth = e.value]
       [] f.profile /\ e.token = "temp" -> [g EXCEPT !.cur_wp.temp = e.value]
       [] f.profile /\ e.token = "alarm" -> [g EXCEPT !.cur_wp.alarms = @ + 1]
       [] OTHER -> g

-----------------------------------------------------------------------------
(* The function pointers of output_fmt_data_t.                             *)
prolog_fn(f) == IF f.magic = "uddf" THEN uddf_prolog(f) ELSE csv_prolog(f)

header_cb(f, e) == IF f.magic = "uddf" THEN uddf_header_cb(f, e) ELSE csv_header_cb(f, e)

profile_cb(f, e) == IF f.magic = "uddf" THEN uddf_waypoint_cb(f, e) ELSE csv_waypoint_cb(f, e)

(* The parser's calls of a callback, one for each event.                   *)
WithHeader(f, events) ==
  LET upto[n \in 0 .. Len(events)] == IF n = 0 THEN f ELSE header_cb(upto[n - 1], events[n])
  IN upto[Len(events)]

WithWaypoint(f, events) ==
  LET upto[n \in 0 .. Len(events)] == IF n = 0 THEN f ELSE profile_cb(upto[n - 1], events[n])
  IN upto[Len(events)]

(* The epilog of the CSV formatter prints an empty line and no waypoint.   *)
epilog_fn(f) == IF f.magic = "uddf" THEN uddf_epilog(f) ELSE f
=============================================================================
