----------------------------- MODULE ParseDives -----------------------------
(***************************************************************************)
(* The loop of run_parser (transferapp/main.cpp) over the dives of a       *)
(* transfer: the Smart parser (SmartParser) feeds a formatter (DiveOutput) *)
(* through its callbacks.  Parser and formatter both serve all the dives   *)
(* of a run, so that what one dive leaves in them meets the next.          *)
(***************************************************************************)
EXTENDS SmartParser, DiveOutput

CONSTANTS
  ParserModels,   \* dive computer models
  Data,           \* profiles: sequences of bytes
  Headers,        \* [o2, rep]: what a header says of the tanks and the group
  Strays,         \* what the memory behind a DTI table may hold
  MaxParsed,      \* dives per run
  MaxTime         \* bound on the clock, for a profile that never ends

ASSUME ParserAssumption ==
  /\ ParserModels \subseteq Models
  /\ \A d \in Data : d \in Seq(0 .. 255)
  /\ \A h \in Headers : h.o2 \in [1 .. 3 -> Nat] /\ h.rep \in Nat
  /\ \A dti \in Strays :   \* numbers of one byte
       dti.idx \in 0 .. 255 /\ dti.ntb \in 0 .. 255 /\ dti.extra \in 0 .. 255
  /\ MaxParsed \in Nat /\ MaxTime \in Nat

VARIABLES
  pc,      \* where run_parser stands
  model,   \* dev->model
  count,   \* dives begun
  hdr,     \* the dive's header
  data,    \* the dive's profile
  p,       \* the parser
  f,       \* the formatter
  offset,  \* position in the profile
  reach,   \* bytes of the profile read for the last DTI, from the front
  stray,   \* an entry behind the DTI table has been used
  known,   \* readings with an absolute value in this dive
  sent     \* the waypoints of this dive, as sequences of events

vars == <<pc, model, count, hdr, data, p, f, offset, reach, stray, known, sent>>

Init ==
  /\ pc = "next" /\ model \in ParserModels /\ count = 0
  /\ \E profile, hdr_complete \in BOOLEAN :
       f \in {uddf_init_formatter(profile), csv_init_formatter(profile, hdr_complete)}
  /\ p = NewParser
  /\ hdr \in Headers /\ data = <<>> /\ offset = 0 /\ reach = 0
  /\ stray = FALSE /\ known = {} /\ sent = <<>>

(* The prolog of the formatter and the reset of the parser.                *)
BeginDive ==
  /\ pc = "next" /\ count < MaxParsed
  /\ pc' = "header" /\ count' = count + 1
  /\ f' = prolog_fn(f)
  /\ p' = smart_parser_reset(p)
  /\ hdr' \in Headers /\ data' = <<>>
  /\ offset' = 0 /\ reach' = 0 /\ known' = {} /\ sent' = <<>>
  /\ UNCHANGED <<model, stray>>

(* The data may be shorter than a header, or not of the size that stands   *)
(* in the header: an error, and run_parser disposes of the formatter.      *)
ParseHeader ==
  /\ pc = "header"
  /\ \/ /\ pc' = "profile" /\ data' \in Data
        /\ f' = WithHeader(f, parse_header(model, hdr))
     \/ pc' = "failed" /\ UNCHANGED <<data, f>>
  /\ UNCHANGED <<model, count, hdr, p, offset, reach, stray, known, sent>>

-----------------------------------------------------------------------------
Code == identify(model, data, offset)

AtDti == pc = "profile" /\ p.complete = 0 /\ offset < Len(data)

(* Readings that have an absolute value in each of their records.          *)
Single == {"bearing", "alarms"}

(* One DTI with the entry dti of the table.                                *)
UseEntry(dti) ==
  IF Overflows(dti, data, offset)
    THEN /\ pc' = "failed" /\ reach' = ExtraAt(dti, offset)
         /\ UNCHANGED <<p, offset, known>>
    ELSE \E v \in {process_dti(dti, data, offset)} :
           /\ p' = parse_dti(p, dti, v)
           /\ offset' = v.offset /\ reach' = v.offset
           /\ known' = IF dti.abs \/ dti.type \in Single THEN known \cup {dti.type} ELSE known
           /\ UNCHANGED pc

ParseDti ==
  /\ AtDti /\ Code < Len(dti_table(model))
  /\ \E dti \in {dti_table(model)[Code + 1]} : UseEntry(dti)
  /\ UNCHANGED <<model, count, hdr, data, f, stray, sent>>

(* The check for a code that is too large lets the first one through.      *)
ParseStrayDti ==
  /\ AtDti /\ Code = Len(dti_table(model))
  /\ \E dti \in Strays : UseEntry(dti)
  /\ stray' = TRUE
  /\ UNCHANGED <<model, count, hdr, data, f, sent>>

InvalidDti ==
  /\ AtDti /\ Code > Len(dti_table(model))
  /\ pc' = "failed"
  /\ UNCHANGED <<model, count, hdr, data, p, f, offset, reach, stray, known, sent>>

SendWaypoint ==
  /\ pc = "profile" /\ p.complete > 0 /\ p.time < MaxTime
  /\ f' = WithWaypoint(f, Waypoint(p))
  /\ p' = WaypointDone(p)
  /\ sent' = Append(sent, Waypoint(p))
  /\ UNCHANGED <<pc, model, count, hdr, data, offset, reach, stray, known>>

EndDive ==
  /\ pc = "profile" /\ p.complete = 0 /\ offset >= Len(data)
  /\ pc' = "next" /\ f' = epilog_fn(f)
  /\ UNCHANGED <<model, count, hdr, data, p, offset, reach, stray, known, sent>>

(* The last dive is done: close_fn writes the document.                    *)
Finish ==
  /\ pc = "next" /\ pc' = "done"
  /\ UNCHANGED <<model, count, hdr, data, p, f, offset, reach, stray, known, sent>>

Next ==
  \/ BeginDive \/ ParseHeader \/ ParseDti \/ ParseStrayDti \/ InvalidDti
  \/ SendWaypoint \/ EndDive \/ Finish

Spec == Init /\ [][Next]_vars /\ WF_vars(Next)

-----------------------------------------------------------------------------
(* The variables hold values of their kinds.                               *)
TypeOK ==
  /\ pc \in {"next", "header", "profile", "failed", "done"}
  /\ model \in ParserModels /\ count \in 0 .. MaxParsed
  /\ hdr \in Headers /\ data \in Seq(0 .. 255)
  /\ p.time \in 0 .. MaxTime + 3 /\ p.complete \in Nat
  /\ p.tank \in TankIds \/ stray   \* any tank may stand behind a table
  /\ f.magic \in {"uddf", "csv"}
  /\ stray \in BOOLEAN

(* smart_identify, the check in smart_process_dti and the DTI tables fit   *)
(* together: no byte behind the data is read, not even for a record that   *)
(* is found to be too long.                                                *)
ReadsInside == ~stray => reach <= Len(data)

(* Every dive has a clock of its own that starts at 0 and gives a waypoint *)
(* every 4 seconds, whatever records the waypoints come from.              *)
WaypointsAreSpaced ==
  \A i \in 1 .. Len(sent) : sent[i][1] = Event("time", 4 * (i - 1), 0)

WithDepth == {i \in 1 .. Len(sent) : \E e \in ToSet(sent[i]) : e.token = "depth"}

Token(r) == IF r = "pressure" THEN "px" ELSE r

(* The parser is used for all dives of a run, and reset in between: a      *)
(* reading is sent only if this dive had an absolute value for it, and the *)
(* first depth of a dive is the surface it is calibrated to.               *)
ReadingsAreTheDivesOwn ==
  /\ \A i \in 1 .. Len(sent) : \A j \in 2 .. Len(sent[i]) :
       \E r \in known : sent[i][j].token = Token(r) \/ (r = "alarms" /\ sent[i][j].token = "alarm")
  /\ WithDepth # {} => Event("depth", 0, 0) \in ToSet(sent[Min(WithDepth)])

(* The events with one of the tokens, in their order.                      *)
Only(events, tokens) ==
  LET upto[n \in 0 .. Len(events)] ==
        IF n = 0 THEN <<>>
        ELSE IF events[n].token \in tokens THEN Append(upto[n - 1], events[n])
        ELSE upto[n - 1]
  IN upto[Len(events)]

Written == {"time", "depth", "temp", "alarm"}

(* Every element uddf_waypoint_cb writes finds its waypoint: the samples   *)
(* of the document are the ones the parser has sent, one waypoint each.    *)
UddfSamplesAreComplete ==
  f.magic = "uddf" /\ f.profile =>
    /\ f.lost = 0
    /\ f.samples = [i \in 1 .. Len(sent) |-> Only(sent[i], Written)]

Of(events, token) ==
  LET es == Only(events, {token})
  IN IF es = <<>> THEN 0 ELSE Last(es).value

RowOf(events) ==
  [time |-> Of(events, "time"), depth |-> Of(events, "depth"), temp |-> Of(events, "temp"),
   alarms |-> Len(Only(events, {"alarm"}))]

(* csv_waypoint_cb prints a waypoint when the next one begins, from a      *)
(* record it never clears: still the rows are the waypoints the parser has *)
(* sent, in their order, each with the readings and alarms of its own, and *)
(* no waypoint that another one follows is skipped.                        *)
CsvRowsAreOwn ==
  f.magic = "csv" /\ f.profile =>
    /\ Len(f.rows) \in Len(sent) - 1 .. Len(sent)
    /\ \A i \in 1 .. Len(f.rows) : f.rows[i] = RowOf(sent[i])

(* README.md: benthos-xfr transfers "all time/depth/temperature points     *)
(* recorded by the device", so once csv_epilog is done a dive has a row    *)
(* for each of its waypoints.                                              *)
CsvRowsAreComplete ==
  f.magic = "csv" /\ f.profile /\ pc = "next" => Len(f.rows) = Len(sent)

(* What the header says of tank t, for the UDDF and the CSV formatter.     *)
Oxygen(t, otherwise) ==
  IF \E e \in ToSet(Mixes(model, hdr)) : e.index = t /\ e.value # 0 THEN hdr.o2[t + 1]
  ELSE IF \E e \in ToSet(Pressures(model)) : e.index = t THEN otherwise
  ELSE None

(* Tanks get the gas of the dive's own header, through mixes that all the  *)
(* dives of a document share and that are numbered as they turn up.        *)
TanksHaveTheirGas ==
  /\ f.magic = "uddf" /\ pc = "next" /\ count > 0 =>
       \A t \in TankIds :
         IF Oxygen(t, 210) = None THEN f.links[t] = None
         ELSE {m.o2 : m \in {n \in f.mixes : n.id = f.links[t]}} = {Oxygen(t, 210)}
  /\ f.magic = "csv" /\ pc = "next" /\ f.titles > 0 =>
       /\ f.titles = 1
       /\ f.tankrows = [t \in TankIds |-> Oxygen(t, 209)]

(* A run over any data comes to its end: every DTI moves the offset on and *)
(* asks for a bounded number of waypoints.                                 *)
ParsingEnds == <>(pc \in {"done", "failed"} \/ stray)
=============================================================================
