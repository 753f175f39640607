------------------------------- MODULE Codecs -------------------------------
(***************************************************************************)
(* The conversions: base64 (common-util/base64.c), driver arguments        *)
(* (common-util/arglist.c), and plugin manifests (Manifest), each as a     *)
(* call with one of the inputs the constants give, against a definition    *)
(* that does not look at the algorithm.  Characters are ASCII codes for    *)
(* base64 and strings of length one for arguments.                         *)
(***************************************************************************)
EXTENDS Manifest

CONSTANTS
  Octets,     \* inputs to base64_encode, at least one byte long
  Characters, \* of the arguments
  Arguments,  \* lists of arguments [name, value], at least one
  Plugins     \* manifest documents

(* The arrays in which arglist_parse collects a name and a value hold so   *)
(* many characters with the 0 at the end; no test stops it there, so what  *)
(* it does with longer ones is undefined and none of them is an input.     *)
TextSize == 258

ASSUME CodecsAssumption ==
  /\ \A d \in Octets : d \in Seq(0 .. 255) /\ d # <<>>
  /\ \A args \in Arguments :
       /\ args \in Seq([name : Seq(Characters), value : Seq(Characters)]) /\ args # <<>>
       /\ \A i \in 1 .. Len(args) : Len(args[i].name) < TextSize /\ Len(args[i].value) < TextSize
  /\ \A doc \in Plugins : doc.root = "plugin" /\ IsDocument(doc)

VARIABLES call, input, out

callVars == <<call, input, out>>

-----------------------------------------------------------------------------
(* Base64.                                                                 *)

encoding_table ==
  [i \in 0 .. 63 |-> CASE i \in 0 .. 25 -> 65 + i     \* A to Z
                       [] i \in 26 .. 51 -> 71 + i    \* a to z
                       [] i \in 52 .. 61 -> i - 4     \* 0 to 9
                       [] i = 62 -> 43                \* +
                       [] i = 63 -> 47]               \* /

decoding_table ==
  [c \in 0 .. 255 |-> CASE c \in 65 .. 90 -> c - 65
                        [] c \in 97 .. 122 -> c - 71
                        [] c \in 48 .. 57 -> c + 4
                        [] c = 43 -> 62
                        [] c = 47 -> 63
                        [] OTHER -> -1]

Pad == 61   \* =

At(s, i) == IF i < Len(s) THEN s[i + 1] ELSE 0

(* Variant: the padding of one and of two missing octets is mixed up.      *)
mod_table_swapped(n) == n % 3

mod_table(n) == IF n % 3 = 0 THEN 0 ELSE 3 - (n % 3)

(* Octets that are missing from the last triple count as 0, and the        *)
(* letters of its empty sextets are overwritten by padding.                *)
base64_encode(data) ==
  LET output_length == (((Len(data) - 1) \div 3) * 4) + 4
      triple(k) == (At(data, 3 * k) * 65536) + (At(data, (3 * k) + 1) * 256)
                     + At(data, (3 * k) + 2)
  IN [j \in 1 .. output_length |->
        IF j > output_length - mod_table(Len(data)) THEN Pad
        ELSE encoding_table[(triple((j - 1) \div 4) \div (64 ^ (3 - ((j - 1) % 4)))) % 64]]

(* Variant: the second padding character is not looked at.                 *)
decoded_length_one(data) ==
  ((Len(data) \div 4) * 3) - (IF data[Len(data)] = Pad THEN 1 ELSE 0)

decoded_length(data) ==
  ((Len(data) \div 4) * 3) - (IF data[Len(data)] = Pad THEN 1 ELSE 0)
    - (IF data[Len(data) - 1] = Pad THEN 1 ELSE 0)

(* Letters that do not come in fours are no data.                          *)
base64_decode(data) ==
  IF Len(data) % 4 # 0 THEN <<>> ELSE
  LET sextet(i) == IF data[i] = Pad THEN 0 ELSE decoding_table[data[i]]
      triple(k) == (sextet((4 * k) + 1) * 262144) + (sextet((4 * k) + 2) * 4096)
                     + (sextet((4 * k) + 3) * 64) + sextet((4 * k) + 4)
  IN [j \in 1 .. decoded_length(data) |->
        (triple((j - 1) \div 3) \div (256 ^ (2 - ((j - 1) % 3)))) % 256]

EncodeData ==
  /\ call = "none" /\ call' = "base64"
  /\ input' \in Octets /\ out' = base64_encode(input')

-----------------------------------------------------------------------------
(* Driver arguments: name=value:name=value, = and : doubled to be literal. *)

Put(st, c) ==
  IF st.in_name THEN [st EXCEPT !.name = Append(@, c)] ELSE [st EXCEPT !.value = Append(@, c)]

Entry(st) ==
  [st EXCEPT !.list = Append(@, [name |-> st.name, value |-> st.value]),
             !.name = <<>>, !.value = <<>>, !.in_name = TRUE]

(* Positions count from 0.                                                 *)
Doubled(s, p) == p + 1 < Len(s) /\ s[p + 1] \in {"=", ":"} /\ s[p + 2] = s[p + 1]

(* Variant: the second one of two equal signs is looked at again.          *)
AfterDoubledOne(p) == p + 1

AfterDoubled(p) == p + 2

(* One round of the loop, at position st.p.                                *)
ScanArgument(s, st) ==
  LET c == s[st.p + 1]
      next == [st EXCEPT !.p = @ + 1]
  IN CASE Doubled(s, st.p) -> [Put(st, c) EXCEPT !.p = AfterDoubled(st.p)]
       [] ~Doubled(s, st.p) /\ c = "=" /\ st.in_name -> [next EXCEPT !.in_name = FALSE]
       [] ~Doubled(s, st.p) /\ c = "=" /\ ~st.in_name -> [st EXCEPT !.refused = TRUE]
       [] ~Doubled(s, st.p) /\ c = ":" -> Entry(next)
       [] ~Doubled(s, st.p) /\ c \notin {"=", ":"} -> Put(next, c)

ScanStart ==
  [p |-> 0, list |-> <<>>, name |-> <<>>, value |-> <<>>, in_name |-> TRUE, refused |-> FALSE]

(* No list is empty: the last entry is added also when the string ends in  *)
(* a colon, or is empty.                                                   *)
Refused == <<>>

arglist_parse(argstring) ==
  LET scanned[n \in 0 .. Len(argstring)] ==
        IF n = 0 THEN ScanStart
        ELSE LET st == scanned[n - 1]
             IN IF st.refused \/ st.p >= Len(argstring) THEN st ELSE ScanArgument(argstring, st)
      last == scanned[Len(argstring)]
  IN IF last.refused THEN Refused ELSE Entry(last).list

(* The string a user writes for a list of arguments, after arglist.h.      *)
Literal(c) == IF c \in {"=", ":"} THEN <<c, c>> ELSE <<c>>

Quote(s) ==
  LET upto[n \in 0 .. Len(s)] == IF n = 0 THEN <<>> ELSE upto[n - 1] \o Literal(s[n])
  IN upto[Len(s)]

WrittenAs(arg) == (Quote(arg.name) \o <<"=">>) \o Quote(arg.value)

WrittenList(args) ==
  LET upto[n \in 1 .. Len(args)] ==
        IF n = 1 THEN WrittenAs(args[1]) ELSE (upto[n - 1] \o <<":">>) \o WrittenAs(args[n])
  IN upto[Len(args)]

ParseArguments ==
  /\ call = "none" /\ call' = "arguments"
  /\ input' \in Arguments /\ out' = arglist_parse(WrittenList(input'))

-----------------------------------------------------------------------------
ParseManifest ==
  /\ call = "none" /\ call' = "manifest"
  /\ input' \in Plugins /\ out' = benthos_dc_manifest_parse(input')

(* The caller has what it called for.                                      *)
Return == call # "none" /\ call' = "none" /\ input' = <<>> /\ out' = <<>>

CallInit == call = "none" /\ input = <<>> /\ out = <<>>

CallNext == EncodeData \/ ParseArguments \/ ParseManifest \/ Return

CallSpec == CallInit /\ [][CallNext]_callVars

-----------------------------------------------------------------------------
BitOf(s, width, k) == (s[(k \div width) + 1] \div (2 ^ (width - 1 - (k % width)))) % 2

Sextet(c) == CHOOSE v \in 0 .. 63 : encoding_table[v] = c

(* base64_encode gives the bits of the data in their order, six to a       *)
(* letter, filled up with zeros; the letters are padded to a multiple of   *)
(* four.                                                                   *)
EncodeKeepsBits ==
  call = "base64" =>
    LET bits == 8 * Len(input)
    IN /\ Len(out) % 4 = 0
       /\ \E n \in Len(out) - 2 .. Len(out) :
            /\ \A i \in 1 .. Len(out) : out[i] = Pad <=> i > n
            /\ 6 * n \in bits .. bits + 5
            /\ \A k \in 0 .. (6 * n) - 1 :
                 BitOf([i \in 1 .. n |-> Sextet(out[i])], 6, k)
                   = IF k < bits THEN BitOf(input, 8, k) ELSE 0

(* The client's base64_decode gives back what the daemon encoded, with the *)
(* length it had.                                                          *)
DecodeInvertsEncode == call = "base64" => base64_decode(out) = input

(* Doubling is ambiguous where a literal follows a separator of its kind:  *)
(* a value that begins with =, and a name behind a : that begins with one. *)
AmbiguousList(args) ==
  \/ \E i \in 1 .. Len(args) : args[i].value # <<>> /\ Head(args[i].value) = "="
  \/ \E i \in 2 .. Len(args) : args[i].name # <<>> /\ Head(args[i].name) = ":"

(* arglist_parse gives back every list of arguments that is written as     *)
(* arglist.h asks for, unless the doubling is ambiguous; it is never taken *)
(* for an error.                                                           *)
ArgumentsRoundTrip == call = "arguments" /\ ~AmbiguousList(input) => out = input

(* A manifest that is accepted has only well-formed parts, and its drivers,*)
(* and the parameters and models of each driver, have different names: no  *)
(* second element of a kind hides a fault of an earlier one.  What it      *)
(* gives are all its drivers, in their order and under the names that      *)
(* conv_xmlstr has made of theirs.                                         *)
AcceptedIsSound ==
  (call = "manifest" /\ out.err = "none") =>
    LET from == input.elements
        m == out.val
    IN /\ input.plain /\ input.version \notin {Empty, Blank}
       /\ {input.name, input.library} \cap {Missing, Empty} = {}
       /\ \A i \in 1 .. Len(from) : WellFormedDriver(from[i])
       /\ \A i, j \in 1 .. Len(from) : i # j => ~SameName(DriverName(from[i]), DriverName(from[j]))
       /\ m.name = conv_xmlstr(input.name) /\ m.library = conv_xmlstr(input.library)
       /\ Len(m.drivers) = Len(from)
       /\ \A i \in 1 .. Len(from) : m.drivers[i].name = DriverName(from[i])
=============================================================================
