------------------------------ MODULE Manifest ------------------------------
(***************************************************************************)
(* The plugin manifest parser (library/manifest.cpp): from an XML document *)
(* to a list of drivers with their parameters and models, or an error.     *)
(* The document is abstracted to what the parser distinguishes: elements   *)
(* are records, an element the parser supports nowhere has tag "other",    *)
(* and plain is FALSE for an element with an unsupported attribute or with *)
(* elements where text belongs.  Missing is an attribute or a text that is *)
(* not there, Empty an attribute with the value "": libxml2 gives it no    *)
(* text node, and the parser follows the null pointer.  (Of an empty and   *)
(* an unsupported attribute, the first ends the parsing: a crash here may  *)
(* be an error there, but neither gives a manifest.)                       *)
(***************************************************************************)
EXTENDS Integers, Sequences, SequencesExt

CONSTANTS
  Missing, Empty,
  NoName,       \* the string ""
  Convertible,  \* strings of ISO-8859-1 characters, no more than 2047 of them
  Blank,        \* an attribute of white space only
  Unconverted,  \* the string "<invalid utf-8 string>"
  Lower,    \* names to their spelling in lower case: strcasecmp
  IdMod     \* model numbers are read modulo this; IdMod - 1 is stored as -1

Interfaces == {"serial", "usb", "bluetooth", "irda", "net"}
ParamTypes == {"string", "int", "uint", "float", "model"}

ASSUME ManifestAssumption ==
  /\ Missing # Empty /\ {Missing, Empty} \cap (Interfaces \cup ParamTypes) = {}
  /\ IdMod \in Nat \ {0} /\ {Missing, Empty} \cap 0 .. IdMod - 1 = {}
  /\ \A name \in DOMAIN Lower : Lower[name] \in DOMAIN Lower
  /\ {Missing, Empty} \cap (Convertible \cup {Unconverted}) = {}
  /\ NoName \notin Convertible \cup {Unconverted}

(* What a parsing function returns: what it has built, or why it stopped.  *)
Ok(v) == [err |-> "none", val |-> v]
Err(e) == [err |-> e, val |-> Missing]

(* The loops over elements and attributes: the first error ends them.      *)
ParseAll(parse(_, _), base, elements) ==
  LET upto[n \in 0 .. Len(elements)] ==
        IF n = 0 THEN Ok(base)
        ELSE LET before == upto[n - 1]
             IN IF before.err = "none" THEN parse(before.val, elements[n]) ELSE before
  IN upto[Len(elements)]

(* What iconv cannot convert, or does not fit, becomes one fixed string.   *)
conv_xmlstr(s) == IF s \in Convertible THEN s ELSE Unconverted

(* An attribute that may be missing.                                       *)
Converted(s) == IF s = Missing THEN Missing ELSE conv_xmlstr(s)

SameName(a, b) == Lower[a] = Lower[b]

Has(list, field, name) == \E i \in 1 .. Len(list) : SameName(list[i][field], name)

-----------------------------------------------------------------------------
parse_driver_desc(d, e) ==
  IF d.desc # Missing \/ e.text = Missing \/ ~e.plain THEN Err("parser")
  ELSE Ok([d EXCEPT !.desc = conv_xmlstr(e.text)])

parse_driver_intf(d, e) ==
  IF d.intf # Missing \/ ~e.plain \/ e.text \notin Interfaces THEN Err("parser")
  ELSE Ok([d EXCEPT !.intf = e.text])

NewParameter(d, p) ==
  LET name == conv_xmlstr(p.name) IN
  [d EXCEPT !.params = Append(@, [name |-> name, type |-> p.type, default |-> Converted(p.default)]),
            !.model_param = IF p.type = "model" THEN name ELSE @]

(* Variant: parameter names are compared as they are written.              *)
parse_parameter_case(d, p) ==
  IF p.name = Empty \/ p.type = Empty \/ p.default = Empty THEN Err("crash")
  ELSE IF \/ ~p.plain \/ p.name = Missing \/ p.type \notin ParamTypes
          \/ \E i \in 1 .. Len(d.params) : d.params[i].name = conv_xmlstr(p.name)
          \/ p.type = "model" /\ d.model_param # Missing
         THEN Err("parser")
         ELSE Ok(NewParameter(d, p))

(* One <parameter>: it has a name of its own and a type; at most one is of *)
(* the type model.                                                         *)
parse_parameter(d, p) ==
  IF p.name = Empty \/ p.type = Empty \/ p.default = Empty THEN Err("crash")
  ELSE IF \/ ~p.plain \/ p.name = Missing \/ p.type \notin ParamTypes
          \/ Has(d.params, "name", conv_xmlstr(p.name))
          \/ p.type = "model" /\ d.model_param # Missing
         THEN Err("parser")
         ELSE Ok(NewParameter(d, p))

(* sscanf("%u") into an int.  An id that is no number is an error like     *)
(* one that is missing.                                                    *)
Number(id) == IF id = IdMod - 1 THEN -1 ELSE id

driver_has_model(d, id, name) ==
  \E i \in 1 .. Len(d.models) : d.models[i].id = id \/ SameName(d.models[i].name, name)

NewModel(mfg, d, m) ==
  [d EXCEPT !.models = Append(@, [id |-> Number(m.id), name |-> conv_xmlstr(m.text),
                                  mfg |-> Converted(IF m.mfg = Missing THEN mfg ELSE m.mfg)])]

(* One <model>: -1 stands for "no id yet", and is what IdMod - 1 becomes.  *)
parse_model(mfg, d, m) ==
  IF m.id = Empty \/ m.mfg = Empty THEN Err("crash")
  ELSE IF \/ ~m.plain \/ m.id = Missing \/ Number(m.id) = -1 \/ m.text = Missing
          \/ driver_has_model(d, Number(m.id), conv_xmlstr(m.text))
         THEN Err("parser")
         ELSE Ok(NewModel(mfg, d, m))

parse_driver_models(d, e) ==
  IF ~e.plain THEN Err("parser")
  ELSE IF e.mfg = Empty THEN Err("crash")
  ELSE ParseAll(LAMBDA acc, m : parse_model(e.mfg, acc, m), d, e.list)

parse_driver_element(d, e) ==
  CASE e.tag = "description" -> parse_driver_desc(d, e)
    [] e.tag = "interface"   -> parse_driver_intf(d, e)
    [] e.tag = "parameters"  -> ParseAll(parse_parameter, d, e.list)
    [] e.tag = "models"      -> parse_driver_models(d, e)
    [] e.tag = "other"       -> Err("parser")

NewDriver(name) ==
  [name |-> name, desc |-> Missing, intf |-> Missing, model_param |-> Missing,
   params |-> <<>>, models |-> <<>>]

(* A driver without a name has the empty one.                              *)
DriverName(n) == IF n.name = Missing THEN NoName ELSE conv_xmlstr(n.name)

parse_driver(m, n) ==
  IF n.tag # "driver" \/ ~n.plain THEN Err("parser")
  ELSE IF n.name = Empty THEN Err("crash")
  ELSE LET d == ParseAll(parse_driver_element, NewDriver(DriverName(n)), n.elements) IN
       IF d.err # "none" THEN d
       ELSE IF Has(m.drivers, "name", d.val.name) THEN Err("parser")
       ELSE Ok([m EXCEPT !.drivers = Append(@, d.val)])

(* The version is read by sscanf and only a blank one is an error: what is *)
(* no version leaves the numbers as they are.                              *)
parse_manifest(root) ==
  IF Empty \in {root.name, root.library, root.version} THEN Err("crash")
  ELSE IF ~root.plain \/ root.version = Blank THEN Err("parser")
  ELSE IF root.name = Missing THEN Err("noname")
  ELSE IF root.library = Missing THEN Err("nolib")
  ELSE ParseAll(parse_driver,
                [name |-> conv_xmlstr(root.name), library |-> conv_xmlstr(root.library),
                 drivers |-> <<>>],
                root.elements)

(* A file holds no XML, XML without a root, with a root that is not        *)
(* <plugin>, or a plugin document.                                         *)
benthos_dc_manifest_parse(doc) ==
  CASE doc.root = "plugin" -> parse_manifest(doc)
    [] doc.root = "malformed" -> Err("malformed")
    [] doc.root = "none" -> Err("noroot")
    [] doc.root = "other" -> Err("notplugin")

-----------------------------------------------------------------------------
(* Documents.                                                              *)

(* What an XML document gives: elements of the five kinds, lists of        *)
(* entries, and ids that sscanf has read modulo IdMod.                     *)
IsElement(e) ==
  /\ e.tag \in {"description", "interface", "parameters", "models", "other"}
  /\ e.tag \in {"parameters", "models"} => e.list \in Seq(ToSet(e.list))
  /\ e.tag = "models" => \A m \in ToSet(e.list) : m.id \in (0 .. IdMod - 1) \cup {Missing, Empty}

IsDocument(doc) ==
  /\ doc.elements \in Seq(ToSet(doc.elements))
  /\ \A d \in ToSet(doc.elements) :
       d.elements \in Seq(ToSet(d.elements)) /\ \A e \in ToSet(d.elements) : IsElement(e)

(* What a driver has to be like, whichever of its parts is read first.     *)
Parts(d, tag) == {i \in 1 .. Len(d.elements) : d.elements[i].tag = tag}

(* The entries of all lists of a kind, by their places.                    *)
Entries(d, tag) == UNION {{i} \X (1 .. Len(d.elements[i].list)) : i \in Parts(d, tag)}

EntryAt(d, q) == d.elements[q[1]].list[q[2]]

GoodElement(e) ==
  /\ e.tag # "other"
  /\ e.tag \in {"description", "interface", "models"} => e.plain
  /\ e.tag = "description" => e.text # Missing
  /\ e.tag = "interface" => e.text \in Interfaces
  /\ e.tag = "models" => e.mfg # Empty

GoodParameter(p) ==
  p.plain /\ p.name \notin {Missing, Empty} /\ p.type \in ParamTypes /\ p.default # Empty

GoodModel(m) == m.plain /\ m.id \in 0 .. IdMod - 2 /\ m.mfg # Empty /\ m.text # Missing

WellFormedDriver(d) ==
  LET params == Entries(d, "parameters")
      models == Entries(d, "models")
      p(q) == EntryAt(d, q)
  IN /\ d.tag = "driver" /\ d.plain /\ d.name # Empty
     /\ \A i \in 1 .. Len(d.elements) : GoodElement(d.elements[i])
     /\ \A tag \in {"description", "interface"} : \A i, j \in Parts(d, tag) : i = j
     /\ \A q \in params : GoodParameter(p(q))
     /\ \A q, r \in params :
          q # r => /\ ~SameName(conv_xmlstr(p(q).name), conv_xmlstr(p(r).name))
                   /\ ~(p(q).type = "model" /\ p(r).type = "model")
     /\ \A q \in models : GoodModel(p(q))
     /\ \A q, r \in models :
          q # r => /\ p(q).id # p(r).id
                   /\ ~SameName(conv_xmlstr(p(q).text), conv_xmlstr(p(r).text))
=============================================================================
