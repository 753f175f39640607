------------------------------ MODULE MCLibrary -----------------------------
(* An instance of Library for TLC.  For the registry: plugins of which two *)
(* differ in case only and share their library with a third one, a plugin  *)
(* and a driver with a dot in their names, manifests that do not parse,    *)
(* and libraries in a directory and in a subdirectory.  For the            *)
(* conversions: octets at the ends of their range and around the sign bit, *)
(* arguments of separators and one letter, manifests with every element    *)
(* the parser knows, good and bad, alone and in pairs.                     *)
EXTENDS Library

UpTo(n, S) == UNION {[1 .. k -> S] : k \in 0 .. n}

MCNoName == <<"">>
MCUnconverted == <<"invalid">>

LowerPart(s) == CASE s = "Smart" -> "smart" [] s = "A" -> "a" [] OTHER -> s

(* The names there are, and what is left of them behind a dot.             *)
MCLower ==
  [n \in {<<p>> : p \in {"smart", "Smart", "libdc", "uwatec", "d", "a", "A", "b", "", "invalid"}}
          \cup {<<"uwatec", "smart">>, <<"smart", "d">>, <<"smart", "Smart">>, <<"smart", "smart">>}
     |-> [i \in 1 .. Len(n) |-> LowerPart(n[i])]]

(* pi and rho stand for names in letters that ISO-8859-1 does not have.    *)
MCConvertible == {<<n>> : n \in {"smart", "Smart", "libdc", "uwatec", "d", "a", "A", "b", "libsmart"}}
                   \cup {<<"uwatec", "smart">>, <<"smart", "d">>}

-----------------------------------------------------------------------------
(* The registry.                                                           *)

Driver(name, elements, plain, tag) ==
  [tag |-> tag, plain |-> plain, name |-> name, elements |-> elements]

Doc(name, library, version, plain, ds) ==
  [root |-> "plugin", plain |-> plain, name |-> name, library |-> library,
   version |-> version, elements |-> ds]

File(name, library, names) ==
  Doc(name, library, Missing, TRUE,
      [i \in 1 .. Len(names) |-> Driver(names[i], <<>>, TRUE, "driver")])

MCDocs == [ smart_xml |-> File(<<"smart">>, <<"libsmart">>, <<<<"smart">>>>),
            Smart_xml |-> File(<<"Smart">>, <<"libsmart">>, <<<<"smart">>, <<"d">>>>),
            libdc_xml |-> File(<<"libdc">>, <<"libdc">>, <<<<"uwatec">>, <<"smart", "d">>>>),
            copy_xml  |-> File(<<"uwatec", "smart">>, <<"libsmart">>, <<<<"Smart">>>>),
            bad_xml   |-> File(<<"libdc">>, <<"libdc">>, <<<<"pi">>, <<"rho">>>>),
            crash_xml |-> File(Empty, <<"libdc">>, <<>>) ]

MCLibs == [ libsmart_so |-> [symbols |-> Symbols, drivers |-> {<<"smart">>}],
            libdc_so |-> [symbols |-> Symbols, drivers |-> {<<"uwatec">>, <<"smart">>}],
            old_libdc_so |-> [symbols |-> {"plugin_load"}, drivers |-> {}] ]

MCDirs == [ manifests |-> <<"sub", "libdc_xml">>,
            sub |-> <<"bad_xml", "smart_xml">>,
            plugins |-> <<"libsmart_so">>,
            extra |-> <<"empty", "libdc_so", "crash_xml">>,
            empty |-> <<>> ]

MCMatches == {<<<<"libsmart">>, "libsmart_so">>, <<<<"libdc">>, "libdc_so">>,
              <<<<"libdc">>, "old_libdc_so">>}

-----------------------------------------------------------------------------
(* The conversions.                                                        *)

MCOctets == UpTo(4, {0, 7, 128, 255}) \ {<<>>}

MCCharacters == {"a", "=", ":"}

Words(n) == UpTo(n, MCCharacters)

Args(n) == [name : Words(n), value : Words(n)]

MCArguments == {<<x>> : x \in Args(2)} \cup {<<x, y>> : x \in Args(1), y \in Args(1)}

Param(name, type, default, plain) ==
  [name |-> name, type |-> type, default |-> default, plain |-> plain]

Model(id, text, mfg) == [id |-> id, text |-> text, mfg |-> mfg, plain |-> TRUE]

ParamLists ==
  UpTo(2, {Param(<<"a">>, "int", Missing, TRUE), Param(<<"A">>, "model", <<"a">>, TRUE),
           Param(<<"b">>, "model", Missing, TRUE), Param(<<"b">>, "bad", Missing, TRUE),
           Param(Missing, "int", Missing, TRUE), Param(Empty, "int", Missing, TRUE),
           Param(<<"b">>, "int", Empty, TRUE), Param(<<"b">>, "int", <<"pi">>, FALSE),
           Param(<<"pi">>, "int", Missing, TRUE), Param(<<"rho">>, "int", <<"pi">>, TRUE)})

ModelLists ==
  UpTo(2, {Model(1, <<"a">>, Missing), Model(1, <<"b">>, <<"b">>), Model(2, <<"A">>, Missing),
           Model(7, <<"b">>, Missing), Model(Missing, <<"b">>, Missing), Model(2, <<"b">>, Empty),
           Model(2, Missing, Missing), Model(3, <<"pi">>, Missing), Model(4, <<"rho">>, <<"pi">>)})

Params(list) == [tag |-> "parameters", list |-> list, plain |-> TRUE]
Group(list, mfg, plain) == [tag |-> "models", list |-> list, mfg |-> mfg, plain |-> plain]
TextOf(tag, text, plain) == [tag |-> tag, text |-> text, plain |-> plain]

Fixed ==
  {TextOf("description", <<"a">>, TRUE), TextOf("description", Missing, TRUE),
   TextOf("interface", "irda", TRUE), TextOf("interface", "b", TRUE),
   TextOf("interface", "usb", FALSE), [tag |-> "other"],
   Params(<<Param(<<"a">>, "int", Missing, TRUE)>>), Params(<<Param(<<"A">>, "model", Missing, TRUE)>>),
   Group(<<Model(1, <<"a">>, Missing)>>, <<"a">>, TRUE), Group(<<Model(2, <<"A">>, <<"b">>)>>, Missing, TRUE),
   Group(<<>>, Empty, TRUE), Group(<<>>, <<"a">>, FALSE)}

ElementLists ==
  {<<Params(l)>> : l \in ParamLists} \cup {<<Group(l, Missing, TRUE)>> : l \in ModelLists}
    \cup {<<>>} \cup {<<x>> : x \in Fixed} \cup {<<x, y>> : x \in Fixed, y \in Fixed}

OddDrivers ==
  {Driver(<<"a">>, <<>>, TRUE, "driver"), Driver(<<"A">>, <<>>, TRUE, "driver"),
   Driver(<<"pi">>, <<>>, TRUE, "driver"), Driver(<<"rho">>, <<>>, TRUE, "driver"),
   Driver(<<"b">>, <<>>, TRUE, "driver"), Driver(Missing, <<>>, TRUE, "driver"),
   Driver(Empty, <<>>, TRUE, "driver"), Driver(<<"b">>, <<>>, FALSE, "driver"),
   Driver(<<"b">>, <<>>, TRUE, "other"), Driver(<<"b">>, <<[tag |-> "other"]>>, TRUE, "driver")}

MCPlugins ==
  {Doc(<<"a">>, <<"a">>, <<"a">>, TRUE, <<Driver(<<"a">>, e, TRUE, "driver")>>) : e \in ElementLists}
    \cup {Doc(<<"a">>, <<"a">>, Missing, TRUE, ds) : ds \in UpTo(2, OddDrivers)}
    \cup {Doc(n, l, v, p, <<>>) : n \in {<<"a">>, <<"pi">>, Missing, Empty},
                                  l \in {<<"a">>, Missing, Empty},
                                  v \in {<<"a">>, Missing, Empty, Blank}, p \in BOOLEAN}
=============================================================================
