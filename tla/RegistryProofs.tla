--------------------------- MODULE RegistryProofs ---------------------------
(***************************************************************************)
(* Proofs about the plugin registry, for every file system, every set of   *)
(* manifests and every sequence of calls.  What the registry relies on is  *)
(* what the manifest parser builds: a list of drivers whose names differ.  *)
(* That is a fact about a loop over the elements of a document, shown by   *)
(* a smallest counterexample.                                              *)
(***************************************************************************)
EXTENDS Registry, ListLemmas, FiniteSetTheorems

-----------------------------------------------------------------------------
(* Manifests: the loops.                                                   *)

(* What the loops of the parser call for an element.                       *)
Parse(kind, mfg, acc, e) ==
  CASE kind = "parameter" -> parse_parameter(acc, e)
    [] kind = "model"     -> parse_model(mfg, acc, e)
    [] kind = "element"   -> parse_driver_element(acc, e)
    [] kind = "driver"    -> parse_driver(acc, e)

IsRun(f, kind, mfg, base, s, k) ==
  f = [n \in 0 .. k |->
         IF n = 0 THEN Ok(base)
         ELSE IF f[n - 1].err = "none" THEN Parse(kind, mfg, f[n - 1].val, s[n]) ELSE f[n - 1]]

(* A loop has a result after each element.                                 *)
LEMMA RunExists ==
  ASSUME NEW kind, NEW mfg, NEW base, NEW s, NEW L \in Nat
  PROVE  \E f : IsRun(f, kind, mfg, base, s, L)
  <1> DEFINE Turn(r, n) == IF r.err = "none" THEN Parse(kind, mfg, r.val, s[n]) ELSE r
             T == {k \in Nat : \E f : IsRun(f, kind, mfg, base, s, k)}
  <1>0. \A f, k : IsRun(f, kind, mfg, base, s, k)
                    <=> f = [n \in 0 .. k |-> IF n = 0 THEN Ok(base) ELSE Turn(f[n - 1], n)]
    BY Zenon DEF IsRun
  <1> HIDE DEF Turn
  <1>1. 0 \in T
    <2> DEFINE g == [n \in 0 .. 0 |-> Ok(base)]
    <2>1. g = [n \in 0 .. 0 |-> IF n = 0 THEN Ok(base) ELSE Turn(g[n - 1], n)] OBVIOUS
    <2> QED BY <1>0, <2>1
  <1>2. ASSUME NEW k \in (0 + 1) .. L, k - 1 \in T PROVE k \in T
    <2>1. PICK f : f = [n \in 0 .. (k - 1) |-> IF n = 0 THEN Ok(base) ELSE Turn(f[n - 1], n)]
      BY <1>0, <1>2
    <2> DEFINE g == [n \in 0 .. k |-> IF n < k THEN f[n] ELSE Turn(f[k - 1], k)]
    <2>2. \A n \in 0 .. (k - 1) : f[n] = IF n = 0 THEN Ok(base) ELSE Turn(f[n - 1], n) BY <2>1
    <2>3. \A n \in 0 .. k : g[n] = IF n = 0 THEN Ok(base) ELSE Turn(g[n - 1], n) BY <2>2
    <2>4. g = [n \in 0 .. k |-> IF n = 0 THEN Ok(base) ELSE Turn(g[n - 1], n)] BY <2>3
    <2> HIDE DEF g
    <2>5. IsRun(g, kind, mfg, base, s, k) BY <1>0, <2>4
    <2>6. k \in Nat OBVIOUS
    <2> QED BY <2>5, <2>6
  <1> HIDE DEF T
  <1>3. \A n \in 0 .. L : n \in T BY <1>1, <1>2, Upwards
  <1> QED BY <1>3 DEF T

(* The loop over parameters.                                               *)
LEMMA ParameterRun ==
  ASSUME NEW base, NEW s, Len(s) \in Nat
  PROVE  \E f : /\ IsRun(f, "parameter", Missing, base, s, Len(s))
                /\ ParseAll(parse_parameter, base, s) = f[Len(s)]
  <1> DEFINE h == CHOOSE f : IsRun(f, "parameter", Missing, base, s, Len(s))
  <1>1. IsRun(h, "parameter", Missing, base, s, Len(s)) BY RunExists
  <1>2. ParseAll(parse_parameter, base, s) = h[Len(s)] BY DEF ParseAll, IsRun, Parse
  <1> QED BY <1>1, <1>2

ParseModels(mfg, d, list) == ParseAll(LAMBDA acc, m : parse_model(mfg, acc, m), d, list)

(* The loop over models.                                                   *)
LEMMA ModelRun ==
  ASSUME NEW mfg, NEW base, NEW s, Len(s) \in Nat
  PROVE  \E f : /\ IsRun(f, "model", mfg, base, s, Len(s))
                /\ ParseModels(mfg, base, s) = f[Len(s)]
  <1> DEFINE h == CHOOSE f : IsRun(f, "model", mfg, base, s, Len(s))
  <1>1. IsRun(h, "model", mfg, base, s, Len(s)) BY RunExists
  <1>2. ParseModels(mfg, base, s) = h[Len(s)] BY DEF ParseModels, ParseAll, IsRun, Parse
  <1> QED BY <1>1, <1>2

(* The loop over the elements of a driver.                                 *)
LEMMA ElementRun ==
  ASSUME NEW base, NEW s, Len(s) \in Nat
  PROVE  \E f : /\ IsRun(f, "element", Missing, base, s, Len(s))
                /\ ParseAll(parse_driver_element, base, s) = f[Len(s)]
  <1> DEFINE h == CHOOSE f : IsRun(f, "element", Missing, base, s, Len(s))
  <1>1. IsRun(h, "element", Missing, base, s, Len(s)) BY RunExists
  <1>2. ParseAll(parse_driver_element, base, s) = h[Len(s)] BY DEF ParseAll, IsRun, Parse
  <1> QED BY <1>1, <1>2

(* The loop over the drivers of a plugin.                                  *)
LEMMA DriverRun ==
  ASSUME NEW base, NEW s, Len(s) \in Nat
  PROVE  \E f : /\ IsRun(f, "driver", Missing, base, s, Len(s))
                /\ ParseAll(parse_driver, base, s) = f[Len(s)]
  <1> DEFINE h == CHOOSE f : IsRun(f, "driver", Missing, base, s, Len(s))
  <1>1. IsRun(h, "driver", Missing, base, s, Len(s)) BY RunExists
  <1>2. ParseAll(parse_driver, base, s) = h[Len(s)] BY DEF ParseAll, IsRun, Parse
  <1> QED BY <1>1, <1>2

-----------------------------------------------------------------------------
(* Manifests: parameters and models.                                       *)

(* P and Q are places of entries in the lists of driver element D, b is    *)
(* the driver that the parser has built from them.                         *)
ParamsOk(D, P) ==
  /\ \A q \in P : GoodParameter(EntryAt(D, q))
  /\ \A q, r \in P : q # r =>
       /\ ~SameName(conv_xmlstr(EntryAt(D, q).name), conv_xmlstr(EntryAt(D, r).name))
       /\ ~(EntryAt(D, q).type = "model" /\ EntryAt(D, r).type = "model")

ModelsOk(D, Q) ==
  /\ \A q \in Q : GoodModel(EntryAt(D, q))
  /\ \A q, r \in Q : q # r =>
       /\ EntryAt(D, q).id # EntryAt(D, r).id
       /\ ~SameName(conv_xmlstr(EntryAt(D, q).text), conv_xmlstr(EntryAt(D, r).text))

ParamsBuilt(D, P, b) ==
  /\ IsList(b.params)
  /\ \A x : Has(b.params, "name", x) <=> \E q \in P : SameName(conv_xmlstr(EntryAt(D, q).name), x)
  /\ b.model_param # Missing <=> \E q \in P : EntryAt(D, q).type = "model"

ModelsBuilt(D, Q, b) ==
  /\ IsList(b.models)
  /\ \A id, x : driver_has_model(b, id, x)
                  <=> \E q \in Q : EntryAt(D, q).id = id \/ SameName(conv_xmlstr(EntryAt(D, q).text), x)

DriverFields == {"name", "desc", "intf", "model_param", "params", "models"}

(* Result r of parsing for driver b, when all entries at P (Q) were read.  *)
ParamsDone(D, P, b, r) ==
  /\ r.err = "none" <=> ParamsOk(D, P)
  /\ r.err = "none" =>
       /\ DOMAIN r.val = DriverFields /\ ParamsBuilt(D, P, r.val)
       /\ r.val.name = b.name /\ r.val.desc = b.desc /\ r.val.intf = b.intf
       /\ r.val.models = b.models

ModelsDone(D, Q, b, r) ==
  /\ r.err = "none" <=> ModelsOk(D, Q)
  /\ r.err = "none" =>
       /\ DOMAIN r.val = DriverFields /\ ModelsBuilt(D, Q, r.val)
       /\ r.val.name = b.name /\ r.val.desc = b.desc /\ r.val.intf = b.intf
       /\ r.val.params = b.params /\ r.val.model_param = b.model_param

(* What conv_xmlstr makes is a string, and not the empty one.              *)
LEMMA ConvertedNames ==
  \A s : conv_xmlstr(s) # Missing /\ conv_xmlstr(s) # NoName /\ IsName(conv_xmlstr(s))
  <1>1. \A s : conv_xmlstr(s) \in Convertible \cup {Unconverted} BY DEF conv_xmlstr
  <1>2. Missing \notin Convertible \cup {Unconverted} /\ NoName \notin Convertible \cup {Unconverted}
    BY ManifestAssumption
  <1>3. \A n \in Convertible \cup {Unconverted} : IsName(n) BY RegistryAssumption
  <1> QED BY <1>1, <1>2, <1>3

(* An entry more in a list of names.                                       *)
LEMMA HasMore ==
  ASSUME NEW list, IsList(list), NEW e, NEW x
  PROVE  Has(Append(list, e), "name", x) <=> Has(list, "name", x) \/ SameName(e.name, x)
  <1> DEFINE a == Append(list, e)
             n == Len(list)
  <1>1. /\ n \in Nat /\ Len(a) = n + 1 /\ a[n + 1] = e /\ \A i \in 1 .. n : a[i] = list[i]
    BY AppendIsList
  <1> HIDE DEF a, n
  <1>2. \A i \in 1 .. n + 1 : i \in 1 .. n \/ i = n + 1 BY <1>1
  <1>3. n + 1 \in 1 .. n + 1 /\ \A i \in 1 .. n : i \in 1 .. n + 1 BY <1>1
  <1>4. ASSUME Has(a, "name", x) PROVE Has(list, "name", x) \/ SameName(e.name, x)
    <2>1. PICK i \in 1 .. n + 1 : SameName(a[i].name, x) BY <1>1, <1>4 DEF Has
    <2> QED BY <1>1, <1>2, <2>1 DEF Has, n
  <1>5. ASSUME Has(list, "name", x) PROVE Has(a, "name", x)
    <2>1. PICK i \in 1 .. n : SameName(list[i].name, x) BY <1>5 DEF Has, n
    <2> QED BY <1>1, <1>3, <2>1 DEF Has
  <1>6. ASSUME SameName(e.name, x) PROVE Has(a, "name", x) BY <1>1, <1>3, <1>6 DEF Has
  <1> QED BY <1>4, <1>5, <1>6 DEF a

(* The same for models, which have an id as well.                          *)
LEMMA HasModelMore ==
  ASSUME NEW b, NEW c, IsList(b.models), NEW e, c.models = Append(b.models, e), NEW id, NEW x
  PROVE  driver_has_model(c, id, x)
           <=> driver_has_model(b, id, x) \/ e.id = id \/ SameName(e.name, x)
  <1> DEFINE list == b.models
             a == c.models
             n == Len(list)
  <1>1. /\ n \in Nat /\ Len(a) = n + 1 /\ a[n + 1] = e /\ \A i \in 1 .. n : a[i] = list[i]
    BY AppendIsList
  <1>2. /\ driver_has_model(c, id, x) <=> \E i \in 1 .. Len(a) : a[i].id = id \/ SameName(a[i].name, x)
        /\ driver_has_model(b, id, x) <=> \E i \in 1 .. n : list[i].id = id \/ SameName(list[i].name, x)
    BY DEF driver_has_model
  <1> HIDE DEF a, n, list
  <1>3. \A i \in 1 .. n + 1 : i \in 1 .. n \/ i = n + 1 BY <1>1
  <1>4. n + 1 \in 1 .. n + 1 /\ \A i \in 1 .. n : i \in 1 .. n + 1 BY <1>1
  <1> QED BY <1>1, <1>2, <1>3, <1>4

(* One parameter: it is accepted if the list is still well formed.         *)
LEMMA ParameterStep ==
  ASSUME NEW D, NEW P, NEW q, q \notin P, NEW b, DOMAIN b = DriverFields, ParamsOk(D, P),
         ParamsBuilt(D, P, b)
  PROVE  ParamsDone(D, P \cup {q}, b, parse_parameter(b, EntryAt(D, q)))
  <1> DEFINE p == EntryAt(D, q)
             r == parse_parameter(b, EntryAt(D, q))
             w == conv_xmlstr(p.name)
             e == [name |-> w, type |-> p.type, default |-> Converted(p.default)]
             c == [b EXCEPT !.params = Append(@, e),
                            !.model_param = IF p.type = "model" THEN w ELSE @]
             Fits == /\ GoodParameter(p) /\ ~Has(b.params, "name", w)
                     /\ ~(p.type = "model" /\ b.model_param # Missing)
  <1>1. /\ Fits => r = Ok(c)
        /\ ~Fits => r = Err("crash") \/ r = Err("parser")
    <2>1. r = IF p.name = Empty \/ p.type = Empty \/ p.default = Empty THEN Err("crash")
              ELSE IF \/ ~p.plain \/ p.name = Missing \/ p.type \notin ParamTypes
                      \/ Has(b.params, "name", w)
                      \/ p.type = "model" /\ b.model_param # Missing
                     THEN Err("parser") ELSE Ok(c)
      BY Zenon DEF parse_parameter, NewParameter
    <2>2. p.type \in ParamTypes => p.type # Empty
      <3> HIDE DEF p
      <3> QED BY ManifestAssumption
    <2> HIDE DEF p, w, c, r
    <2> QED BY <2>1, <2>2 DEF GoodParameter
  <1>2. /\ Ok(c).err = "none" /\ Ok(c).val = c
        /\ Err("crash").err # "none" /\ Err("parser").err # "none"
    BY DEF Ok, Err
  <1>3. /\ DOMAIN c = DriverFields /\ c.params = Append(b.params, e)
        /\ c.model_param = (IF p.type = "model" THEN w ELSE b.model_param)
        /\ c.name = b.name /\ c.desc = b.desc /\ c.intf = b.intf /\ c.models = b.models
    <2> HIDE DEF p, w, e
    <2> QED BY DEF DriverFields
  <1>4. e.name = w /\ w # Missing
    <2> HIDE DEF p
    <2> QED BY ConvertedNames
  <1> HIDE DEF p, w, e, c, r, Fits
  <1>5. Fits <=> ParamsOk(D, P \cup {q})
    <2>1. /\ Has(b.params, "name", w) <=> \E u \in P : SameName(conv_xmlstr(EntryAt(D, u).name), w)
          /\ b.model_param # Missing <=> \E u \in P : EntryAt(D, u).type = "model"
      BY DEF ParamsBuilt
    <2>2. ASSUME Fits PROVE ParamsOk(D, P \cup {q})
      <3>1. \A u \in P \cup {q} : GoodParameter(EntryAt(D, u))
        BY <2>2 DEF Fits, ParamsOk, p
      <3>2. \A u \in P : /\ ~SameName(conv_xmlstr(EntryAt(D, u).name), w)
                         /\ ~SameName(w, conv_xmlstr(EntryAt(D, u).name))
                         /\ ~(EntryAt(D, u).type = "model" /\ p.type = "model")
        BY <2>1, <2>2 DEF Fits, SameName
      <3> QED BY <3>1, <3>2, Zenon DEF ParamsOk, w, p
    <2>3. ASSUME ParamsOk(D, P \cup {q}) PROVE Fits
      <3>1. GoodParameter(p) BY <2>3 DEF ParamsOk, p
      <3>2. \A u \in P : /\ ~SameName(conv_xmlstr(EntryAt(D, u).name), w)
                         /\ ~(EntryAt(D, u).type = "model" /\ p.type = "model")
        BY <2>3 DEF ParamsOk, w, p
      <3> QED BY <2>1, <3>1, <3>2 DEF Fits
    <2> QED BY <2>2, <2>3
  <1>6. ASSUME Fits PROVE ParamsBuilt(D, P \cup {q}, c)
    <2>1. IsList(c.params) BY <1>3, AppendIsList DEF ParamsBuilt
    <2>2. ASSUME NEW x
          PROVE  Has(c.params, "name", x) <=> \E u \in P \cup {q} : SameName(conv_xmlstr(EntryAt(D, u).name), x)
      <3>1. Has(c.params, "name", x) <=> Has(b.params, "name", x) \/ SameName(w, x)
        BY <1>3, <1>4, HasMore DEF ParamsBuilt
      <3>2. Has(b.params, "name", x) <=> \E u \in P : SameName(conv_xmlstr(EntryAt(D, u).name), x)
        BY DEF ParamsBuilt
      <3> QED BY <3>1, <3>2 DEF w, p
    <2>3. c.model_param # Missing <=> \E u \in P \cup {q} : EntryAt(D, u).type = "model"
      <3>1. w # Missing BY <1>4
      <3>2. b.model_param # Missing <=> \E u \in P : EntryAt(D, u).type = "model"
        BY DEF ParamsBuilt
      <3> QED BY <1>3, <3>1, <3>2 DEF p
    <2> QED BY <2>1, <2>2, <2>3 DEF ParamsBuilt
  <1>7. ParamsDone(D, P \cup {q}, b, r) BY <1>1, <1>2, <1>3, <1>5, <1>6 DEF ParamsDone
  <1> QED BY <1>7 DEF r

(* One model: it is accepted if the list is still well formed.             *)
LEMMA ModelStep ==
  ASSUME NEW D, NEW Q, NEW q, q \notin Q, NEW b, DOMAIN b = DriverFields, ModelsOk(D, Q),
         ModelsBuilt(D, Q, b), NEW mfg,
         EntryAt(D, q).id \in (0 .. IdMod - 1) \cup {Missing, Empty}
  PROVE  ModelsDone(D, Q \cup {q}, b, parse_model(mfg, b, EntryAt(D, q)))
  <1> DEFINE m == EntryAt(D, q)
             r == parse_model(mfg, b, EntryAt(D, q))
             w == conv_xmlstr(m.text)
             e == [id |-> Number(m.id), name |-> w,
                   mfg |-> Converted(IF m.mfg = Missing THEN mfg ELSE m.mfg)]
             c == [b EXCEPT !.models = Append(@, e)]
             Fits == GoodModel(m) /\ ~driver_has_model(b, m.id, w)
  <1>0. /\ m.id \in 0 .. IdMod - 2 <=> m.id \notin {Missing, Empty} /\ Number(m.id) # -1
        /\ m.id \in 0 .. IdMod - 2 => Number(m.id) = m.id
    <2> DEFINE id == m.id
    <2>1. id \in (0 .. IdMod - 1) \cup {Missing, Empty} OBVIOUS
    <2> HIDE DEF id
    <2>2. IdMod \in Nat \ {0} /\ Missing \notin 0 .. IdMod - 1 /\ Empty \notin 0 .. IdMod - 1
      BY ManifestAssumption
    <2>3. /\ id \in 0 .. IdMod - 2 <=> id \notin {Missing, Empty} /\ Number(id) # -1
          /\ id \in 0 .. IdMod - 2 => Number(id) = id
      <3>1. CASE id \in 0 .. IdMod - 1 BY <2>2, <3>1 DEF Number
      <3>2. CASE id \in {Missing, Empty}
        <4>1. id \notin 0 .. IdMod - 1 BY <2>2, <3>2
        <4>2. \A i \in 0 .. IdMod - 2 : i \in 0 .. IdMod - 1 BY <2>2
        <4> QED BY <3>2, <4>1, <4>2
      <3> QED BY <2>1, <3>1, <3>2
    <2> QED BY <2>3 DEF id
  <1>1. /\ Fits => r = Ok(c)
        /\ ~Fits => r = Err("crash") \/ r = Err("parser")
    <2>1. r = IF m.id = Empty \/ m.mfg = Empty THEN Err("crash")
              ELSE IF \/ ~m.plain \/ m.id = Missing \/ Number(m.id) = -1 \/ m.text = Missing
                      \/ driver_has_model(b, Number(m.id), w)
                     THEN Err("parser") ELSE Ok(c)
      BY Zenon DEF parse_model, NewModel
    <2> HIDE DEF m, w, c, r
    <2> QED BY <1>0, <2>1 DEF GoodModel
  <1>2. /\ Ok(c).err = "none" /\ Ok(c).val = c
        /\ Err("crash").err # "none" /\ Err("parser").err # "none"
    BY DEF Ok, Err
  <1>3. /\ DOMAIN c = DriverFields /\ c.models = Append(b.models, e)
        /\ c.name = b.name /\ c.desc = b.desc /\ c.intf = b.intf
        /\ c.params = b.params /\ c.model_param = b.model_param
    <2> HIDE DEF m, w, e
    <2> QED BY DEF DriverFields
  <1>4. e.name = w /\ (Fits => e.id = m.id)
    <2> HIDE DEF m, w
    <2> QED BY <1>0 DEF GoodModel
  <1> HIDE DEF m, w, e, c, r, Fits
  <1>5. Fits <=> ModelsOk(D, Q \cup {q})
    <2>1. driver_has_model(b, m.id, w)
            <=> \E u \in Q : EntryAt(D, u).id = m.id \/ SameName(conv_xmlstr(EntryAt(D, u).text), w)
      BY DEF ModelsBuilt
    <2>2. ASSUME Fits PROVE ModelsOk(D, Q \cup {q})
      <3>1. \A u \in Q \cup {q} : GoodModel(EntryAt(D, u)) BY <2>2 DEF Fits, ModelsOk, m
      <3>2. \A u \in Q : /\ ~SameName(conv_xmlstr(EntryAt(D, u).text), w) /\ EntryAt(D, u).id # m.id
                         /\ ~SameName(w, conv_xmlstr(EntryAt(D, u).text))
        BY <2>1, <2>2 DEF Fits, SameName
      <3> QED BY <3>1, <3>2, Zenon DEF ModelsOk, w, m
    <2>3. ASSUME ModelsOk(D, Q \cup {q}) PROVE Fits
      <3>1. GoodModel(m) BY <2>3 DEF ModelsOk, m
      <3>2. \A u \in Q : ~SameName(conv_xmlstr(EntryAt(D, u).text), w) /\ EntryAt(D, u).id # m.id
        BY <2>3 DEF ModelsOk, w, m
      <3> QED BY <2>1, <3>1, <3>2 DEF Fits
    <2> QED BY <2>2, <2>3
  <1>6. ASSUME Fits PROVE ModelsBuilt(D, Q \cup {q}, c)
    <2>1. IsList(b.models) BY DEF ModelsBuilt
    <2>2. IsList(c.models) BY <1>3, <2>1, AppendIsList
    <2>3. ASSUME NEW id, NEW x
          PROVE  driver_has_model(c, id, x)
                   <=> \E u \in Q \cup {q} : EntryAt(D, u).id = id \/ SameName(conv_xmlstr(EntryAt(D, u).text), x)
      <3>1. driver_has_model(c, id, x)
              <=> driver_has_model(b, id, x) \/ e.id = id \/ SameName(e.name, x)
        BY <1>3, <2>1, HasModelMore
      <3>2. driver_has_model(b, id, x)
              <=> \E u \in Q : EntryAt(D, u).id = id \/ SameName(conv_xmlstr(EntryAt(D, u).text), x)
        BY DEF ModelsBuilt
      <3> QED BY <1>4, <1>6, <3>1, <3>2 DEF w, m
    <2> QED BY <2>2, <2>3 DEF ModelsBuilt
  <1>7. ModelsDone(D, Q \cup {q}, b, r) BY <1>1, <1>2, <1>3, <1>5, <1>6 DEF ModelsDone
  <1> QED BY <1>7 DEF r

-----------------------------------------------------------------------------
(* Manifests: lists of parameters and models.                              *)

(* The first k entries of the list of element i.                           *)
FirstPlaces(i, k) == {<<i, j>> : j \in 1 .. k}

(* A place more.                                                           *)
LEMMA FirstPlacesGrow ==
  ASSUME NEW i, NEW P, \A q \in P : q[1] # i
  PROVE  /\ P \cup FirstPlaces(i, 0) = P
         /\ \A k \in Nat \ {0} : /\ P \cup FirstPlaces(i, k) = (P \cup FirstPlaces(i, k - 1)) \cup {<<i, k>>}
                                 /\ <<i, k>> \notin P \cup FirstPlaces(i, k - 1)
  <1>1. FirstPlaces(i, 0) = {} BY DEF FirstPlaces
  <1>2. ASSUME NEW k \in Nat \ {0}
        PROVE  FirstPlaces(i, k) = FirstPlaces(i, k - 1) \cup {<<i, k>>} /\ <<i, k>> \notin FirstPlaces(i, k - 1)
    <2>1. \A j : j \in 1 .. k <=> j \in 1 .. (k - 1) \/ j = k OBVIOUS
    <2>2. k \notin 1 .. (k - 1) OBVIOUS
    <2> QED BY <2>1, <2>2 DEF FirstPlaces
  <1>3. \A k : <<i, k>>[1] = i OBVIOUS
  <1> QED BY <1>1, <1>2, <1>3

(* The loop over <parameter> elements finds what is not well formed in the *)
(* parameters so far.                                                      *)
LEMMA ParameterLoop ==
  ASSUME NEW D, NEW P, NEW i, \A q \in P : q[1] # i, NEW s, s = D.elements[i].list, Len(s) \in Nat,
         NEW b, DOMAIN b = DriverFields, ParamsOk(D, P), ParamsBuilt(D, P, b),
         NEW r, r = ParseAll(parse_parameter, b, s)
  PROVE  ParamsDone(D, P \cup FirstPlaces(i, Len(s)), b, r)
  <1> DEFINE PP(k) == P \cup FirstPlaces(i, k)
  <1>1. PICK f : IsRun(f, "parameter", Missing, b, s, Len(s)) /\ r = f[Len(s)] BY ParameterRun
  <1> DEFINE T == {k \in Nat : ParamsDone(D, PP(k), b, f[k])}
  <1>2. 0 \in T
    <2>1. f[0] = Ok(b) BY <1>1 DEF IsRun
    <2>2. f[0].err = "none" /\ f[0].val = b BY <2>1 DEF Ok
    <2>3. PP(0) = P BY FirstPlacesGrow
    <2> HIDE DEF PP
    <2>4. ParamsDone(D, PP(0), b, f[0]) BY <2>2, <2>3 DEF ParamsDone
    <2> QED BY <2>4
  <1>3. ASSUME NEW k \in (0 + 1) .. Len(s), k - 1 \in T PROVE k \in T
    <2> DEFINE q == <<i, k>>
               a == f[k - 1]
    <2>1. k \in Nat /\ k \in 0 .. Len(s) /\ k # 0 BY <1>3
    <2>2. PP(k) = PP(k - 1) \cup {q} /\ q \notin PP(k - 1) BY <2>1, FirstPlacesGrow
    <2>3. f[k] = IF a.err = "none" THEN Parse("parameter", Missing, a.val, s[k]) ELSE a
      <3> HIDE DEF T
      <3> QED BY <1>1, <2>1 DEF IsRun
    <2>4. EntryAt(D, q) = s[k] BY DEF EntryAt
    <2>5. ParamsDone(D, PP(k - 1), b, a) BY <1>3
    <2> HIDE DEF PP, q
    <2>6. CASE a.err = "none"
      <3>1. f[k] = parse_parameter(a.val, EntryAt(D, q)) BY <2>3, <2>4, <2>6 DEF Parse
      <3> DEFINE c == a.val
                 Z == PP(k - 1)
      <3>2. ParamsOk(D, Z) /\ DOMAIN c = DriverFields /\ ParamsBuilt(D, Z, c)
        BY <2>5, <2>6 DEF ParamsDone
      <3>3. c.name = b.name /\ c.desc = b.desc /\ c.intf = b.intf /\ c.models = b.models
        BY <2>5, <2>6 DEF ParamsDone
      <3>4. q \notin Z /\ PP(k) = Z \cup {q} BY <2>2
      <3>5. f[k] = parse_parameter(c, EntryAt(D, q)) BY <3>1
      <3> HIDE DEF a, c, Z, T
      <3>6. ParamsDone(D, Z \cup {q}, c, parse_parameter(c, EntryAt(D, q)))
        BY <3>2, <3>4, ParameterStep
      <3>7. ParamsDone(D, PP(k), b, f[k]) BY <3>3, <3>4, <3>5, <3>6 DEF ParamsDone
      <3> QED BY <2>1, <3>7 DEF T
    <2>7. CASE a.err # "none"
      <3>1. f[k] = a BY <2>3, <2>7
      <3>2. ~ParamsOk(D, PP(k - 1)) BY <2>5, <2>7 DEF ParamsDone
      <3>3. ParamsOk(D, PP(k - 1) \cup {q}) => ParamsOk(D, PP(k - 1)) BY DEF ParamsOk
      <3>4. ParamsDone(D, PP(k), b, f[k]) BY <2>2, <2>7, <3>1, <3>2, <3>3 DEF ParamsDone
      <3> QED BY <2>1, <3>4
    <2> QED BY <2>6, <2>7
  <1>4. ParamsDone(D, PP(Len(s)), b, f[Len(s)])
    <2> HIDE DEF T
    <2>1. \A k \in 0 .. Len(s) : k \in T BY <1>2, <1>3, Upwards
    <2>2. Len(s) \in T BY <2>1
    <2> QED BY <2>2 DEF T
  <1> QED BY <1>1, <1>4

(* The loop over <model> elements finds what is not well formed in the     *)
(* models so far.                                                          *)
LEMMA ModelLoop ==
  ASSUME NEW D, NEW P, NEW i, \A q \in P : q[1] # i, NEW s, s = D.elements[i].list, Len(s) \in Nat,
         NEW b, DOMAIN b = DriverFields, ModelsOk(D, P), ModelsBuilt(D, P, b), NEW mfg, NEW r,
         r = ParseModels(mfg, b, s),
         \A k \in 1 .. Len(s) : s[k].id \in (0 .. IdMod - 1) \cup {Missing, Empty}
  PROVE  ModelsDone(D, P \cup FirstPlaces(i, Len(s)), b, r)
  <1> DEFINE PP(k) == P \cup FirstPlaces(i, k)
  <1>1. PICK f : IsRun(f, "model", mfg, b, s, Len(s)) /\ r = f[Len(s)] BY ModelRun
  <1> DEFINE T == {k \in Nat : ModelsDone(D, PP(k), b, f[k])}
  <1>2. 0 \in T
    <2>1. f[0] = Ok(b) BY <1>1 DEF IsRun
    <2>2. f[0].err = "none" /\ f[0].val = b BY <2>1 DEF Ok
    <2>3. PP(0) = P BY FirstPlacesGrow
    <2> HIDE DEF PP
    <2>4. ModelsDone(D, PP(0), b, f[0]) BY <2>2, <2>3 DEF ModelsDone
    <2> QED BY <2>4
  <1>3. ASSUME NEW k \in (0 + 1) .. Len(s), k - 1 \in T PROVE k \in T
    <2> DEFINE q == <<i, k>>
               a == f[k - 1]
    <2>1. k \in Nat /\ k \in 0 .. Len(s) /\ k # 0 BY <1>3
    <2>2. PP(k) = PP(k - 1) \cup {q} /\ q \notin PP(k - 1) BY <2>1, FirstPlacesGrow
    <2>3. f[k] = IF a.err = "none" THEN Parse("model", mfg, a.val, s[k]) ELSE a
      <3> HIDE DEF T
      <3> QED BY <1>1, <2>1 DEF IsRun
    <2>4. EntryAt(D, q) = s[k] BY DEF EntryAt
    <2>8. EntryAt(D, q).id \in (0 .. IdMod - 1) \cup {Missing, Empty} BY <2>1, <2>4
    <2>5. ModelsDone(D, PP(k - 1), b, a) BY <1>3
    <2> HIDE DEF PP, q
    <2>6. CASE a.err = "none"
      <3>1. f[k] = parse_model(mfg, a.val, EntryAt(D, q)) BY <2>3, <2>4, <2>6 DEF Parse
      <3> DEFINE c == a.val
                 Z == PP(k - 1)
      <3>2. ModelsOk(D, Z) /\ DOMAIN c = DriverFields /\ ModelsBuilt(D, Z, c)
        BY <2>5, <2>6 DEF ModelsDone
      <3>3. /\ c.name = b.name /\ c.desc = b.desc /\ c.intf = b.intf
            /\ c.params = b.params /\ c.model_param = b.model_param
        BY <2>5, <2>6 DEF ModelsDone
      <3>4. q \notin Z /\ PP(k) = Z \cup {q} BY <2>2
      <3>5. f[k] = parse_model(mfg, c, EntryAt(D, q)) BY <3>1
      <3> HIDE DEF a, c, Z, T
      <3>6. ModelsDone(D, Z \cup {q}, c, parse_model(mfg, c, EntryAt(D, q)))
        BY <2>8, <3>2, <3>4, ModelStep
      <3>7. ModelsDone(D, PP(k), b, f[k]) BY <3>3, <3>4, <3>5, <3>6 DEF ModelsDone
      <3> QED BY <2>1, <3>7 DEF T
    <2>7. CASE a.err # "none"
      <3>1. f[k] = a BY <2>3, <2>7
      <3>2. ~ModelsOk(D, PP(k - 1)) BY <2>5, <2>7 DEF ModelsDone
      <3>3. ModelsOk(D, PP(k - 1) \cup {q}) => ModelsOk(D, PP(k - 1)) BY DEF ModelsOk
      <3>4. ModelsDone(D, PP(k), b, f[k]) BY <2>2, <2>7, <3>1, <3>2, <3>3 DEF ModelsDone
      <3> QED BY <2>1, <3>4
    <2> QED BY <2>6, <2>7
  <1>4. ModelsDone(D, PP(Len(s)), b, f[Len(s)])
    <2> HIDE DEF T
    <2>1. \A k \in 0 .. Len(s) : k \in T BY <1>2, <1>3, Upwards
    <2>2. Len(s) \in T BY <2>1
    <2> QED BY <2>2 DEF T
  <1> QED BY <1>1, <1>4

-----------------------------------------------------------------------------
(* Manifests: the elements of a driver.                                    *)

(* The entries in the lists of a kind among the first n elements.          *)
Upto(D, tag, n) == {q \in Entries(D, tag) : q[1] <= n}

Seen(D, tag, n) == \E i \in Parts(D, tag) : i <= n

Once(D, tag, n) == \A i, j \in Parts(D, tag) : i <= n /\ j <= n => i = j

ElementsOk(D, n) ==
  /\ \A i \in 1 .. n : GoodElement(D.elements[i])
  /\ Once(D, "description", n) /\ Once(D, "interface", n)
  /\ ParamsOk(D, Upto(D, "parameters", n)) /\ ModelsOk(D, Upto(D, "models", n))

ElementsBuilt(D, n, b) ==
  /\ DOMAIN b = DriverFields /\ b.name = DriverName(D)
  /\ b.desc # Missing <=> Seen(D, "description", n)
  /\ b.intf # Missing <=> Seen(D, "interface", n)
  /\ ParamsBuilt(D, Upto(D, "parameters", n), b) /\ ModelsBuilt(D, Upto(D, "models", n), b)

ElementsDone(D, n, r) ==
  (r.err = "none" <=> ElementsOk(D, n)) /\ (r.err = "none" => ElementsBuilt(D, n, r.val))

(* One element more, and the entries of its list.                          *)
LEMMA UptoGrows ==
  ASSUME NEW D, Len(D.elements) \in Nat, NEW tag
  PROVE  /\ Upto(D, tag, 0) = {} /\ Upto(D, tag, Len(D.elements)) = Entries(D, tag)
         /\ \A n \in 1 .. Len(D.elements) :
              /\ \A q \in Upto(D, tag, n - 1) : q[1] # n
              /\ D.elements[n].tag # tag => Upto(D, tag, n) = Upto(D, tag, n - 1)
              /\ D.elements[n].tag = tag =>
                   Upto(D, tag, n) = Upto(D, tag, n - 1) \cup FirstPlaces(n, Len(D.elements[n].list))
  <1> DEFINE L == Len(D.elements)
             len(i) == Len(D.elements[i].list)
  <1>1. \A q : q \in Entries(D, tag) <=>
                 \E i \in 1 .. L : D.elements[i].tag = tag /\ \E j \in 1 .. len(i) : q = <<i, j>>
    <2>1. \A q : q \in Entries(D, tag) <=> \E i \in Parts(D, tag) : q \in {i} \X (1 .. len(i))
      BY DEF Entries
    <2>2. \A i, q : q \in {i} \X (1 .. len(i)) <=> \E j \in 1 .. len(i) : q = <<i, j>> OBVIOUS
    <2>3. \A i : i \in Parts(D, tag) <=> i \in 1 .. L /\ D.elements[i].tag = tag BY DEF Parts
    <2> HIDE DEF L, len
    <2> QED BY <2>1, <2>2, <2>3
  <1>2. \A i, j : <<i, j>>[1] = i OBVIOUS
  <1> HIDE DEF len
  <1>3. \A n, q : q \in Upto(D, tag, n) <=>
                    \E i \in 1 .. L : /\ i <= n /\ D.elements[i].tag = tag
                                      /\ \E j \in 1 .. len(i) : q = <<i, j>>
    BY <1>1, <1>2 DEF Upto
  <1> HIDE DEF L
  <1>4. L \in Nat BY DEF L
  <1>5. Upto(D, tag, 0) = {}
    <2>1. \A i \in 1 .. L : ~(i <= 0) BY <1>4
    <2>2. \A q : q \notin Upto(D, tag, 0) BY <1>3, <2>1
    <2> QED BY <2>2
  <1>6. Upto(D, tag, L) = Entries(D, tag)
    <2>1. \A i \in 1 .. L : i <= L BY <1>4
    <2>2. \A q : q \in Upto(D, tag, L) <=> q \in Entries(D, tag) BY <1>1, <1>3, <2>1
    <2> QED BY <2>2
  <1>7. ASSUME NEW n \in 1 .. L
        PROVE  /\ \A q \in Upto(D, tag, n - 1) : q[1] # n
               /\ D.elements[n].tag # tag => Upto(D, tag, n) = Upto(D, tag, n - 1)
               /\ D.elements[n].tag = tag =>
                    Upto(D, tag, n) = Upto(D, tag, n - 1) \cup FirstPlaces(n, len(n))
    <2>1. \A i \in 1 .. L : i <= n <=> i <= n - 1 \/ i = n BY <1>4
    <2>2. ~(n <= n - 1) BY <1>4
    <2>3. \A q : q \in FirstPlaces(n, len(n)) <=> \E j \in 1 .. len(n) : q = <<n, j>> BY DEF FirstPlaces
    <2>4. \A q \in Upto(D, tag, n - 1) : q[1] # n BY <1>2, <1>3, <2>2
    <2>5. ASSUME D.elements[n].tag # tag PROVE Upto(D, tag, n) = Upto(D, tag, n - 1)
      <3>1. \A q : q \in Upto(D, tag, n) <=> q \in Upto(D, tag, n - 1) BY <1>3, <2>1, <2>5
      <3> QED BY <3>1
    <2>6. ASSUME D.elements[n].tag = tag
          PROVE  Upto(D, tag, n) = Upto(D, tag, n - 1) \cup FirstPlaces(n, len(n))
      <3>1. \A q : q \in Upto(D, tag, n) <=> q \in Upto(D, tag, n - 1) \/ q \in FirstPlaces(n, len(n))
        BY <1>3, <2>1, <2>3, <2>6
      <3> QED BY <3>1
    <2> QED BY <2>4, <2>5, <2>6
  <1> QED BY <1>5, <1>6, <1>7 DEF L, len

(* Elements that may be there once.                                        *)
LEMMA OnceMore ==
  ASSUME NEW D, Len(D.elements) \in Nat, NEW tag, NEW n \in 1 .. Len(D.elements)
  PROVE  /\ Seen(D, tag, n) <=> Seen(D, tag, n - 1) \/ D.elements[n].tag = tag
         /\ Once(D, tag, n) <=>
              Once(D, tag, n - 1) /\ (D.elements[n].tag = tag => ~Seen(D, tag, n - 1))
  <1> DEFINE L == Len(D.elements)
             S == Parts(D, tag)
  <1>1. \A i : i \in S <=> i \in 1 .. L /\ D.elements[i].tag = tag BY DEF Parts
  <1> HIDE DEF S
  <1>2. /\ \A i \in 1 .. L : i <= n <=> i <= n - 1 \/ i = n
        /\ ~(n <= n - 1) /\ n \in 1 .. L
    OBVIOUS
  <1>3. /\ Seen(D, tag, n) <=> \E i \in S : i <= n
        /\ Seen(D, tag, n - 1) <=> \E i \in S : i <= n - 1
        /\ Once(D, tag, n) <=> \A i, j \in S : i <= n /\ j <= n => i = j
        /\ Once(D, tag, n - 1) <=> \A i, j \in S : i <= n - 1 /\ j <= n - 1 => i = j
    BY DEF Seen, Once, S
  <1> HIDE DEF L
  <1>4. Seen(D, tag, n) <=> Seen(D, tag, n - 1) \/ D.elements[n].tag = tag
    BY <1>1, <1>2, <1>3
  <1>5. ASSUME Once(D, tag, n)
        PROVE  Once(D, tag, n - 1) /\ (D.elements[n].tag = tag => ~Seen(D, tag, n - 1))
    BY <1>1, <1>2, <1>3, <1>5
  <1>6. ASSUME Once(D, tag, n - 1), D.elements[n].tag = tag => ~Seen(D, tag, n - 1)
        PROVE  Once(D, tag, n)
    <2>1. ASSUME NEW i \in S, NEW j \in S, i <= n, j <= n PROVE i = j
      <3>1. (i <= n - 1 \/ i = n) /\ (j <= n - 1 \/ j = n) BY <1>1, <1>2, <2>1
      <3>2. n \in S => \A k \in S : ~(k <= n - 1) BY <1>1, <1>3, <1>6
      <3> QED BY <1>3, <1>6, <3>1, <3>2
    <2> QED BY <1>3, <2>1
  <1> QED BY <1>4, <1>5, <1>6

(* What is built depends on the lists only.                                *)
LEMMA BuiltSame ==
  ASSUME NEW D, NEW P, NEW b, NEW c
  PROVE  /\ ParamsBuilt(D, P, b) /\ c.params = b.params /\ c.model_param = b.model_param
              => ParamsBuilt(D, P, c)
         /\ ModelsBuilt(D, P, b) /\ c.models = b.models => ModelsBuilt(D, P, c)
  <1>1. ParamsBuilt(D, P, b) /\ c.params = b.params /\ c.model_param = b.model_param
              => ParamsBuilt(D, P, c)
    BY DEF ParamsBuilt
  <1>2. ASSUME ModelsBuilt(D, P, b), c.models = b.models PROVE ModelsBuilt(D, P, c)
    <2>1. \A id, x : driver_has_model(c, id, x) <=> driver_has_model(b, id, x)
      BY <1>2 DEF driver_has_model
    <2> QED BY <1>2, <2>1 DEF ModelsBuilt
  <1> QED BY <1>1, <1>2

(* One element: it is accepted if the driver is still well formed.         *)
LEMMA ElementStep ==
  ASSUME NEW D, Len(D.elements) \in Nat, NEW n \in 1 .. Len(D.elements),
         IsElement(D.elements[n]), NEW b, ElementsOk(D, n - 1), ElementsBuilt(D, n - 1, b)
  PROVE  ElementsDone(D, n, parse_driver_element(b, D.elements[n]))
  <1> DEFINE e == D.elements[n]
             r == parse_driver_element(b, e)
             U(k) == Upto(D, "parameters", k)
             V(k) == Upto(D, "models", k)
  <1>1. /\ e.tag # "parameters" => U(n) = U(n - 1)
        /\ e.tag # "models" => V(n) = V(n - 1)
        /\ e.tag = "parameters" => U(n) = U(n - 1) \cup FirstPlaces(n, Len(e.list))
        /\ e.tag = "models" => V(n) = V(n - 1) \cup FirstPlaces(n, Len(e.list))
        /\ \A q \in U(n - 1) : q[1] # n
        /\ \A q \in V(n - 1) : q[1] # n
    <2> DEFINE Grows(tag, k) ==
                 /\ \A q \in Upto(D, tag, k - 1) : q[1] # k
                 /\ D.elements[k].tag # tag => Upto(D, tag, k) = Upto(D, tag, k - 1)
                 /\ D.elements[k].tag = tag =>
                      Upto(D, tag, k) = Upto(D, tag, k - 1) \cup FirstPlaces(k, Len(D.elements[k].list))
    <2>1. \A k \in 1 .. Len(D.elements) : Grows("parameters", k) BY UptoGrows
    <2>2. \A k \in 1 .. Len(D.elements) : Grows("models", k) BY UptoGrows
    <2> HIDE DEF Grows
    <2>3. Grows("parameters", n) /\ Grows("models", n) BY <2>1, <2>2
    <2> QED BY <2>3 DEF Grows
  <1>2. /\ Seen(D, "description", n) <=> Seen(D, "description", n - 1) \/ e.tag = "description"
        /\ Seen(D, "interface", n) <=> Seen(D, "interface", n - 1) \/ e.tag = "interface"
        /\ Once(D, "description", n) <=>
             Once(D, "description", n - 1) /\ (e.tag = "description" => ~Seen(D, "description", n - 1))
        /\ Once(D, "interface", n) <=>
             Once(D, "interface", n - 1) /\ (e.tag = "interface" => ~Seen(D, "interface", n - 1))
    BY OnceMore
  <1>3. /\ e.tag \in {"description", "interface", "parameters", "models", "other"}
        /\ e.tag \in {"parameters", "models"} => Len(e.list) \in Nat
        /\ e.tag = "models" => \A k \in 1 .. Len(e.list) :
             e.list[k].id \in (0 .. IdMod - 1) \cup {Missing, Empty}
    <2> DEFINE l == e.list
    <2>1. IsElement(e) OBVIOUS
    <2> HIDE DEF e
    <2>2. e.tag \in {"parameters", "models"} => l \in Seq(ToSet(l)) BY <2>1 DEF IsElement
    <2>3. e.tag = "models" => \A m \in ToSet(l) : m.id \in (0 .. IdMod - 1) \cup {Missing, Empty}
      BY <2>1 DEF IsElement
    <2> HIDE DEF l
    <2>4. ASSUME e.tag \in {"parameters", "models"}
          PROVE  Len(l) \in Nat /\ \A k \in 1 .. Len(l) : l[k] \in ToSet(l)
      BY <2>2, <2>4, ElementOfSeq
    <2> QED BY <2>1, <2>3, <2>4 DEF l, IsElement
  <1>4. /\ DOMAIN b = DriverFields /\ b.name = DriverName(D)
        /\ b.desc # Missing <=> Seen(D, "description", n - 1)
        /\ b.intf # Missing <=> Seen(D, "interface", n - 1)
        /\ ParamsBuilt(D, U(n - 1), b) /\ ModelsBuilt(D, V(n - 1), b)
    BY DEF ElementsBuilt
  <1>5. ParamsOk(D, U(n - 1)) /\ ModelsOk(D, V(n - 1)) BY DEF ElementsOk
  <1>6. ElementsOk(D, n) <=>
          /\ GoodElement(e)
          /\ e.tag = "description" => ~Seen(D, "description", n - 1)
          /\ e.tag = "interface" => ~Seen(D, "interface", n - 1)
          /\ ParamsOk(D, U(n)) /\ ModelsOk(D, V(n))
    <2>1. \A i : i \in 1 .. n <=> i \in 1 .. (n - 1) \/ i = n OBVIOUS
    <2>2. (\A i \in 1 .. n : GoodElement(D.elements[i]))
            <=> (\A i \in 1 .. (n - 1) : GoodElement(D.elements[i])) /\ GoodElement(e)
      BY <2>1
    <2> QED BY <1>2, <2>2 DEF ElementsOk
  <1>7. ElementsBuilt(D, n, r.val) <=>
          /\ DOMAIN r.val = DriverFields /\ r.val.name = DriverName(D)
          /\ r.val.desc # Missing <=> Seen(D, "description", n)
          /\ r.val.intf # Missing <=> Seen(D, "interface", n)
          /\ ParamsBuilt(D, U(n), r.val) /\ ModelsBuilt(D, V(n), r.val)
    BY DEF ElementsBuilt
  <1>8. Err("parser").err # "none" /\ Err("crash").err # "none" BY DEF Err
  <1>9. \A x : Ok(x).err = "none" /\ Ok(x).val = x BY DEF Ok
  <1> HIDE DEF U, V
  <1> SUFFICES /\ r.err = "none" <=> ElementsOk(D, n)
               /\ r.err = "none" => ElementsBuilt(D, n, r.val)
    BY DEF ElementsDone
  <1>10. CASE e.tag = "description"
    <2> DEFINE w == conv_xmlstr(e.text)
               c == [b EXCEPT !.desc = w]
    <2>1. r = IF b.desc # Missing \/ e.text = Missing \/ ~e.plain THEN Err("parser") ELSE Ok(c)
      BY <1>10 DEF parse_driver_element, parse_driver_desc
    <2>2. GoodElement(e) <=> e.plain /\ e.text # Missing
      <3> HIDE DEF e
      <3> QED BY <1>10 DEF GoodElement
    <2>3. /\ DOMAIN c = DriverFields /\ c.desc = w /\ w # Missing /\ c.name = b.name /\ c.intf = b.intf
          /\ c.params = b.params /\ c.model_param = b.model_param /\ c.models = b.models
      <3>1. w # Missing BY ConvertedNames
      <3> HIDE DEF e, w
      <3> QED BY <1>4, <3>1 DEF DriverFields
    <2>4. e.tag # "interface" /\ e.tag # "parameters" /\ e.tag # "models" BY <1>10
    <2>5. U(n) = U(n - 1) /\ V(n) = V(n - 1) BY <1>1, <2>4
    <2> HIDE DEF e, r, c
    <2>6. ParamsBuilt(D, U(n), c) /\ ModelsBuilt(D, V(n), c) BY <1>4, <2>3, <2>5, BuiltSame
    <2>7. ElementsOk(D, n) <=> e.plain /\ e.text # Missing /\ ~Seen(D, "description", n - 1)
      BY <1>5, <1>6, <1>10, <2>2, <2>4, <2>5
    <2>8. r.err = "none" <=> ~(b.desc # Missing \/ e.text = Missing \/ ~e.plain) BY <1>8, <1>9, <2>1
    <2>9. r.err = "none" => r.val = c BY <1>8, <1>9, <2>1
    <2> QED BY <1>2, <1>4, <1>7, <1>10, <2>3, <2>4, <2>6, <2>7, <2>8, <2>9
  <1>11. CASE e.tag = "interface"
    <2> DEFINE c == [b EXCEPT !.intf = e.text]
    <2>1. r = IF b.intf # Missing \/ ~e.plain \/ e.text \notin Interfaces THEN Err("parser") ELSE Ok(c)
      BY <1>11 DEF parse_driver_element, parse_driver_intf
    <2>2. GoodElement(e) <=> e.plain /\ e.text \in Interfaces
      <3> HIDE DEF e
      <3> QED BY <1>11 DEF GoodElement
    <2>3. /\ DOMAIN c = DriverFields /\ c.intf = e.text /\ c.name = b.name /\ c.desc = b.desc
          /\ c.params = b.params /\ c.model_param = b.model_param /\ c.models = b.models
      <3> HIDE DEF e
      <3> QED BY <1>4 DEF DriverFields
    <2>4. e.tag # "description" /\ e.tag # "parameters" /\ e.tag # "models" BY <1>11
    <2>5. U(n) = U(n - 1) /\ V(n) = V(n - 1) BY <1>1, <2>4
    <2> HIDE DEF e, r, c
    <2>6. ParamsBuilt(D, U(n), c) /\ ModelsBuilt(D, V(n), c) BY <1>4, <2>3, <2>5, BuiltSame
    <2>7. ElementsOk(D, n) <=> e.plain /\ e.text \in Interfaces /\ ~Seen(D, "interface", n - 1)
      BY <1>5, <1>6, <1>11, <2>2, <2>4, <2>5
    <2>8. r.err = "none" <=> ~(b.intf # Missing \/ ~e.plain \/ e.text \notin Interfaces)
      BY <1>8, <1>9, <2>1
    <2>9. r.err = "none" => r.val = c /\ e.text \in Interfaces BY <1>8, <1>9, <2>1
    <2>10. e.text \in Interfaces => e.text # Missing BY ManifestAssumption
    <2> QED BY <1>2, <1>4, <1>7, <1>11, <2>3, <2>4, <2>6, <2>7, <2>8, <2>9, <2>10
  <1>12. CASE e.tag = "parameters"
    <2> DEFINE s == D.elements[n].list
    <2>1. r = ParseAll(parse_parameter, b, s) BY <1>12 DEF parse_driver_element
    <2>2. GoodElement(e)
      <3> HIDE DEF e
      <3> QED BY <1>12 DEF GoodElement
    <2>3. s = D.elements[n].list /\ Len(s) \in Nat /\ U(n) = U(n - 1) \cup FirstPlaces(n, Len(s))
      BY <1>1, <1>3, <1>12
    <2>4. e.tag # "description" /\ e.tag # "interface" /\ e.tag # "models" BY <1>12
    <2>5. V(n) = V(n - 1) BY <1>1, <2>4
    <2> HIDE DEF e, r, s
    <2>6. ParamsDone(D, U(n - 1) \cup FirstPlaces(n, Len(s)), b, r)
      BY <1>1, <1>4, <1>5, <2>1, <2>3, ParameterLoop
    <2>7. ElementsOk(D, n) <=> ParamsOk(D, U(n)) BY <1>5, <1>6, <2>2, <2>4, <2>5
    <2>8. ASSUME r.err = "none" PROVE ElementsBuilt(D, n, r.val)
      <3>1. /\ DOMAIN r.val = DriverFields /\ ParamsBuilt(D, U(n), r.val)
            /\ r.val.name = b.name /\ r.val.desc = b.desc /\ r.val.intf = b.intf
            /\ r.val.models = b.models
        BY <2>3, <2>6, <2>8 DEF ParamsDone
      <3>2. ModelsBuilt(D, V(n), r.val) BY <1>4, <2>5, <3>1, BuiltSame
      <3> QED BY <1>2, <1>4, <1>7, <2>4, <3>1, <3>2
    <2>9. r.err = "none" <=> ParamsOk(D, U(n)) BY <2>3, <2>6 DEF ParamsDone
    <2> QED BY <2>7, <2>8, <2>9
  <1>13. CASE e.tag = "models"
    <2> DEFINE s == D.elements[n].list
               p == ParseModels(e.mfg, b, s)
    <2>1. r = IF ~e.plain THEN Err("parser") ELSE IF e.mfg = Empty THEN Err("crash") ELSE p
      BY <1>13, Zenon DEF parse_driver_element, parse_driver_models, ParseModels
    <2>2. GoodElement(e) <=> e.plain /\ e.mfg # Empty
      <3> HIDE DEF e
      <3> QED BY <1>13 DEF GoodElement
    <2>3. /\ s = D.elements[n].list /\ Len(s) \in Nat /\ V(n) = V(n - 1) \cup FirstPlaces(n, Len(s))
          /\ \A k \in 1 .. Len(s) : s[k].id \in (0 .. IdMod - 1) \cup {Missing, Empty}
      BY <1>1, <1>3, <1>13
    <2>4. e.tag # "description" /\ e.tag # "interface" /\ e.tag # "parameters" BY <1>13
    <2>5. U(n) = U(n - 1) BY <1>1, <2>4
    <2> HIDE DEF e, r, s
    <2>6. ModelsDone(D, V(n - 1) \cup FirstPlaces(n, Len(s)), b, p)
      BY <1>1, <1>4, <1>5, <2>3, ModelLoop
    <2> HIDE DEF p
    <2>7. ElementsOk(D, n) <=> e.plain /\ e.mfg # Empty /\ ModelsOk(D, V(n))
      BY <1>5, <1>6, <2>2, <2>4, <2>5
    <2>8. ASSUME r.err = "none" PROVE ElementsBuilt(D, n, r.val)
      <3>1. r = p BY <1>8, <2>1, <2>8
      <3>2. /\ DOMAIN r.val = DriverFields /\ ModelsBuilt(D, V(n), r.val)
            /\ r.val.name = b.name /\ r.val.desc = b.desc /\ r.val.intf = b.intf
            /\ r.val.params = b.params /\ r.val.model_param = b.model_param
        BY <2>3, <2>6, <2>8, <3>1 DEF ModelsDone
      <3>3. ParamsBuilt(D, U(n), r.val) BY <1>4, <2>5, <3>2, BuiltSame
      <3> QED BY <1>2, <1>4, <1>7, <2>4, <3>2, <3>3
    <2>9. p.err = "none" <=> ModelsOk(D, V(n)) BY <2>3, <2>6 DEF ModelsDone
    <2> QED BY <1>8, <2>1, <2>7, <2>8, <2>9
  <1>14. CASE e.tag = "other"
    <2>1. r = Err("parser") BY <1>14 DEF parse_driver_element
    <2>2. ~GoodElement(e)
      <3> HIDE DEF e
      <3> QED BY <1>14 DEF GoodElement
    <2> QED BY <1>6, <1>8, <2>1, <2>2
  <1> QED BY <1>3, <1>10, <1>11, <1>12, <1>13, <1>14

(* Elements that are well formed were so before the last one.              *)
LEMMA ElementsBefore ==
  ASSUME NEW D, Len(D.elements) \in Nat, NEW n \in 1 .. Len(D.elements), ElementsOk(D, n)
  PROVE  ElementsOk(D, n - 1)
  <1>1. \A i \in 1 .. (n - 1) : i \in 1 .. n OBVIOUS
  <1>2. \A i \in 1 .. Len(D.elements) : i <= n - 1 => i <= n OBVIOUS
  <1>3. \A tag : \A i \in Parts(D, tag) : i \in 1 .. Len(D.elements) BY DEF Parts
  <1>4. \A tag : Once(D, tag, n) => Once(D, tag, n - 1) BY <1>2, <1>3 DEF Once
  <1>5. ASSUME NEW tag PROVE Upto(D, tag, n - 1) \subseteq Upto(D, tag, n)
    <2>1. ASSUME NEW q \in Entries(D, tag) PROVE q[1] \in Parts(D, tag) BY <2>1 DEF Entries
    <2> QED BY <1>2, <1>3, <2>1 DEF Upto
  <1>6. ParamsOk(D, Upto(D, "parameters", n - 1))
    <2> DEFINE U == Upto(D, "parameters", n - 1)
               W == Upto(D, "parameters", n)
    <2>1. U \subseteq W /\ ParamsOk(D, W) BY <1>5 DEF ElementsOk
    <2> HIDE DEF U, W
    <2>2. ParamsOk(D, U) BY <2>1 DEF ParamsOk
    <2> QED BY <2>2 DEF U
  <1>7. ModelsOk(D, Upto(D, "models", n - 1))
    <2> DEFINE U == Upto(D, "models", n - 1)
               W == Upto(D, "models", n)
    <2>1. U \subseteq W /\ ModelsOk(D, W) BY <1>5 DEF ElementsOk
    <2> HIDE DEF U, W
    <2>2. ModelsOk(D, U) BY <2>1 DEF ModelsOk
    <2> QED BY <2>2 DEF U
  <1> QED BY <1>1, <1>4, <1>6, <1>7 DEF ElementsOk

(* Before the first element there is a driver with nothing but its name.   *)
LEMMA NoElements ==
  ASSUME NEW D, Len(D.elements) \in Nat
  PROVE  ElementsOk(D, 0) /\ ElementsBuilt(D, 0, NewDriver(DriverName(D)))
  <1> DEFINE x == DriverName(D)
             b == NewDriver(x)
  <1>1. \A tag : \A i \in Parts(D, tag) : ~(i <= 0) BY DEF Parts
  <1>2. \A tag : Once(D, tag, 0) /\ ~Seen(D, tag, 0) BY <1>1 DEF Once, Seen
  <1>3. Upto(D, "parameters", 0) = {} BY UptoGrows
  <1>4. Upto(D, "models", 0) = {} BY UptoGrows
  <1>5. ParamsOk(D, {}) /\ ModelsOk(D, {}) BY DEF ParamsOk, ModelsOk
  <1>6. ElementsOk(D, 0)
    <2>1. \A i \in 1 .. 0 : FALSE OBVIOUS
    <2>2. \A i \in 1 .. 0 : GoodElement(D.elements[i]) BY <2>1
    <2> QED BY <1>2, <1>3, <1>4, <1>5, <2>2 DEF ElementsOk
  <1> HIDE DEF x
  <1>7. /\ DOMAIN b = DriverFields /\ b.name = x /\ b.desc = Missing /\ b.intf = Missing
        /\ b.model_param = Missing /\ b.params = <<>> /\ b.models = <<>>
    BY DEF NewDriver, DriverFields
  <1> HIDE DEF b
  <1>8. IsList(<<>>) /\ Len(<<>>) = 0
    <2>1. <<>> \in Seq({}) OBVIOUS
    <2> QED BY <2>1, SequenceIsList
  <1>9. ParamsBuilt(D, {}, b) BY <1>7, <1>8 DEF ParamsBuilt, Has
  <1>10. ModelsBuilt(D, {}, b) BY <1>7, <1>8 DEF ModelsBuilt, driver_has_model
  <1>11. ElementsBuilt(D, 0, b) BY <1>2, <1>3, <1>4, <1>7, <1>9, <1>10 DEF ElementsBuilt, x
  <1> QED BY <1>6, <1>11 DEF b, x

(* The loop over the elements of a driver finds what is not well formed.   *)
LEMMA ElementLoop ==
  ASSUME NEW D, Len(D.elements) \in Nat,
         \A n \in 1 .. Len(D.elements) : IsElement(D.elements[n])
  PROVE  ElementsDone(D, Len(D.elements),
                      ParseAll(parse_driver_element, NewDriver(DriverName(D)), D.elements))
  <1> DEFINE s == D.elements
             b == NewDriver(DriverName(D))
             r == ParseAll(parse_driver_element, b, s)
  <1>0. Len(s) \in Nat /\ ElementsOk(D, 0) /\ ElementsBuilt(D, 0, b) BY NoElements
  <1>1. \E f : IsRun(f, "element", Missing, b, s, Len(s)) /\ r = f[Len(s)]
    <2> HIDE DEF b, s
    <2> QED BY <1>0, ElementRun
  <1> HIDE DEF b, r
  <1>2. PICK f : IsRun(f, "element", Missing, b, s, Len(s)) /\ r = f[Len(s)] BY <1>1
  <1> DEFINE T == {k \in Nat : ElementsDone(D, k, f[k])}
  <1>3. 0 \in T
    <2>1. f[0] = Ok(b) BY <1>0, <1>2 DEF IsRun
    <2>2. f[0].err = "none" /\ f[0].val = b BY <2>1 DEF Ok
    <2>3. ElementsDone(D, 0, f[0]) BY <1>0, <2>2 DEF ElementsDone
    <2> QED BY <2>3
  <1>4. ASSUME NEW k \in (0 + 1) .. Len(s), k - 1 \in T PROVE k \in T
    <2> DEFINE a == f[k - 1]
    <2>1. k \in Nat /\ k \in 0 .. Len(s) /\ k \in 1 .. Len(s) /\ k # 0 BY <1>4
    <2>2. f[k] = IF a.err = "none" THEN Parse("element", Missing, a.val, s[k]) ELSE a
      <3> HIDE DEF T, s
      <3> QED BY <1>2, <2>1 DEF IsRun
    <2>3. ElementsDone(D, k - 1, a) BY <1>4
    <2> HIDE DEF a, T
    <2>4. CASE a.err = "none"
      <3>1. f[k] = parse_driver_element(a.val, D.elements[k]) BY <2>2, <2>4 DEF Parse
      <3> DEFINE c == a.val
      <3>2. ElementsOk(D, k - 1) /\ ElementsBuilt(D, k - 1, c) BY <2>3, <2>4 DEF ElementsDone
      <3>3. IsElement(D.elements[k]) BY <2>1
      <3> HIDE DEF c
      <3>4. ElementsDone(D, k, parse_driver_element(c, D.elements[k]))
        BY <2>1, <3>2, <3>3, ElementStep
      <3> QED BY <2>1, <3>1, <3>4 DEF c, T
    <2>5. CASE a.err # "none"
      <3>1. f[k] = a BY <2>2, <2>5
      <3>2. ~ElementsOk(D, k - 1) BY <2>3, <2>5 DEF ElementsDone
      <3>3. ~ElementsOk(D, k) BY <2>1, <3>2, ElementsBefore
      <3>4. ElementsDone(D, k, f[k]) BY <2>5, <3>1, <3>3 DEF ElementsDone
      <3> QED BY <2>1, <3>4 DEF T
    <2> QED BY <2>4, <2>5
  <1>5. ElementsDone(D, Len(s), f[Len(s)])
    <2> HIDE DEF T, s
    <2>1. \A k \in 0 .. Len(s) : k \in T BY <1>0, <1>3, <1>4, Upwards
    <2>2. Len(s) \in T BY <1>0, <2>1
    <2> QED BY <2>2 DEF T
  <1> QED BY <1>2, <1>5 DEF b, r

(* A driver's elements are all read: it is well formed or not.             *)
LEMMA DriverElements ==
  ASSUME NEW D, Len(D.elements) \in Nat,
         \A n \in 1 .. Len(D.elements) : IsElement(D.elements[n]), NEW r,
         r = ParseAll(parse_driver_element, NewDriver(DriverName(D)), D.elements)
  PROVE  /\ WellFormedDriver(D) <=>
              D.tag = "driver" /\ D.plain /\ D.name # Empty /\ r.err = "none"
         /\ r.err = "none" => r.val.name = DriverName(D)
  <1> DEFINE L == Len(D.elements)
             P == Entries(D, "parameters")
             M == Entries(D, "models")
  <1>1. ElementsDone(D, L, r) BY ElementLoop
  <1>2. Upto(D, "parameters", L) = P BY UptoGrows
  <1>3. Upto(D, "models", L) = M BY UptoGrows
  <1>4. \A tag : Once(D, tag, L) <=> \A i, j \in Parts(D, tag) : i = j
    <2>1. \A tag : \A i \in Parts(D, tag) : i <= L BY DEF Parts
    <2> QED BY <2>1 DEF Once
  <1>5. WellFormedDriver(D) <=>
          /\ D.tag = "driver" /\ D.plain /\ D.name # Empty
          /\ \A i \in 1 .. L : GoodElement(D.elements[i])
          /\ \A i, j \in Parts(D, "description") : i = j
          /\ \A i, j \in Parts(D, "interface") : i = j
          /\ ParamsOk(D, P) /\ ModelsOk(D, M)
    <2>1. WellFormedDriver(D) <=>
            /\ D.tag = "driver" /\ D.plain /\ D.name # Empty
            /\ \A i \in 1 .. L : GoodElement(D.elements[i])
            /\ \A tag \in {"description", "interface"} : \A i, j \in Parts(D, tag) : i = j
            /\ ParamsOk(D, P) /\ ModelsOk(D, M)
      BY DEF WellFormedDriver, ParamsOk, ModelsOk
    <2> HIDE DEF P, M, L
    <2> QED BY <2>1
  <1>6. ElementsOk(D, L) <=>
          /\ \A i \in 1 .. L : GoodElement(D.elements[i])
          /\ \A i, j \in Parts(D, "description") : i = j
          /\ \A i, j \in Parts(D, "interface") : i = j
          /\ ParamsOk(D, P) /\ ModelsOk(D, M)
    BY <1>2, <1>3, <1>4 DEF ElementsOk
  <1> HIDE DEF L, P, M
  <1>7. r.err = "none" => r.val.name = DriverName(D) BY <1>1 DEF ElementsDone, ElementsBuilt
  <1>8. r.err = "none" <=> ElementsOk(D, L) BY <1>1 DEF ElementsDone
  <1> QED BY <1>5, <1>6, <1>7, <1>8

-----------------------------------------------------------------------------
(* Manifests: the drivers of a plugin.                                     *)

(* s are the elements of the plugin, m the manifest that was b and to      *)
(* which the first n of them were added.                                   *)
DriversOk(s, n) ==
  /\ \A i \in 1 .. n : WellFormedDriver(s[i])
  /\ \A i, j \in 1 .. n : i # j => ~SameName(DriverName(s[i]), DriverName(s[j]))

DriversBuilt(b, s, n, m) ==
  /\ DOMAIN m = {"name", "library", "drivers"} /\ m.name = b.name /\ m.library = b.library
  /\ IsList(m.drivers) /\ Len(m.drivers) = n
  /\ \A i \in 1 .. n : m.drivers[i].name = DriverName(s[i])
  /\ \A x : Has(m.drivers, "name", x) <=> \E i \in 1 .. n : SameName(DriverName(s[i]), x)

DriversDone(b, s, n, r) ==
  (r.err = "none" <=> DriversOk(s, n)) /\ (r.err = "none" => DriversBuilt(b, s, n, r.val))

IsDriver(D) == Len(D.elements) \in Nat /\ \A k \in 1 .. Len(D.elements) : IsElement(D.elements[k])

(* One driver: it is accepted if the plugin is still well formed.          *)
LEMMA DriverStep ==
  ASSUME NEW b, NEW s, Len(s) \in Nat, NEW n \in 1 .. Len(s), IsDriver(s[n]), NEW m,
         DriversOk(s, n - 1), DriversBuilt(b, s, n - 1, m)
  PROVE  DriversDone(b, s, n, parse_driver(m, s[n]))
  <1> DEFINE D == s[n]
             d == ParseAll(parse_driver_element, NewDriver(DriverName(D)), D.elements)
             r == parse_driver(m, D)
             c == [m EXCEPT !.drivers = Append(@, d.val)]
             Taken == \E i \in 1 .. (n - 1) : SameName(DriverName(s[i]), DriverName(D))
  <1>1. r = IF D.tag # "driver" \/ ~D.plain THEN Err("parser")
            ELSE IF D.name = Empty THEN Err("crash")
            ELSE IF d.err # "none" THEN d
            ELSE IF Has(m.drivers, "name", d.val.name) THEN Err("parser") ELSE Ok(c)
    BY Zenon DEF parse_driver
  <1>2. /\ WellFormedDriver(D) <=> D.tag = "driver" /\ D.plain /\ D.name # Empty /\ d.err = "none"
        /\ d.err = "none" => d.val.name = DriverName(D)
    <2>1. Len(D.elements) \in Nat /\ \A k \in 1 .. Len(D.elements) : IsElement(D.elements[k])
      BY DEF IsDriver
    <2> HIDE DEF D
    <2> QED BY <2>1, DriverElements
  <1>3. \A i : i \in 1 .. n <=> i \in 1 .. (n - 1) \/ i = n OBVIOUS
  <1>4. n \notin 1 .. (n - 1) OBVIOUS
  <1> HIDE DEF d
  <1>5. DriversOk(s, n) <=> WellFormedDriver(D) /\ ~Taken
    <2>1. (\A i \in 1 .. n : WellFormedDriver(s[i])) <=> WellFormedDriver(D)
      BY <1>3 DEF DriversOk
    <2>2. \A x, y : SameName(x, y) <=> SameName(y, x) BY DEF SameName
    <2>3. ASSUME ~Taken, NEW i \in 1 .. n, NEW j \in 1 .. n, i # j
          PROVE  ~SameName(DriverName(s[i]), DriverName(s[j]))
      <3>1. CASE i \in 1 .. (n - 1) /\ j \in 1 .. (n - 1) BY <2>3, <3>1 DEF DriversOk
      <3>2. CASE i = n /\ j \in 1 .. (n - 1) BY <2>2, <2>3, <3>2
      <3>3. CASE j = n /\ i \in 1 .. (n - 1) BY <2>3, <3>3
      <3> QED BY <1>3, <2>3, <3>1, <3>2, <3>3
    <2>4. ASSUME Taken, \A i, j \in 1 .. n : i # j => ~SameName(DriverName(s[i]), DriverName(s[j]))
          PROVE  FALSE
      <3>1. PICK i \in 1 .. (n - 1) : SameName(DriverName(s[i]), DriverName(D)) BY <2>4
      <3>2. i \in 1 .. n /\ n \in 1 .. n /\ i # n BY <1>3, <1>4, <3>1
      <3> QED BY <2>4, <3>1, <3>2
    <2> HIDE DEF Taken, D
    <2> QED BY <2>1, <2>3, <2>4 DEF DriversOk
  <1>6. Has(m.drivers, "name", DriverName(D)) <=> Taken BY DEF DriversBuilt
  <1>7. Err("parser").err # "none" /\ Err("crash").err # "none" BY DEF Err
  <1>8. Ok(c).err = "none" /\ Ok(c).val = c BY DEF Ok
  <1>9. /\ DOMAIN c = {"name", "library", "drivers"} /\ c.drivers = Append(m.drivers, d.val)
        /\ c.name = b.name /\ c.library = b.library
    BY DEF DriversBuilt
  <1>10. ASSUME d.err = "none" PROVE DriversBuilt(b, s, n, c)
    <2>1. IsList(m.drivers) BY DEF DriversBuilt
    <2>2. IsList(c.drivers) BY <1>9, <2>1, AppendIsList
    <2> DEFINE l == m.drivers
               v == d.val
    <2>3. IsList(l) /\ v.name = DriverName(D) /\ c.drivers = Append(l, v) BY <1>2, <1>9, <1>10, <2>1
    <2>4. \A x : Has(l, "name", x) <=> \E i \in 1 .. (n - 1) : SameName(DriverName(s[i]), x)
      BY DEF DriversBuilt
    <2> HIDE DEF l, v, c, D
    <2>5. ASSUME NEW x
          PROVE  Has(c.drivers, "name", x) <=> \E i \in 1 .. n : SameName(DriverName(s[i]), x)
      <3>1. Has(Append(l, v), "name", x) <=> Has(l, "name", x) \/ SameName(v.name, x)
        BY <2>3, HasMore
      <3>2. (\E i \in 1 .. n : SameName(DriverName(s[i]), x))
              <=> (\E i \in 1 .. (n - 1) : SameName(DriverName(s[i]), x)) \/ SameName(DriverName(D), x)
        BY <1>3 DEF D
      <3> QED BY <2>3, <2>4, <3>1, <3>2
    <2>6. Len(l) = n - 1 /\ \A i \in 1 .. (n - 1) : l[i].name = DriverName(s[i])
      BY DEF DriversBuilt, l
    <2>7. /\ Len(Append(l, v)) = Len(l) + 1 /\ Append(l, v)[Len(l) + 1] = v
          /\ \A i \in 1 .. Len(l) : Append(l, v)[i] = l[i]
      BY <2>3, AppendIsList
    <2>8. Len(c.drivers) = n /\ c.drivers[n] = v /\ \A i \in 1 .. (n - 1) : c.drivers[i] = l[i]
      BY <2>3, <2>6, <2>7
    <2>9. \A i \in 1 .. n : c.drivers[i].name = DriverName(s[i])
      BY <1>3, <2>3, <2>6, <2>8 DEF D
    <2> QED BY <1>9, <2>2, <2>5, <2>8, <2>9 DEF DriversBuilt
  <1> HIDE DEF D, r, c, Taken
  <1>11. r.err = "none" <=> DriversOk(s, n) BY <1>1, <1>2, <1>5, <1>6, <1>7, <1>8
  <1>12. r.err = "none" => r.val = c /\ d.err = "none" BY <1>1, <1>7, <1>8
  <1>13. DriversDone(b, s, n, r) BY <1>10, <1>11, <1>12 DEF DriversDone
  <1> QED BY <1>13 DEF r, D

(* The loop over the drivers of a plugin finds what is not well formed.    *)
LEMMA DriverLoop ==
  ASSUME NEW s, Len(s) \in Nat, \A n \in 1 .. Len(s) : IsDriver(s[n]), NEW b,
         DOMAIN b = {"name", "library", "drivers"}, b.drivers = <<>>
  PROVE  DriversDone(b, s, Len(s), ParseAll(parse_driver, b, s))
  <1> DEFINE r == ParseAll(parse_driver, b, s)
  <1>1. \E f : IsRun(f, "driver", Missing, b, s, Len(s)) /\ r = f[Len(s)] BY DriverRun
  <1> HIDE DEF r
  <1>2. PICK f : IsRun(f, "driver", Missing, b, s, Len(s)) /\ r = f[Len(s)] BY <1>1
  <1> DEFINE T == {k \in Nat : DriversDone(b, s, k, f[k])}
  <1>3. 0 \in T
    <2>1. f[0] = Ok(b) BY <1>2 DEF IsRun
    <2>2. f[0].err = "none" /\ f[0].val = b BY <2>1 DEF Ok
    <2>3. \A i \in 1 .. 0 : FALSE OBVIOUS
    <2>4. DriversOk(s, 0) BY <2>3 DEF DriversOk
    <2>5. IsList(<<>>) /\ Len(<<>>) = 0
      <3>1. <<>> \in Seq({}) OBVIOUS
      <3> QED BY <3>1, SequenceIsList
    <2>6. \A x : ~Has(b.drivers, "name", x) BY <2>3, <2>5 DEF Has
    <2>7. DriversBuilt(b, s, 0, b) BY <2>3, <2>5, <2>6 DEF DriversBuilt
    <2>8. DriversDone(b, s, 0, f[0]) BY <2>2, <2>4, <2>7 DEF DriversDone
    <2> QED BY <2>8
  <1>4. ASSUME NEW k \in (0 + 1) .. Len(s), k - 1 \in T PROVE k \in T
    <2> DEFINE a == f[k - 1]
    <2>1. k \in Nat /\ k \in 0 .. Len(s) /\ k \in 1 .. Len(s) /\ k # 0 BY <1>4
    <2>2. f[k] = IF a.err = "none" THEN Parse("driver", Missing, a.val, s[k]) ELSE a
      <3> HIDE DEF T
      <3> QED BY <1>2, <2>1 DEF IsRun
    <2>3. DriversDone(b, s, k - 1, a) BY <1>4
    <2> HIDE DEF a, T
    <2>4. CASE a.err = "none"
      <3>1. f[k] = parse_driver(a.val, s[k]) BY <2>2, <2>4 DEF Parse
      <3> DEFINE c == a.val
      <3>2. DriversOk(s, k - 1) /\ DriversBuilt(b, s, k - 1, c) BY <2>3, <2>4 DEF DriversDone
      <3>3. IsDriver(s[k]) BY <2>1
      <3> HIDE DEF c
      <3>4. DriversDone(b, s, k, parse_driver(c, s[k])) BY <2>1, <3>2, <3>3, DriverStep
      <3> QED BY <2>1, <3>1, <3>4 DEF c, T
    <2>5. CASE a.err # "none"
      <3>1. f[k] = a BY <2>2, <2>5
      <3>2. ~DriversOk(s, k - 1) BY <2>3, <2>5 DEF DriversDone
      <3>3. \A i \in 1 .. (k - 1) : i \in 1 .. k BY <2>1
      <3>4. DriversOk(s, k) => DriversOk(s, k - 1) BY <3>3 DEF DriversOk
      <3>5. DriversDone(b, s, k, f[k]) BY <2>5, <3>1, <3>2, <3>4 DEF DriversDone
      <3> QED BY <2>1, <3>5 DEF T
    <2> QED BY <2>4, <2>5
  <1>5. DriversDone(b, s, Len(s), f[Len(s)])
    <2> HIDE DEF T
    <2>1. \A k \in 0 .. Len(s) : k \in T BY <1>3, <1>4, Upwards
    <2>2. Len(s) \in T BY <2>1
    <2> QED BY <2>2 DEF T
  <1> QED BY <1>2, <1>5 DEF r

-----------------------------------------------------------------------------
(* Manifests: what the registry is given.                                  *)

(* What a manifest holds: its drivers are a list, and no two of them have  *)
(* names that strcasecmp takes for the same.                               *)
NamesDiffer(list) ==
  \A i, j \in 1 .. Len(list) : SameName(list[i].name, list[j].name) => i = j

IsManifest(m, name) ==
  /\ m.name = name
  /\ IsList(m.drivers)
  /\ NamesDiffer(m.drivers) /\ \A i \in 1 .. Len(m.drivers) : IsName(m.drivers[i].name)

(* The name of a plugin.                                                   *)
IsGiven(name) == name # NoName /\ IsName(name)

(* The elements of a document.                                             *)
LEMMA DocumentElements ==
  ASSUME NEW doc, IsDocument(doc)
  PROVE  /\ Len(doc.elements) \in Nat
         /\ \A n \in 1 .. Len(doc.elements) : IsDriver(doc.elements[n])
  <1> DEFINE s == doc.elements
  <1>1. s \in Seq(ToSet(s)) BY DEF IsDocument
  <1>2. \A D \in ToSet(s) :
          D.elements \in Seq(ToSet(D.elements)) /\ \A e \in ToSet(D.elements) : IsElement(e)
    BY DEF IsDocument
  <1> HIDE DEF s
  <1>3. Len(s) \in Nat /\ \A n \in 1 .. Len(s) : s[n] \in ToSet(s) BY <1>1, ElementOfSeq
  <1>4. ASSUME NEW D \in ToSet(s) PROVE IsDriver(D)
    <2> DEFINE l == D.elements
    <2>1. l \in Seq(ToSet(l)) /\ \A e \in ToSet(l) : IsElement(e) BY <1>2
    <2> HIDE DEF l
    <2>2. Len(l) \in Nat /\ \A k \in 1 .. Len(l) : l[k] \in ToSet(l) BY <2>1, ElementOfSeq
    <2> QED BY <2>1, <2>2 DEF l, IsDriver
  <1>5. Len(s) \in Nat /\ \A n \in 1 .. Len(s) : IsDriver(s[n]) BY <1>3, <1>4
  <1> QED BY <1>5 DEF s

(* What a plugin document gives: its parts are well formed, and all its    *)
(* drivers are in the manifest.                                            *)
LEMMA AcceptedDocument ==
  ASSUME NEW doc, IsDocument(doc), NEW r, r = parse_manifest(doc), r.err = "none"
  PROVE  /\ doc.plain /\ doc.version # Empty /\ doc.version # Blank
         /\ {doc.name, doc.library} \cap {Missing, Empty} = {}
         /\ DriversOk(doc.elements, Len(doc.elements))
         /\ r.val.name = conv_xmlstr(doc.name) /\ r.val.library = conv_xmlstr(doc.library)
         /\ IsList(r.val.drivers) /\ Len(r.val.drivers) = Len(doc.elements)
         /\ \A i \in 1 .. Len(doc.elements) :
              r.val.drivers[i].name = DriverName(doc.elements[i])
  <1> DEFINE s == doc.elements
             b == [name |-> conv_xmlstr(doc.name), library |-> conv_xmlstr(doc.library),
                   drivers |-> <<>>]
             p == ParseAll(parse_driver, b, s)
  <1>1. r = IF Empty \in {doc.name, doc.library, doc.version} THEN Err("crash")
            ELSE IF ~doc.plain \/ doc.version = Blank THEN Err("parser")
            ELSE IF doc.name = Missing THEN Err("noname")
            ELSE IF doc.library = Missing THEN Err("nolib")
            ELSE p
    BY Zenon DEF parse_manifest
  <1>2. Len(s) \in Nat /\ \A n \in 1 .. Len(s) : IsDriver(s[n]) BY DocumentElements
  <1>3. /\ DOMAIN b = {"name", "library", "drivers"} /\ b.drivers = <<>>
        /\ b.name = conv_xmlstr(doc.name) /\ b.library = conv_xmlstr(doc.library)
    OBVIOUS
  <1> HIDE DEF b, s
  <1>4. DriversDone(b, s, Len(s), p) BY <1>2, <1>3, DriverLoop
  <1>5. /\ Err("crash").err # "none" /\ Err("parser").err # "none"
        /\ Err("noname").err # "none" /\ Err("nolib").err # "none"
    BY DEF Err
  <1> HIDE DEF p
  <1>6. /\ r = p /\ doc.plain /\ doc.version # Blank /\ doc.name # Missing /\ doc.library # Missing
        /\ Empty \notin {doc.name, doc.library, doc.version}
    BY <1>1, <1>5
  <1>7. doc.version # Empty /\ {doc.name, doc.library} \cap {Missing, Empty} = {} BY <1>6
  <1>8. DriversOk(s, Len(s)) /\ DriversBuilt(b, s, Len(s), r.val) BY <1>4, <1>6 DEF DriversDone
  <1> QED BY <1>3, <1>6, <1>7, <1>8 DEF DriversBuilt, s

(* What a file that parses without an error gives.                         *)
LEMMA ParsedManifest ==
  ASSUME NEW file \in ManifestFiles, benthos_dc_manifest_parse(Docs[file]).err = "none"
  PROVE  \E name : IsGiven(name) /\ IsManifest(benthos_dc_manifest_parse(Docs[file]).val, name)
  <1> DEFINE doc == Docs[file]
             r == parse_manifest(doc)
             m == r.val
             s == doc.elements
  <1>1. doc.root = "plugin" /\ benthos_dc_manifest_parse(doc) = r
    BY RegistryAssumption DEF benthos_dc_manifest_parse, Err
  <1>2. IsDocument(doc) /\ r.err = "none" BY <1>1, RegistryAssumption
  <1>3. /\ DriversOk(s, Len(s)) /\ m.name = conv_xmlstr(doc.name)
        /\ IsList(m.drivers) /\ Len(m.drivers) = Len(s)
        /\ \A i \in 1 .. Len(s) : m.drivers[i].name = DriverName(s[i])
    <2> HIDE DEF doc, r
    <2> QED BY <1>2, AcceptedDocument DEF r
  <1>4. IsGiven(m.name) BY <1>3, ConvertedNames DEF IsGiven
  <1>5. \A e : IsName(DriverName(e))
    <2>1. IsName(NoName) BY RegistryAssumption
    <2> QED BY <2>1, ConvertedNames DEF DriverName
  <1> HIDE DEF doc, r, m, s
  <1>6. NamesDiffer(m.drivers) BY <1>3 DEF NamesDiffer, DriversOk
  <1>7. IsManifest(m, m.name) BY <1>3, <1>5, <1>6 DEF IsManifest
  <1> QED BY <1>1, <1>4, <1>7 DEF doc, m

-----------------------------------------------------------------------------
(* The inductive invariant.  DottedNamesResolve needs that no two drivers  *)
(* in the list have the same dotted name: those of one plugin differ as    *)
(* they do in its manifest, those of two plugins have plugins that differ, *)
(* a manifest being filed under its name in lower case.                    *)

ManifestsOK(m) ==
  \A p \in DOMAIN m :
    IsGiven(m[p].name) /\ Lower[m[p].name] = p /\ IsManifest(m[p], m[p].name)

Owned(m, d) ==
  \A i \in 1 .. Len(d) :
    /\ Lower[d[i].plugin] \in DOMAIN m
    /\ m[Lower[d[i].plugin]].name = d[i].plugin
    /\ \E j \in 1 .. Len(m[Lower[d[i].plugin]].drivers) :
         m[Lower[d[i].plugin]].drivers[j].name = d[i].driver

Places(d, p) == {i \in 1 .. Len(d) : Lower[d[i].plugin] = p}

Complete(m, d) == \A p \in DOMAIN m : Cardinality(Places(d, p)) = Len(m[p].drivers)

Distinct(d) ==
  \A i, j \in 1 .. Len(d) :
    (SameName(d[i].plugin, d[j].plugin) /\ SameName(d[i].driver, d[j].driver)) => i = j

TableInv(m, d) ==
  ManifestsOK(m) /\ IsList(d) /\ Owned(m, d) /\ Complete(m, d) /\ Distinct(d)

LoadInv ==
  /\ IsFiniteSet(DOMAIN libraries)
  /\ \A p \in DOMAIN libraries : libraries[p] \in PluginFiles
  /\ handles \in [PluginFiles -> Nat] /\ active \in [PluginFiles -> Nat]
  /\ LoadsBalanced

CallInv ==
  /\ up \in BOOLEAN
  /\ manifest_files \in Seq(ManifestFiles) /\ manifest_paths \in Seq(Directories)
  /\ plugin_files \in Seq(PluginFiles) /\ plugin_paths \in Seq(Directories)
  /\ scan \in Seq(Paths)

ClientInv == it \in 0 .. Len(drivers) /\ failed \subseteq ToSet(drivers)

IInv == CallInv /\ TableInv(manifests, drivers) /\ LoadInv /\ ClientInv

-----------------------------------------------------------------------------
(* Registering a manifest.                                                 *)

(* The drivers of a manifest, listed after d.                              *)
LEMMA DriversListed ==
  ASSUME NEW d, IsList(d), NEW m, NEW name, IsManifest(m, name)
  PROVE  LET n == Len(d)
             k == Len(m.drivers)
             new == d \o DriversOf(m)
         IN /\ n \in Nat /\ k \in Nat /\ Len(new) = n + k /\ IsList(new)
            /\ \A i \in 1 .. n : new[i] = d[i]
            /\ \A i \in (n + 1) .. (n + k) :
                 new[i].plugin = name /\ new[i].driver = m.drivers[i - n].name
  <1> DEFINE n == Len(d)
             k == Len(m.drivers)
             ds == DriversOf(m)
             S == ToSet(d) \cup ToSet(ds)
  <1>1. n \in Nat /\ k \in Nat BY DEF IsManifest, IsList
  <1>2. m.name = name BY DEF IsManifest
  <1>3. ds = [i \in 1 .. k |-> [plugin |-> name, driver |-> m.drivers[i].name]]
    BY <1>2 DEF DriversOf
  <1> HIDE DEF k, ds
  <1>4. \A i \in 1 .. k : ds[i] \in S BY <1>3 DEF ToSet
  <1>5. ds \in Seq(S) /\ Len(ds) = k BY <1>1, <1>3, <1>4
  <1>6. d \in Seq(S) BY DEF IsList
  <1> HIDE DEF n, S
  <1>7. /\ d \o ds \in Seq(S) /\ Len(d \o ds) = n + k
        /\ \A i \in 1 .. n + k : (d \o ds)[i] = IF i <= n THEN d[i] ELSE ds[i - n]
    BY <1>5, <1>6, ConcatProperties DEF n
  <1>8. IsList(d \o ds) BY <1>7, SequenceIsList
  <1>9. \A i \in (n + 1) .. (n + k) : (d \o ds)[i] = ds[i - n] /\ i - n \in 1 .. k
    BY <1>1, <1>7
  <1>10. \A j \in 1 .. k : ds[j].plugin = name /\ ds[j].driver = m.drivers[j].name BY <1>3
  <1>11. \A i \in 1 .. n : (d \o ds)[i] = d[i] BY <1>1, <1>7
  <1>12. \A i \in (n + 1) .. (n + k) :
           (d \o ds)[i].plugin = name /\ (d \o ds)[i].driver = m.drivers[i - n].name
    BY <1>9, <1>10
  <1> QED BY <1>1, <1>7, <1>8, <1>11, <1>12 DEF n, k, ds

(* A manifest for a plugin that is not registered yet.                     *)
LEMMA ManifestAdded ==
  ASSUME NEW m, NEW d, TableInv(m, d), NEW new, NEW name, IsGiven(name),
         IsManifest(new, name), Lower[name] \notin DOMAIN m
  PROVE  LET m2 == [p \in DOMAIN m \cup {Lower[name]} |-> IF p = Lower[name] THEN new ELSE m[p]]
             d2 == d \o DriversOf(new)
         IN /\ TableInv(m2, d2) /\ Len(d) <= Len(d2)
            /\ \A i \in 1 .. Len(d) : d2[i] = d[i]
  <1> DEFINE q == Lower[name]
             m2 == [p \in DOMAIN m \cup {q} |-> IF p = q THEN new ELSE m[p]]
             d2 == d \o DriversOf(new)
             n == Len(d)
             k == Len(new.drivers)
  <1>1. /\ n \in Nat /\ k \in Nat /\ Len(d2) = n + k /\ IsList(d2)
        /\ \A i \in 1 .. n : d2[i] = d[i]
        /\ \A i \in (n + 1) .. (n + k) :
             d2[i].plugin = name /\ d2[i].driver = new.drivers[i - n].name
    BY DriversListed DEF TableInv
  <1>2. new.name = name BY DEF IsManifest
  <1>3. DOMAIN m2 = DOMAIN m \cup {q} /\ m2[q] = new /\ \A p \in DOMAIN m : m2[p] = m[p]
    OBVIOUS
  <1>4. \A i \in 1 .. n : Lower[d[i].plugin] \in DOMAIN m /\ Lower[d[i].plugin] # q
    BY DEF TableInv, Owned
  <1> HIDE DEF m2, d2, n, k
  <1>12. n \in Nat /\ k \in Nat BY <1>1
  <1>13. Len(d2) = n + k BY <1>1
  <1>5. \A i \in 1 .. n + k : i \in 1 .. n \/ (i \in (n + 1) .. (n + k) /\ i - n \in 1 .. k)
    BY <1>12
  <1>6. ManifestsOK(m2) BY <1>2, <1>3 DEF TableInv, ManifestsOK, q
  <1>7. Owned(m2, d2)
    <2> SUFFICES ASSUME NEW i \in 1 .. n + k
                 PROVE  /\ Lower[d2[i].plugin] \in DOMAIN m2
                        /\ m2[Lower[d2[i].plugin]].name = d2[i].plugin
                        /\ \E j \in 1 .. Len(m2[Lower[d2[i].plugin]].drivers) :
                             m2[Lower[d2[i].plugin]].drivers[j].name = d2[i].driver
      BY <1>1 DEF Owned
    <2>1. CASE i \in 1 .. n
      <3>1. d2[i] = d[i] /\ Lower[d[i].plugin] \in DOMAIN m BY <1>1, <1>4, <2>1
      <3>2. m2[Lower[d[i].plugin]] = m[Lower[d[i].plugin]] BY <1>3, <3>1
      <3> QED BY <1>3, <2>1, <3>1, <3>2 DEF TableInv, Owned, n
    <2>2. CASE i \in (n + 1) .. (n + k) /\ i - n \in 1 .. k
      <3>1. d2[i].plugin = name /\ d2[i].driver = new.drivers[i - n].name BY <1>1, <2>2
      <3>2. Lower[d2[i].plugin] = q BY <3>1
      <3> QED BY <1>2, <1>3, <2>2, <3>1, <3>2 DEF k
    <2> QED BY <1>5, <2>1, <2>2
  <1>8. Complete(m2, d2)
    <2> SUFFICES ASSUME NEW p \in DOMAIN m \cup {q}
                 PROVE  Cardinality(Places(d2, p)) = Len(m2[p].drivers)
      BY <1>3 DEF Complete
    <2>1. CASE p = q
      <3>1. Places(d2, p) = (n + 1) .. (n + k) BY <1>1, <1>4, <1>5, <2>1 DEF Places
      <3>2. n + 1 \in Int /\ n + k \in Int BY <1>12
      <3>3. Cardinality((n + 1) .. (n + k))
              = IF n + 1 > n + k THEN 0 ELSE (n + k) - (n + 1) + 1
        BY <3>2, FS_Interval
      <3>4. Cardinality(Places(d2, p)) = k BY <1>12, <3>1, <3>3
      <3> QED BY <1>3, <2>1, <3>4 DEF k
    <2>2. CASE p # q
      <3>1. p \in DOMAIN m /\ m2[p] = m[p] BY <1>3, <2>2
      <3>2. Places(d2, p) = Places(d, p)
        <4>1. ASSUME NEW i \in 1 .. n + k PROVE Lower[d2[i].plugin] = p => i \in 1 .. n
          BY <1>1, <1>5, <2>2
        <4> QED BY <1>1, <4>1 DEF Places, n
      <3> QED BY <3>1, <3>2 DEF TableInv, Complete
    <2> QED BY <2>1, <2>2
  <1>9. Distinct(d2)
    <2> SUFFICES ASSUME NEW i \in 1 .. n + k, NEW j \in 1 .. n + k,
                        Lower[d2[i].plugin] = Lower[d2[j].plugin],
                        Lower[d2[i].driver] = Lower[d2[j].driver]
                 PROVE  i = j
      BY <1>1 DEF Distinct, SameName
    <2>1. CASE i \in 1 .. n /\ j \in 1 .. n
      BY <1>1, <2>1 DEF TableInv, Distinct, SameName, n
    <2>2. CASE i \in 1 .. n /\ j \in (n + 1) .. (n + k) BY <1>1, <1>4, <2>2
    <2>3. CASE i \in (n + 1) .. (n + k) /\ j \in 1 .. n BY <1>1, <1>4, <2>3
    <2>4. CASE /\ i \in (n + 1) .. (n + k) /\ i - n \in 1 .. k
               /\ j \in (n + 1) .. (n + k) /\ j - n \in 1 .. k
      <3>1. Lower[new.drivers[i - n].name] = Lower[new.drivers[j - n].name] BY <1>1, <2>4
      <3>2. i - n = j - n BY <2>4, <3>1 DEF IsManifest, NamesDiffer, SameName, k
      <3> QED BY <1>12, <2>4, <3>2
    <2> QED BY <1>5, <2>1, <2>2, <2>3, <2>4
  <1>10. n <= Len(d2) BY <1>12, <1>13
  <1>11. TableInv(m2, d2) BY <1>1, <1>6, <1>7, <1>8, <1>9 DEF TableInv
  <1> QED BY <1>1, <1>10, <1>11 DEF m2, d2, n, q

(* Registering a file keeps the table as it should be, and the drivers     *)
(* that were in the list where they were.                                  *)
LEMMA RegisterKeeps ==
  ASSUME NEW m, NEW d, TableInv(m, d), NEW file \in ManifestFiles
  PROVE  LET t == register_manifest(Table(m, d), file)
         IN /\ TableInv(t.manifests, t.drivers) /\ Len(d) <= Len(t.drivers)
            /\ \A i \in 1 .. Len(d) : t.drivers[i] = d[i]
  <1> DEFINE parsed == benthos_dc_manifest_parse(Docs[file])
             new == parsed.val
             m2 == [p \in DOMAIN m \cup {Lower[new.name]} |->
                      IF p = Lower[new.name] THEN new ELSE m[p]]
             d2 == d \o DriversOf(new)
             t == register_manifest(Table(m, d), file)
  <1>1. Len(d) \in Nat BY DEF TableInv, IsList
  <1>2. t = IF parsed.err # "none" \/ Lower[new.name] \in DOMAIN m THEN Table(m, d)
            ELSE Table(m2, d2)
    BY DEF register_manifest, Table
  <1>5. \A x, y : Table(x, y).manifests = x /\ Table(x, y).drivers = y BY DEF Table
  <1>3. CASE parsed.err # "none" \/ Lower[new.name] \in DOMAIN m
    <2>1. t = Table(m, d) BY <1>2, <1>3
    <2>2. t.manifests = m /\ t.drivers = d BY <1>5, <2>1
    <2> QED BY <1>1, <2>2
  <1>4. CASE parsed.err = "none" /\ Lower[new.name] \notin DOMAIN m
    <2>1. t = Table(m2, d2) BY <1>2, <1>4
    <2>2. t.manifests = m2 /\ t.drivers = d2 BY <1>5, <2>1
    <2>3. PICK name : IsGiven(name) /\ IsManifest(new, name) BY <1>4, ParsedManifest
    <2> HIDE DEF new, t
    <2>4. new.name = name BY <2>3 DEF IsManifest
    <2>5. /\ TableInv(m2, d2) /\ Len(d) <= Len(d2)
          /\ \A i \in 1 .. Len(d) : d2[i] = d[i]
      BY <1>4, <2>3, <2>4, ManifestAdded
    <2> QED BY <2>2, <2>5 DEF t
  <1> QED BY <1>3, <1>4

-----------------------------------------------------------------------------
(* Loading and unloading plugins.                                          *)

(* A load adds one plugin to those that have their library, and one call   *)
(* to dlopen and to plugin_load for the file; or it changes nothing, a     *)
(* library that was opened in vain being closed again.                     *)
LEMMA LoadKeeps ==
  ASSUME LoadInv, NEW plugin, load_plugin(plugin)
  PROVE  LoadInv'
  <1> DEFINE q == Lower[plugin]
             file == find_plugin(manifests[q].library)
  <1>1. \/ UNCHANGED <<libraries, handles, active>>
        \/ /\ q \notin DOMAIN libraries /\ file \in PluginFiles
           /\ libraries' = [p \in DOMAIN libraries \cup {q} |->
                              IF p = q THEN file ELSE libraries[p]]
           /\ handles' = [handles EXCEPT ![file] = @ + 1]
           /\ active' = [active EXCEPT ![file] = @ + 1]
    <2>1. \/ UNCHANGED <<libraries, handles, active>>
          \/ file \in PluginFiles /\ GiveUp(file)
          \/ /\ q \notin DOMAIN libraries /\ file \in PluginFiles
             /\ libraries' = [p \in DOMAIN libraries \cup {q} |->
                                IF p = q THEN file ELSE libraries[p]]
             /\ handles' = [handles EXCEPT ![file] = @ + 1]
             /\ active' = [active EXCEPT ![file] = @ + 1]
      BY DEF load_plugin, dlopen
    <2> HIDE DEF q, file
    <2>2. ASSUME file \in PluginFiles, GiveUp(file) PROVE UNCHANGED <<libraries, handles, active>>
      <3>1. handles \in [PluginFiles -> Nat] BY DEF LoadInv
      <3>2. /\ handles' = [[handles EXCEPT ![file] = @ + 1] EXCEPT ![file] = @ - 1]
            /\ UNCHANGED <<libraries, active>>
        BY <2>2 DEF GiveUp, dlopen, dlclose
      <3>3. handles' = handles BY <2>2, <3>1, <3>2
      <3> QED BY <3>2, <3>3
    <2> QED BY <2>1, <2>2
  <1> HIDE DEF q, file
  <1>2. CASE UNCHANGED <<libraries, handles, active>>
    BY <1>2 DEF LoadInv, LoadsBalanced, LoadedFrom
  <1>3. CASE /\ q \notin DOMAIN libraries /\ file \in PluginFiles
             /\ libraries' = [p \in DOMAIN libraries \cup {q} |->
                                IF p = q THEN file ELSE libraries[p]]
             /\ handles' = [handles EXCEPT ![file] = @ + 1]
             /\ active' = [active EXCEPT ![file] = @ + 1]
    <2>1. /\ DOMAIN libraries' = DOMAIN libraries \cup {q} /\ libraries'[q] = file
          /\ \A p \in DOMAIN libraries : libraries'[p] = libraries[p]
      BY <1>3
    <2>2. IsFiniteSet(DOMAIN libraries') BY <2>1, FS_AddElement DEF LoadInv
    <2>3. \A p \in DOMAIN libraries' : libraries'[p] \in PluginFiles
      BY <1>3, <2>1 DEF LoadInv
    <2>4. handles' \in [PluginFiles -> Nat] /\ active' \in [PluginFiles -> Nat]
      BY <1>3 DEF LoadInv
    <2>5. ASSUME NEW f \in PluginFiles
          PROVE  /\ active'[f] = Cardinality(LoadedFrom(f)')
                 /\ handles'[f] = Cardinality(LoadedFrom(f)')
      <3>1. active[f] = Cardinality(LoadedFrom(f)) /\ handles[f] = Cardinality(LoadedFrom(f))
        BY DEF LoadInv, LoadsBalanced
      <3>2. IsFiniteSet(LoadedFrom(f)) BY FS_Subset DEF LoadInv, LoadedFrom
      <3>3. CASE f = file
        <4>1. LoadedFrom(f)' = LoadedFrom(f) \cup {q} BY <2>1, <3>3 DEF LoadedFrom
        <4>2. q \notin LoadedFrom(f) BY <1>3 DEF LoadedFrom
        <4>3. Cardinality(LoadedFrom(f)') = Cardinality(LoadedFrom(f)) + 1
          BY <3>2, <4>1, <4>2, FS_AddElement
        <4>4. active'[f] = active[f] + 1 /\ handles'[f] = handles[f] + 1
          BY <1>3, <3>3 DEF LoadInv
        <4> QED BY <3>1, <4>3, <4>4
      <3>4. CASE f # file
        <4>1. LoadedFrom(f)' = LoadedFrom(f) BY <2>1, <3>4 DEF LoadedFrom
        <4>2. active'[f] = active[f] /\ handles'[f] = handles[f] BY <1>3, <3>4 DEF LoadInv
        <4> QED BY <3>1, <4>1, <4>2
      <3> QED BY <3>3, <3>4
    <2> QED BY <2>2, <2>3, <2>4, <2>5 DEF LoadInv, LoadsBalanced
  <1> QED BY <1>1, <1>2, <1>3

(* An attempt to load a library keeps the balance of loads and unloads.    *)
LEMMA TryLoadKeeps ==
  ASSUME LoadInv, NEW name, TryLoad(name)
  PROVE  LoadInv'
  <1> DEFINE di == benthos_dc_registry_driver_info(name)
  <1>1. UNCHANGED <<libraries, handles, active>> \/ load_plugin(di.plugin) BY DEF TryLoad
  <1> HIDE DEF di
  <1>2. CASE UNCHANGED <<libraries, handles, active>>
    BY <1>2 DEF LoadInv, LoadsBalanced, LoadedFrom
  <1>3. CASE load_plugin(di.plugin) BY <1>3, LoadKeeps
  <1> QED BY <1>1, <1>2, <1>3

(* No plugin has its library: before the first call, and after cleanup.    *)
LEMMA NothingLoaded ==
  /\ TableInv(EmptyTable, <<>>)
  /\ IsFiniteSet(DOMAIN EmptyTable)
  /\ \A f : {p \in DOMAIN EmptyTable : EmptyTable[p] = f} = {}
  <1>1. DOMAIN EmptyTable = {} BY DEF EmptyTable
  <1>2. IsFiniteSet({}) BY FS_EmptySet
  <1>3. <<>> \in Seq({}) /\ Len(<<>>) = 0 OBVIOUS
  <1>4. IsList(<<>>) BY <1>3, SequenceIsList
  <1>5. \A i : i \notin 1 .. Len(<<>>) OBVIOUS
  <1>6. Owned(EmptyTable, <<>>) BY <1>5 DEF Owned
  <1>7. Distinct(<<>>) BY <1>5 DEF Distinct
  <1> QED BY <1>1, <1>2, <1>4, <1>6, <1>7 DEF TableInv, ManifestsOK, Complete

-----------------------------------------------------------------------------
(* The calls.                                                              *)

(* A table that has grown leaves a client's iterator on its list.          *)
LEMMA ClientKeeps ==
  ASSUME ClientInv, IsList(drivers), IsList(drivers'), Len(drivers) <= Len(drivers'),
         \A i \in 1 .. Len(drivers) : drivers'[i] = drivers[i],
         UNCHANGED <<it, failed>>
  PROVE  ClientInv'
  <1>1. Len(drivers) \in Nat /\ Len(drivers') \in Nat BY DEF IsList
  <1>2. it' \in 0 .. Len(drivers') BY <1>1 DEF ClientInv
  <1>3. /\ DOMAIN drivers = 1 .. Len(drivers) /\ DOMAIN drivers' = 1 .. Len(drivers')
    BY DEF IsList
  <1>4. ToSet(drivers) \subseteq ToSet(drivers') BY <1>1, <1>3 DEF ToSet
  <1> QED BY <1>2, <1>4 DEF ClientInv

(* A registry without manifests, libraries and drivers.                    *)
LEMMA InitHolds == Init => IInv
  <1> SUFFICES ASSUME Init PROVE IInv OBVIOUS
  <1>1. up \in BOOLEAN BY DEF Init
  <1>2. /\ manifest_files \in Seq(ManifestFiles) /\ manifest_paths \in Seq(Directories)
        /\ plugin_files \in Seq(PluginFiles) /\ plugin_paths \in Seq(Directories)
        /\ scan \in Seq(Paths)
    <2>1. \A S : <<>> \in Seq(S) OBVIOUS
    <2> QED BY <2>1 DEF Init
  <1>3. TableInv(manifests, drivers) BY NothingLoaded DEF Init
  <1>4. handles \in [PluginFiles -> Nat] /\ active \in [PluginFiles -> Nat] BY DEF Init
  <1>5. LoadInv
    <2>1. DOMAIN EmptyTable = {} BY DEF EmptyTable
    <2>2. libraries = EmptyTable BY DEF Init
    <2>3. \A f : LoadedFrom(f) = {} BY <2>2, NothingLoaded DEF LoadedFrom
    <2>4. \A f \in PluginFiles : handles[f] = 0 /\ active[f] = 0 BY DEF Init
    <2>5. LoadsBalanced BY <2>3, <2>4, FS_EmptySet DEF LoadsBalanced
    <2> QED BY <1>4, <2>1, <2>2, <2>5, NothingLoaded DEF LoadInv
  <1>6. ClientInv
    <2>1. it = 0 /\ failed = {} /\ Len(drivers) = 0 BY DEF Init
    <2> QED BY <2>1 DEF ClientInv
  <1> QED BY <1>1, <1>2, <1>3, <1>5, <1>6 DEF IInv, CallInv

(* One step per action.                                                    *)
LEMMA NextKeeps == IInv /\ [Next]_vars => IInv'
  <1> SUFFICES ASSUME IInv, [Next]_vars PROVE IInv' OBVIOUS
  <1> USE DEF IInv
  <1>1. ASSUME UNCHANGED <<manifests, drivers>> PROVE TableInv(manifests', drivers')
    BY <1>1
  <1>2. ASSUME UNCHANGED <<libraries, handles, active>> PROVE LoadInv'
    BY <1>2 DEF LoadInv, LoadsBalanced, LoadedFrom
  <1>3. ASSUME UNCHANGED <<drivers, it, failed>> PROVE ClientInv'
    BY <1>3 DEF ClientInv
  <1>4. ASSUME NEW file \in ManifestFiles, SetTable(register_manifest(Known, file)),
               UNCHANGED <<it, failed>>
        PROVE  TableInv(manifests', drivers') /\ ClientInv'
    <2> DEFINE t == register_manifest(Table(manifests, drivers), file)
    <2>1. manifests' = t.manifests /\ drivers' = t.drivers BY <1>4 DEF SetTable, Known
    <2>2. /\ TableInv(t.manifests, t.drivers) /\ Len(drivers) <= Len(t.drivers)
          /\ \A i \in 1 .. Len(drivers) : t.drivers[i] = drivers[i]
      BY RegisterKeeps
    <2> HIDE DEF t
    <2>3. TableInv(manifests', drivers') BY <2>1, <2>2
    <2>4. IsList(drivers) /\ IsList(drivers') BY <2>3 DEF TableInv
    <2>5. /\ Len(drivers) <= Len(drivers')
          /\ \A i \in 1 .. Len(drivers) : drivers'[i] = drivers[i]
      BY <2>1, <2>2
    <2> QED BY <1>4, <2>3, <2>4, <2>5, ClientKeeps
  <1>5. CASE benthos_dc_registry_init
    <2>1. up' \in BOOLEAN
      <3>1. up' = TRUE BY <1>5 DEF benthos_dc_registry_init
      <3> QED BY <3>1
    <2>2. ManifestDir \in Directories /\ PluginDir \in Directories BY RegistryAssumption
    <2>3. manifest_paths' \in Seq(Directories) /\ plugin_paths' \in Seq(Directories)
      BY <1>5, <2>2 DEF benthos_dc_registry_init
    <2>4. scan' \in Seq(Paths) BY <1>5, <2>2 DEF benthos_dc_registry_init, Paths
    <2>5. UNCHANGED <<manifest_files, plugin_files, manifests, drivers, libraries,
                      handles, active, it, failed>>
      BY <1>5 DEF benthos_dc_registry_init
    <2> QED BY <1>1, <1>2, <1>3, <2>1, <2>3, <2>4, <2>5 DEF CallInv
  <1>6. CASE scan_manifest_path
    <2>1. UNCHANGED <<up, manifest_files, manifest_paths, plugin_files, plugin_paths,
                      libraries, handles, active, it, failed>> /\ scan # <<>>
      BY <1>6 DEF scan_manifest_path
    <2>2. Head(scan) \in Paths /\ Tail(scan) \in Seq(Paths)
      BY <2>1, HeadTailProperties DEF CallInv
    <2>3. scan' \in Seq(Paths)
      <3>1. CASE Head(scan) \in Directories
        <4>1. scan' = Dirs[Head(scan)] \o Tail(scan) BY <1>6, <3>1 DEF scan_manifest_path
        <4>2. Dirs[Head(scan)] \in Seq(Paths) BY <3>1, RegistryAssumption
        <4> QED BY <2>2, <4>1, <4>2, ConcatProperties
      <3>2. CASE Head(scan) \notin Directories
        <4>1. scan' = Tail(scan) BY <1>6, <3>2 DEF scan_manifest_path
        <4> QED BY <2>2, <4>1
      <3> QED BY <3>1, <3>2
    <2>4. CallInv' BY <2>1, <2>3 DEF CallInv
    <2>5. UNCHANGED <<manifests, drivers>>
          \/ (Head(scan) \in ManifestFiles /\ SetTable(register_manifest(Known, Head(scan))))
      <3>1. SetTable(Known) => UNCHANGED <<manifests, drivers>>
        <4>1. Known.manifests = manifests /\ Known.drivers = drivers BY DEF Known, Table
        <4> QED BY <4>1 DEF SetTable
      <3>2. CASE Head(scan) \in Directories BY <1>6, <3>2 DEF scan_manifest_path
      <3>3. CASE Head(scan) \notin Directories /\ Head(scan) \in ManifestFiles
        BY <1>6, <3>3 DEF scan_manifest_path
      <3>4. CASE Head(scan) \notin Directories /\ Head(scan) \notin ManifestFiles
        BY <1>6, <3>1, <3>4 DEF scan_manifest_path
      <3> QED BY <3>2, <3>3, <3>4
    <2>6. TableInv(manifests', drivers') /\ ClientInv' BY <1>1, <1>3, <1>4, <2>1, <2>5
    <2> QED BY <1>2, <2>1, <2>4, <2>6
  <1>7. CASE benthos_dc_registry_add_manifest
    <2>1. PICK file \in ManifestFiles :
            /\ manifest_files' = Append(manifest_files, file)
            /\ SetTable(register_manifest(Known, file))
      BY <1>7 DEF benthos_dc_registry_add_manifest
    <2>2. UNCHANGED <<up, manifest_paths, plugin_files, plugin_paths, libraries, scan,
                      handles, active, it, failed>>
      BY <1>7 DEF benthos_dc_registry_add_manifest
    <2>3. manifest_files' \in Seq(ManifestFiles) BY <2>1 DEF CallInv
    <2>4. TableInv(manifests', drivers') /\ ClientInv' BY <1>4, <2>1, <2>2
    <2> QED BY <1>2, <2>2, <2>3, <2>4 DEF CallInv
  <1>8. CASE benthos_dc_registry_add_manifest_path
    <2>1. PICK dir \in Directories :
            manifest_paths' = Append(manifest_paths, dir) /\ scan' = <<dir>>
      BY <1>8 DEF benthos_dc_registry_add_manifest_path
    <2>2. UNCHANGED <<up, manifest_files, plugin_files, plugin_paths, manifests, drivers,
                      libraries, handles, active, it, failed>>
      BY <1>8 DEF benthos_dc_registry_add_manifest_path
    <2>3. manifest_paths' \in Seq(Directories) /\ scan' \in Seq(Paths)
      BY <2>1 DEF CallInv, Paths
    <2> QED BY <1>1, <1>2, <1>3, <2>2, <2>3 DEF CallInv
  <1>9. CASE benthos_dc_registry_add_plugin
    <2>1. plugin_files' \in Seq(PluginFiles)
      BY <1>9 DEF benthos_dc_registry_add_plugin, CallInv
    <2>2. UNCHANGED <<up, manifest_files, manifest_paths, plugin_paths, manifests, drivers,
                      libraries, scan, handles, active, it, failed>>
      BY <1>9 DEF benthos_dc_registry_add_plugin
    <2> QED BY <1>1, <1>2, <1>3, <2>1, <2>2 DEF CallInv
  <1>10. CASE benthos_dc_registry_add_plugin_path
    <2>1. plugin_paths' \in Seq(Directories)
      BY <1>10 DEF benthos_dc_registry_add_plugin_path, CallInv
    <2>2. UNCHANGED <<up, manifest_files, manifest_paths, plugin_files, manifests, drivers,
                      libraries, scan, handles, active, it, failed>>
      BY <1>10 DEF benthos_dc_registry_add_plugin_path
    <2> QED BY <1>1, <1>2, <1>3, <2>1, <2>2 DEF CallInv
  <1>11. CASE benthos_dc_registry_load
    <2>1. PICK name \in Names : TryLoad(name) BY <1>11 DEF benthos_dc_registry_load
    <2>2. UNCHANGED <<up, manifest_files, manifest_paths, plugin_files, plugin_paths,
                      manifests, drivers, scan, it, failed>>
      BY <1>11 DEF benthos_dc_registry_load
    <2>3. LoadInv' BY <2>1, TryLoadKeeps
    <2> QED BY <1>1, <1>3, <2>2, <2>3 DEF CallInv
  <1>12. CASE benthos_dc_registry_drivers
    <2>1. UNCHANGED <<registryVars, scan, handles, active>> /\ it' = 1 /\ failed' = {}
          /\ drivers # <<>>
      BY <1>12 DEF benthos_dc_registry_drivers
    <2>2. ClientInv'
      <3>1. Len(drivers) \in Nat /\ Len(drivers) # 0
        BY <2>1, EmptySeq DEF TableInv, IsList
      <3>2. drivers' = drivers BY <2>1 DEF registryVars
      <3>3. it' \in 0 .. Len(drivers') BY <2>1, <3>1, <3>2
      <3> QED BY <2>1, <3>3 DEF ClientInv
    <2> QED BY <1>1, <1>2, <2>1, <2>2 DEF CallInv, registryVars
  <1>13. CASE test_driver
    <2>1. /\ TryLoad(drivers[it].driver)
          /\ UNCHANGED <<up, manifest_files, manifest_paths, plugin_files, plugin_paths,
                         manifests, drivers, scan>>
      BY <1>13 DEF test_driver
    <2>2. /\ it > 0 /\ it' = (IF it < Len(drivers) THEN it + 1 ELSE 0)
      BY <1>13 DEF test_driver
    <2>3. failed' \subseteq failed \cup {drivers[it]} BY <1>13 DEF test_driver
    <2>4. LoadInv' BY <2>1, TryLoadKeeps
    <2>5. ClientInv'
      <3>1. Len(drivers) \in Nat /\ DOMAIN drivers = 1 .. Len(drivers) BY DEF TableInv, IsList
      <3>2. it \in 1 .. Len(drivers) BY <2>2, <3>1 DEF ClientInv
      <3>3. drivers[it] \in ToSet(drivers) BY <3>1, <3>2 DEF ToSet
      <3>4. drivers' = drivers BY <2>1
      <3>5. it' \in 0 .. Len(drivers') BY <2>2, <3>1, <3>2, <3>4
      <3>6. failed' \subseteq ToSet(drivers') BY <2>3, <3>3, <3>4 DEF ClientInv
      <3> QED BY <3>5, <3>6 DEF ClientInv
    <2> QED BY <1>1, <2>1, <2>4, <2>5 DEF CallInv
  <1>14. CASE benthos_dc_registry_cleanup
    <2>1. up' \in BOOLEAN
      <3>1. up' = FALSE BY <1>14 DEF benthos_dc_registry_cleanup
      <3> QED BY <3>1
    <2>2. /\ manifest_files' = <<>> /\ manifest_paths' = <<>>
          /\ plugin_files' = <<>> /\ plugin_paths' = <<>>
          /\ manifests' = EmptyTable /\ drivers' = <<>> /\ libraries' = EmptyTable
          /\ it' = 0 /\ failed' = {} /\ scan' = scan
      BY <1>14 DEF benthos_dc_registry_cleanup, Cleared
    <2>3. CallInv'
      <3>1. \A S : <<>> \in Seq(S) OBVIOUS
      <3> QED BY <2>1, <2>2, <3>1 DEF CallInv
    <2>4. TableInv(manifests', drivers') BY <2>2, NothingLoaded
    <2>5. \A f \in PluginFiles :
            /\ handles[f] = Cardinality(LoadedFrom(f)) /\ handles[f] \in Nat
            /\ active[f] = Cardinality(LoadedFrom(f)) /\ active[f] \in Nat
      BY DEF LoadInv, LoadsBalanced
    <2>6. /\ handles' = [f \in PluginFiles |-> handles[f] - Cardinality(LoadedFrom(f))]
          /\ active' = [f \in PluginFiles |-> active[f] - Cardinality(LoadedFrom(f))]
      BY <1>14 DEF benthos_dc_registry_cleanup
    <2>7. /\ handles' \in [PluginFiles -> Nat] /\ active' \in [PluginFiles -> Nat]
          /\ \A f \in PluginFiles : handles'[f] = 0 /\ active'[f] = 0
      BY <2>5, <2>6
    <2>8. LoadInv'
      <3>1. \A f : LoadedFrom(f)' = {} BY <2>2, NothingLoaded DEF LoadedFrom
      <3>2. LoadsBalanced' BY <2>7, <3>1, FS_EmptySet DEF LoadsBalanced
      <3>3. DOMAIN libraries' = {} BY <2>2 DEF EmptyTable
      <3> QED BY <2>7, <3>2, <3>3, FS_EmptySet DEF LoadInv
    <2>9. ClientInv'
      <3>1. Len(drivers') = 0 BY <2>2
      <3> QED BY <2>2, <3>1 DEF ClientInv
    <2> QED BY <2>3, <2>4, <2>8, <2>9
  <1>15. CASE UNCHANGED vars
    BY <1>1, <1>2, <1>3, <1>15 DEF vars, registryVars, CallInv
  <1>16. CASE parser_crash
    <2>1. up' \in BOOLEAN
      <3>1. up' = FALSE BY <1>16 DEF parser_crash, ProcessEnds
      <3> QED BY <3>1
    <2>2. /\ manifest_files' = <<>> /\ manifest_paths' = <<>>
          /\ plugin_files' = <<>> /\ plugin_paths' = <<>>
          /\ manifests' = EmptyTable /\ drivers' = <<>> /\ libraries' = EmptyTable
          /\ it' = 0 /\ failed' = {} /\ scan' = <<>>
      BY <1>16 DEF parser_crash, ProcessEnds, Cleared
    <2>3. CallInv'
      <3>1. \A S : <<>> \in Seq(S) OBVIOUS
      <3> QED BY <2>1, <2>2, <3>1 DEF CallInv
    <2>4. TableInv(manifests', drivers') BY <2>2, NothingLoaded
    <2>5. /\ handles' = [f \in PluginFiles |-> 0] /\ active' = [f \in PluginFiles |-> 0]
      BY <1>16 DEF parser_crash, ProcessEnds
    <2>6. LoadInv'
      <3>1. \A f : LoadedFrom(f)' = {} BY <2>2, NothingLoaded DEF LoadedFrom
      <3>2. LoadsBalanced' BY <2>5, <3>1, FS_EmptySet DEF LoadsBalanced
      <3>3. DOMAIN libraries' = {} BY <2>2 DEF EmptyTable
      <3> QED BY <2>5, <3>2, <3>3, FS_EmptySet DEF LoadInv
    <2>7. ClientInv'
      <3>1. Len(drivers') = 0 BY <2>2
      <3> QED BY <2>2, <3>1 DEF ClientInv
    <2> QED BY <2>3, <2>4, <2>6, <2>7
  <1> QED
    BY <1>5, <1>6, <1>7, <1>8, <1>9, <1>10, <1>11, <1>12, <1>13, <1>14, <1>15, <1>16 DEF Next

(* The invariant holds in every state of every execution.                  *)
THEOREM Invariance == Spec => []IInv
  BY InitHolds, NextKeeps, PTL DEF Spec

(* The variables of the registry hold values of their kinds.               *)
THEOREM TypeCorrect == Spec => []TypeOK
  <1>1. IInv => TypeOK
    BY DEF IInv, CallInv, TableInv, ManifestsOK, LoadInv, ClientInv, TypeOK
  <1> QED BY <1>1, Invariance, PTL

(* Loads are undone as often as they are done: whatever libraries there    *)
(* are, however many plugins share one, and whichever loads fail.          *)
THEOREM LoadsAreBalanced == Spec => []LoadsBalanced
  <1>1. IInv => LoadsBalanced BY DEF IInv, LoadInv
  <1> QED BY <1>1, Invariance, PTL

(* The drivers list shows the drivers of the registered manifests and no   *)
(* others, whatever manifests are added and in whatever order.             *)
THEOREM DriversAreOwned == Spec => []DriversOwned
  <1>1. IInv => DriversOwned
    BY DEF IInv, TableInv, Owned, Complete, Places, DriversOwned
  <1> QED BY <1>1, Invariance, PTL

(* A dotted name is split where it was put together, if the plugin's name  *)
(* has no dot; the driver's may have some.                                 *)
LEMMA SplitDotted ==
  ASSUME NEW p, NEW d, IsName(p), IsName(d), Len(p) = 1
  PROVE  Split(p \o d).plugin = p /\ Split(p \o d).driver = d
  <1> DEFINE S == ToSet(p) \cup ToSet(d)
             n == p \o d
  <1>1. p \in Seq(S) /\ d \in Seq(S) BY DEF IsName
  <1> HIDE DEF S
  <1>2. Len(d) \in Nat /\ Len(d) # 0 BY <1>1, EmptySeq DEF IsName
  <1>3. /\ n \in Seq(S) /\ Len(n) = Len(d) + 1
        /\ \A i \in 1 .. Len(d) + 1 : n[i] = IF i <= 1 THEN p[i] ELSE d[i - 1]
    <2>1. /\ n \in Seq(S) /\ Len(n) = Len(p) + Len(d)
          /\ \A i \in 1 .. Len(p) + Len(d) : n[i] = IF i <= Len(p) THEN p[i] ELSE d[i - Len(p)]
      BY <1>1, ConcatProperties
    <2> HIDE DEF n
    <2>2. Len(p) + Len(d) = Len(d) + 1 BY <1>2
    <2> QED BY <2>1, <2>2
  <1> HIDE DEF n
  <1>4. n # <<>> /\ Len(n) # 1 BY <1>2, <1>3
  <1>5. Head(n) = p[1] BY <1>2, <1>3, <1>4
  <1>6. p = <<p[1]>> BY <1>1
  <1>7. Tail(n) = d
    <2>1. /\ Tail(n) \in Seq(S) /\ Len(Tail(n)) = Len(d)
          /\ \A i \in 1 .. Len(d) : Tail(n)[i] = n[i + 1]
      BY <1>2, <1>3, <1>4
    <2>2. \A i \in 1 .. Len(d) : n[i + 1] = d[i]
      <3>1. \A i \in 1 .. Len(d) : i + 1 \in 1 .. Len(d) + 1 /\ ~(i + 1 <= 1) /\ (i + 1) - 1 = i
        BY <1>2
      <3> QED BY <1>3, <3>1
    <2>3. \A i \in 1 .. Len(d) : Tail(n)[i] = d[i] BY <2>1, <2>2
    <2> QED BY <1>1, <2>1, <2>3, SeqEqual
  <1>8. Split(n) = [plugin |-> <<Head(n)>>, driver |-> Tail(n)] BY <1>4 DEF Split
  <1>9. Split(n).plugin = p /\ Split(n).driver = d BY <1>5, <1>6, <1>7, <1>8
  <1> QED BY <1>9 DEF n

(* Every driver in the list is found under its dotted name, whatever the   *)
(* plugins are called, if the name of its own plugin has no dot.           *)
THEOREM DottedNamesAreEnough == Spec => []DottedNamesResolve
  <1>1. ASSUME IInv, NEW i \in 1 .. Len(drivers), Len(drivers[i].plugin) = 1
        PROVE  benthos_dc_registry_driver_info(drivers[i].plugin \o drivers[i].driver) = drivers[i]
    <2> DEFINE p == drivers[i].plugin
               d == drivers[i].driver
               n == p \o d
               c == Candidates(n)
               x == drivers[CHOOSE j \in c : TRUE]
    <2>1. IsGiven(p) /\ IsName(d)
      <3>1. /\ Lower[p] \in DOMAIN manifests /\ manifests[Lower[p]].name = p
            /\ \E j \in 1 .. Len(manifests[Lower[p]].drivers) : manifests[Lower[p]].drivers[j].name = d
        BY <1>1 DEF IInv, TableInv, Owned
      <3>2. IsGiven(p) /\ IsManifest(manifests[Lower[p]], p)
        BY <1>1, <3>1 DEF IInv, TableInv, ManifestsOK
      <3> QED BY <3>1, <3>2 DEF IsManifest
    <2>2. p # NoName /\ IsName(p) /\ Len(p) = 1 BY <1>1, <2>1 DEF IsGiven
    <2>3. Split(n).plugin = p /\ Split(n).driver = d
      <3> HIDE DEF p, d
      <3> QED BY <2>1, <2>2, SplitDotted
    <2> HIDE DEF n
    <2>4. \A j : j \in c <=> /\ j \in 1 .. Len(drivers)
                             /\ SameName(drivers[j].plugin, p) /\ SameName(drivers[j].driver, d)
      <3> HIDE DEF p, d
      <3> QED BY <2>2, <2>3 DEF Candidates
    <2>5. i \in c BY <2>4 DEF SameName
    <2>6. \A j \in c : j = i BY <1>1, <2>4 DEF IInv, TableInv, Distinct
    <2> HIDE DEF c
    <2>7. c = {i} BY <2>5, <2>6
    <2>8. Cardinality(c) = 1 BY <2>7, FS_Singleton
    <2>9. x = drivers[i] BY <2>7
    <2>10. benthos_dc_registry_driver_info(n)
             = CASE Cardinality(c) = 0 -> NotFound
                 [] Cardinality(c) = 1 -> x
                 [] OTHER -> Ambiguous
      BY DEF benthos_dc_registry_driver_info, c
    <2> HIDE DEF x
    <2> QED BY <2>8, <2>9, <2>10 DEF n, p, d
  <1>2. IInv => DottedNamesResolve BY <1>1 DEF DottedNamesResolve
  <1> QED BY <1>2, Invariance, PTL
=============================================================================
