-------------------------- MODULE ParseDivesProofs --------------------------
(***************************************************************************)
(* Proofs about the parser for Smart dives in the loop of run_parser, for  *)
(* all models, all headers and profiles of any bytes and any length.       *)
(***************************************************************************)
EXTENDS ParseDives, ListLemmas, FiniteSetTheorems

-----------------------------------------------------------------------------
(* The tables.  Where the code of a DTI is a number of ones, entry i of    *)
(* the table is for the code of i - 1 ones and a zero: it has i type bits. *)
(* The codes of the Galileo are in one byte.                               *)

EntryOK(e) ==
  e.idx \in 0 .. 2 /\ e.ntb \in 1 .. 14 /\ e.extra \in 0 .. 2

UnaryTable(t) == Len(t) \in Nat /\ Len(t) <= 14
                 /\ \A i \in 1 .. Len(t) : EntryOK(t[i]) /\ t[i].ntb = i

(* The numbers of an entry, as the tables give them.                       *)
LEMMA DtiFields ==
  ASSUME NEW type, NEW abs, NEW idx, NEW ntb, NEW ignore, NEW extra
  PROVE  /\ DTI(type, abs, idx, ntb, ignore, extra).idx = idx
         /\ DTI(type, abs, idx, ntb, ignore, extra).ntb = ntb
         /\ DTI(type, abs, idx, ntb, ignore, extra).extra = extra
  BY DEF DTI

(* smart_pro_table has an entry for every code of 0 to 7 ones.             *)
LEMMA ProTable == UnaryTable(smart_pro_table) /\ Len(smart_pro_table) = 8
  <1> DEFINE t == smart_pro_table
  <1>1. Len(t) = 8 BY DEF smart_pro_table
  <1>2. \A i \in 1 .. 8 : EntryOK(t[i]) /\ t[i].ntb = i
    BY DtiFields DEF smart_pro_table, EntryOK
  <1> QED BY <1>1, <1>2 DEF UnaryTable

(* smart_aladin_table has one entry more.                                  *)
LEMMA AladinTable == UnaryTable(smart_aladin_table)
  <1> DEFINE s == smart_pro_table
             x == DTI("alarms", 1, 1, 9, 0, 0)
             a == Append(s, x)
  <1>1. s = [i \in 1 .. 8 |-> s[i]] BY DEF smart_pro_table
  <1>2. x.idx = 1 /\ x.ntb = 9 /\ x.extra = 0 BY DtiFields
  <1>3. Len(s) = 8 /\ \A i \in 1 .. 8 : EntryOK(s[i]) /\ s[i].ntb = i
    BY ProTable DEF UnaryTable
  <1> HIDE DEF s, x
  <1>4. IsList(s) BY <1>1, FunctionIsList
  <1>5. Len(a) = Len(s) + 1 /\ a[Len(s) + 1] = x /\ \A i \in 1 .. Len(s) : a[i] = s[i]
    BY <1>4, AppendIsList
  <1> HIDE DEF a
  <1>6. Len(a) = 9 /\ a[9] = x /\ \A i \in 1 .. 8 : a[i] = s[i] BY <1>3, <1>5
  <1>7. \A i \in 1 .. 9 : EntryOK(a[i]) /\ a[i].ntb = i
    <2>1. EntryOK(x) BY <1>2 DEF EntryOK
    <2>2. \A i \in 1 .. 9 : i = 9 \/ i \in 1 .. 8 OBVIOUS
    <2> QED BY <1>2, <1>3, <1>6, <2>1, <2>2
  <1> QED BY <1>6, <1>7 DEF UnaryTable, smart_aladin_table, s, x, a

(* smart_com_table has an entry for every code of 0 to 11 ones.            *)
LEMMA ComTable == UnaryTable(smart_com_table) /\ Len(smart_com_table) = 12 /\ IsList(smart_com_table)
  <1> DEFINE t == smart_com_table
  <1>1. Len(t) = 12 BY DEF smart_com_table
  <1>2. \A i \in 1 .. 12 : EntryOK(t[i]) /\ t[i].ntb = i
    BY DtiFields DEF smart_com_table, EntryOK
  <1>3. t = [i \in 1 .. 12 |-> t[i]] BY DEF smart_com_table
  <1> HIDE DEF t
  <1>4. IsList(t) BY <1>3, FunctionIsList
  <1> QED BY <1>1, <1>2, <1>4 DEF UnaryTable, t

(* smart_tec_table shares its front with smart_com_table.                  *)
LEMMA TecTable == UnaryTable(smart_tec_table)
  <1> DEFINE c == smart_com_table
             s == SubSeq(c, 1, 11)
             r == << DTI("pressure", 1, 1, 12, 1, 2), DTI("pressure", 1, 2, 13, 1, 2),
                     DTI("rbt", 1, 0, 14, 1, 1) >>
  <1>1. /\ Len(r) = 3 /\ r = [i \in 1 .. 3 |-> r[i]]
        /\ \A i \in 1 .. 3 : EntryOK(r[i]) /\ r[i].ntb = 11 + i
    BY DtiFields DEF EntryOK
  <1>2. PICK S : c \in Seq(S) BY ComTable DEF IsList
  <1>9. Len(c) = 12 BY ComTable
  <1>3. \A i \in 1 .. 12 : EntryOK(c[i]) /\ c[i].ntb = i BY ComTable DEF UnaryTable
  <1> HIDE DEF c, r
  <1>4. s \in Seq(S) /\ Len(s) = 11 /\ \A i \in 1 .. 11 : s[i] = c[i]
    <2>1. \A i \in 1 .. 11 : c[i] \in S
      <3>1. \A i \in 1 .. Len(c) : c[i] \in S BY <1>2
      <3> QED BY <1>9, <3>1
    <2>2. /\ s \in Seq(S) /\ Len(s) = (IF 1 <= 11 THEN (11 - 1) + 1 ELSE 0)
          /\ \A i \in 1 .. (11 - 1) + 1 : s[i] = c[(1 + i) - 1]
      BY <2>1, SubSeqProperties
    <2> HIDE DEF s
    <2> QED BY <2>2
  <1> DEFINE t == s \o r
  <1> HIDE DEF s
  <1>5. IsList(s) /\ IsList(r) BY <1>1, <1>4, SequenceIsList, FunctionIsList
  <1>6. /\ Len(t) = Len(s) + Len(r) /\ \A i \in 1 .. Len(s) : t[i] = s[i]
        /\ \A i \in 1 .. Len(r) : t[Len(s) + i] = r[i]
    BY <1>5, ConcatIsList
  <1> HIDE DEF t
  <1>7. /\ Len(t) = 14 /\ \A i \in 1 .. 11 : t[i] = c[i]
        /\ \A i \in 1 .. 3 : t[11 + i] = r[i]
    BY <1>1, <1>4, <1>6
  <1>8. ASSUME NEW i \in 1 .. 14 PROVE EntryOK(t[i]) /\ t[i].ntb = i
    <2>1. CASE i \in 1 .. 11 BY <1>3, <1>7, <2>1
    <2>2. CASE i \in 12 .. 14
      <3>1. i - 11 \in 1 .. 3 /\ 11 + (i - 11) = i BY <2>2
      <3> QED BY <1>1, <1>7, <3>1
    <2>3. i \in 1 .. 11 \/ i \in 12 .. 14 OBVIOUS
    <2> QED BY <2>1, <2>2, <2>3
  <1> QED BY <1>7, <1>8 DEF UnaryTable, smart_tec_table, s, c, r, t

(* smart_galileo_sol_table has 17 entries, with type bits of one byte.     *)
LEMMA GalileoTable ==
  /\ Len(smart_galileo_sol_table) = 17
  /\ \A i \in 1 .. 17 :
       EntryOK(smart_galileo_sol_table[i]) /\ smart_galileo_sol_table[i].ntb <= 8
  <1> DEFINE t == smart_galileo_sol_table
  <1>1. Len(t) = 17 BY DEF smart_galileo_sol_table
  <1>2. \A i \in 1 .. 8 : EntryOK(t[i]) /\ t[i].ntb <= 8
    BY DtiFields DEF smart_galileo_sol_table, EntryOK
  <1>3. \A i \in 9 .. 17 : EntryOK(t[i]) /\ t[i].ntb <= 8
    BY DtiFields DEF smart_galileo_sol_table, EntryOK
  <1> HIDE DEF t
  <1>4. \A i \in 1 .. 17 : i \in 1 .. 8 \/ i \in 9 .. 17 OBVIOUS
  <1>5. \A i \in 1 .. 17 : EntryOK(t[i]) /\ t[i].ntb <= 8 BY <1>2, <1>3, <1>4
  <1> QED BY <1>1, <1>5 DEF t

(* What the table of a model has for a code.                               *)
LEMMA Tables ==
  ASSUME NEW m \in Models
  PROVE  /\ Len(dti_table(m)) \in Nat
         /\ \A i \in 1 .. Len(dti_table(m)) : EntryOK(dti_table(m)[i])
         /\ m = "galileo_sol" =>
              \A i \in 1 .. Len(dti_table(m)) : dti_table(m)[i].ntb <= 8
         /\ m # "galileo_sol" =>
              /\ \A i \in 1 .. Len(dti_table(m)) : dti_table(m)[i].ntb = i
              /\ Len(dti_table(m)) <= 14
  <1> DEFINE t == dti_table(m)
  <1>1. CASE m = "galileo_sol"
    <2>1. t = smart_galileo_sol_table BY <1>1 DEF dti_table
    <2> HIDE DEF t
    <2>2. Len(t) = 17 /\ \A i \in 1 .. 17 : EntryOK(t[i]) /\ t[i].ntb <= 8
      BY <2>1, GalileoTable
    <2>3. /\ Len(t) \in Nat /\ \A i \in 1 .. Len(t) : EntryOK(t[i])
          /\ \A i \in 1 .. Len(t) : t[i].ntb <= 8
      BY <2>2
    <2> QED BY <1>1, <2>3 DEF t
  <1>2. CASE m # "galileo_sol"
    <2>1. \/ t = smart_pro_table \/ t = smart_aladin_table
          \/ t = smart_com_table \/ t = smart_tec_table
      BY <1>2 DEF Models, dti_table
    <2> HIDE DEF t
    <2>2. UnaryTable(t) BY <2>1, ProTable, AladinTable, ComTable, TecTable
    <2>3. /\ Len(t) \in Nat /\ \A i \in 1 .. Len(t) : EntryOK(t[i])
          /\ \A i \in 1 .. Len(t) : t[i].ntb = i
          /\ Len(t) <= 14
      BY <2>2 DEF UnaryTable
    <2> QED BY <1>2, <2>3 DEF t
  <1> QED BY <1>1, <1>2

-----------------------------------------------------------------------------
(* One DTI.                                                                *)

(* A number of one byte in n steps, as LEMMA Least has it: what the loop   *)
(* over the extra bytes has read up to byte k.                             *)
IsRead(r, rest, d, at, k) ==
  r = [i \in 0 .. k |-> IF i = 0 THEN rest ELSE (r[i - 1] * 256) + Byte(d, at + i - 1)]

(* The loop over the extra bytes has a result.                             *)
LEMMA ReadExists ==
  ASSUME NEW rest, NEW d, NEW at, NEW n \in Nat
  PROVE  \E r : IsRead(r, rest, d, at, n)
  <1> DEFINE T == {k \in Nat : ~\E r : IsRead(r, rest, d, at, k)}
  <1>1. SUFFICES ASSUME T # {} PROVE FALSE OBVIOUS
  <1>2. PICK k \in T : \A m \in T : k <= m BY <1>1, Least
  <1>3. CASE k = 0
    <2>1. IsRead([i \in 0 .. 0 |-> rest], rest, d, at, 0) BY DEF IsRead
    <2> QED BY <1>2, <1>3, <2>1
  <1>4. CASE k > 0
    <2>1. k - 1 \in Nat /\ k - 1 \notin T BY <1>2, <1>4
    <2>2. PICK r : IsRead(r, rest, d, at, k - 1) BY <2>1
    <2> DEFINE b(i) == Byte(d, at + i - 1)
               g == [i \in 0 .. k |-> IF i < k THEN r[i] ELSE (r[k - 1] * 256) + b(k)]
    <2>3. \A i \in 0 .. (k - 1) : r[i] = IF i = 0 THEN rest ELSE (r[i - 1] * 256) + b(i)
      BY <2>2 DEF IsRead
    <2> HIDE DEF b
    <2>4. \A i \in 0 .. k : g[i] = IF i = 0 THEN rest ELSE (g[i - 1] * 256) + b(i)
      BY <1>4, <2>1, <2>3
    <2>5. g = [i \in 0 .. k |-> IF i = 0 THEN rest ELSE (g[i - 1] * 256) + b(i)] BY <2>4
    <2>6. IsRead(g, rest, d, at, k) BY <2>5 DEF IsRead, b
    <2> QED BY <1>2, <2>6
  <1> QED BY <1>2, <1>3, <1>4

(* A byte of the profile, or of what is behind it, is a byte.              *)
LEMMA ByteType ==
  ASSUME NEW d \in Seq(0 .. 255), NEW i \in Int
  PROVE  Byte(d, i) \in Nat /\ Byte(d, i) <= 255
  <1>1. CASE i \in 0 .. Len(d) - 1
    <2>1. i + 1 \in 1 .. Len(d) BY <1>1
    <2>2. d[i + 1] \in 0 .. 255 BY <2>1, ElementOfSeq
    <2>3. Byte(d, i) = d[i + 1] BY <1>1 DEF Byte
    <2>4. \A x \in 0 .. 255 : x \in Nat /\ x <= 255 OBVIOUS
    <2> QED BY <2>2, <2>3, <2>4
  <1>2. CASE i \notin 0 .. Len(d) - 1 BY <1>2 DEF Byte
  <1> QED BY <1>1, <1>2

(* A value of any number of bytes is a natural number.                     *)
LEMMA ExtendedType ==
  ASSUME NEW rest \in Nat, NEW d \in Seq(0 .. 255), NEW at \in Int, NEW n \in Nat
  PROVE  Extended(rest, d, at, n) \in Nat
  <1> DEFINE r == CHOOSE r : IsRead(r, rest, d, at, n)
  <1>1. IsRead(r, rest, d, at, n) BY ReadExists
  <1>2. Extended(rest, d, at, n) = r[n] BY DEF Extended, IsRead
  <1> HIDE DEF r
  <1> DEFINE T == {i \in 0 .. n : r[i] \notin Nat}
  <1>3. SUFFICES ASSUME T # {} PROVE FALSE BY <1>2
  <1>4. PICK i \in T : \A j \in T : i <= j
    <2>1. T \in SUBSET Nat OBVIOUS
    <2> HIDE DEF T
    <2> QED BY <1>3, <2>1, Least
  <1>5. i \in 0 .. n /\ r[i] = IF i = 0 THEN rest ELSE (r[i - 1] * 256) + Byte(d, at + i - 1)
    BY <1>1, <1>4 DEF IsRead
  <1>6. CASE i = 0 BY <1>4, <1>5, <1>6
  <1>7. CASE i # 0
    <2>1. i - 1 \in 0 .. n /\ i - 1 \notin T BY <1>4, <1>5, <1>7
    <2>2. r[i - 1] \in Nat BY <2>1
    <2>3. at + i - 1 \in Int BY <1>5
    <2>4. Byte(d, at + i - 1) \in Nat BY <2>3, ByteType
    <2>5. r[i] \in Nat BY <1>5, <1>7, <2>2, <2>4
    <2> QED BY <1>4, <2>5
  <1> QED BY <1>6, <1>7

(* The value of a DTI is a number, also for an entry behind the table.     *)
LEMMA ValueType ==
  ASSUME NEW d \in Seq(0 .. 255), NEW o \in Nat, NEW dti,
         dti.ntb \in 0 .. 255, dti.extra \in 0 .. 255
  PROVE  /\ process_dti(dti, d, o).value \in Nat
         /\ process_dti(dti, d, o).offset = ExtraAt(dti, o) + dti.extra
         /\ ExtraAt(dti, o) \in Nat /\ o <= ExtraAt(dti, o)
  <1> DEFINE at == ExtraAt(dti, o)
             used == IF dti.ignore THEN 0 ELSE RestBits(dti)
             rest == Byte(d, at - 1) % (2 ^ used)
  <1>1. at \in Nat /\ o <= at
    <2>1. \A n \in 0 .. 255 : /\ o + (n \div 8) + (IF n % 8 > 0 THEN 1 ELSE 0) \in Nat
                             /\ o <= o + (n \div 8) + (IF n % 8 > 0 THEN 1 ELSE 0)
      OBVIOUS
    <2> QED BY <2>1 DEF ExtraAt
  <1>2. used \in 0 .. 7
    <2>1. \A n \in 0 .. 255 : (IF n % 8 > 0 THEN 8 - (n % 8) ELSE 0) \in 0 .. 7 OBVIOUS
    <2>2. RestBits(dti) \in 0 .. 7 BY <2>1 DEF RestBits
    <2> QED BY <2>2
  <1> HIDE DEF at, used
  <1>3. 2 ^ used \in {1, 2, 4, 8, 16, 32, 64, 128}
    <2>1. CASE used = 0 BY <2>1
    <2>2. CASE used = 1 BY <2>2
    <2>3. CASE used = 2 BY <2>3
    <2>4. CASE used = 3 BY <2>4
    <2>5. CASE used = 4 BY <2>5
    <2>6. CASE used = 5 BY <2>6
    <2>7. CASE used = 6 BY <2>7
    <2>8. CASE used = 7 BY <2>8
    <2> QED BY <1>2, <2>1, <2>2, <2>3, <2>4, <2>5, <2>6, <2>7, <2>8
  <1>4. rest \in Nat
    <2>0. at - 1 \in Int BY <1>1
    <2>1. Byte(d, at - 1) \in Nat BY <2>0, ByteType
    <2>2. \A x \in Nat, y \in {1, 2, 4, 8, 16, 32, 64, 128} : x % y \in Nat OBVIOUS
    <2> QED BY <1>3, <2>1, <2>2
  <1> HIDE DEF rest
  <1>5. Extended(rest, d, at, dti.extra) \in Nat
    <2>1. \A x \in 0 .. 255 : x \in Nat OBVIOUS
    <2>2. dti.extra \in Nat BY <2>1
    <2>3. at \in Int BY <1>1
    <2> QED BY <1>4, <2>2, <2>3, ExtendedType
  <1>6. process_dti(dti, d, o).value = Extended(rest, d, at, dti.extra)
    BY DEF process_dti, at, used, rest
  <1>7. process_dti(dti, d, o).offset = at + dti.extra BY DEF process_dti, at
  <1> QED BY <1>1, <1>5, <1>6, <1>7 DEF at

(* The code that smart_identify or galileo_identify finds is for type bits *)
(* that lie inside the data.                                               *)
LEMMA TypeBitsInside ==
  ASSUME NEW m \in Models, NEW d \in Seq(0 .. 255), NEW o \in Nat, o < Len(d),
         identify(m, d, o) < Len(dti_table(m))
  PROVE  /\ identify(m, d, o) + 1 \in 1 .. Len(dti_table(m))
         /\ ExtraAt(dti_table(m)[identify(m, d, o) + 1], o) <= Len(d)
  <1> DEFINE c == identify(m, d, o)
             t == dti_table(m)
  <1>1. Len(t) \in Nat /\ \A i \in 1 .. Len(t) : EntryOK(t[i]) BY Tables
  <1>2. CASE m = "galileo_sol"
    <2>1. \A i \in 1 .. Len(t) : t[i].ntb <= 8 BY <1>2, Tables
    <2>2. c = galileo_identify(Byte(d, o)) BY <1>2 DEF identify
    <2>3. Byte(d, o) \in Nat /\ Byte(d, o) <= 255
      <3>1. o \in Int OBVIOUS
      <3> QED BY <3>1, ByteType
    <2>4. c \in Nat
      <3>1. \A v \in Nat : v <= 255 =>
              \/ v < 128 \/ v \in 128 .. 159 \/ v \in 160 .. 239 \/ v >= 240
        OBVIOUS
      <3>2. \A v \in Nat : (v \div 16) % 8 \in Nat /\ (v % 16) + 7 \in Nat OBVIOUS
      <3>3. ASSUME NEW v \in Nat, v <= 255 PROVE galileo_identify(v) \in Nat
        BY <3>1, <3>2, <3>3 DEF galileo_identify
      <3> QED BY <2>2, <2>3, <3>3
    <2> HIDE DEF c, t
    <2>5. c + 1 \in 1 .. Len(t) BY <1>1, <2>4 DEF c, t
    <2>6. t[c + 1].ntb \in 1 .. 8
      <3>1. EntryOK(t[c + 1]) /\ t[c + 1].ntb <= 8 BY <1>1, <2>1, <2>5
      <3>2. t[c + 1].ntb \in 1 .. 14 BY <3>1 DEF EntryOK
      <3>3. \A n \in 1 .. 14 : n <= 8 => n \in 1 .. 8 OBVIOUS
      <3> QED BY <3>1, <3>2, <3>3
    <2>7. ExtraAt(t[c + 1], o) = o + 1 BY <2>6 DEF ExtraAt
    <2> QED BY <2>5, <2>7 DEF c, t
  <1>3. CASE m # "galileo_sol"
    <2>1. (\A i \in 1 .. Len(t) : t[i].ntb = i) /\ Len(t) <= 14 BY <1>3, Tables
    <2> DEFINE left == Len(d) - o
               limit == IF left > 8 THEN 64 ELSE 8 * left
               zeros == {k \in 0 .. limit - 1 : Bit(d, (8 * o) + k) = 0}
    <2>2. c = IF zeros = {} THEN 255 ELSE Min(zeros) BY <1>3 DEF identify, smart_identify
    <2>3. left \in Nat /\ limit \in Nat /\ limit <= 8 * left OBVIOUS
    <2>4. zeros \in SUBSET Nat OBVIOUS
    <2>5. zeros \subseteq 0 .. limit - 1 OBVIOUS
    <2> HIDE DEF c, t, left, limit, zeros
    <2>6. zeros # {} BY <1>1, <2>1, <2>2 DEF c, t
    <2>7. Min(zeros) \in zeros BY <2>4, <2>6, Least DEF Min
    <2>8. c \in 0 .. (8 * left) - 1
      <3>1. c \in 0 .. limit - 1 BY <2>2, <2>5, <2>6, <2>7
      <3> QED BY <2>3, <3>1
    <2>9. c + 1 \in 1 .. Len(t) BY <1>1, <2>3, <2>8 DEF c, t
    <2>10. t[c + 1].ntb = c + 1 BY <2>1, <2>9
    <2>11. ExtraAt(t[c + 1], o) <= o + left BY <2>3, <2>8, <2>10 DEF ExtraAt
    <2>12. o + left = Len(d) BY DEF left
    <2> QED BY <2>9, <2>11, <2>12 DEF c, t
  <1> QED BY <1>2, <1>3

-----------------------------------------------------------------------------
(* What a DTI may change in the parser.                                    *)

Fields == {"val", "alarms", "tank", "time", "dcal", "complete", "calibrated", "have"}

IsParser(q) == DOMAIN q = Fields /\ DOMAIN q.val = Readings

(* The fields other than val and alarms.                                   *)
Rest(q, r) ==
  /\ r.tank = q.tank /\ r.time = q.time /\ r.dcal = q.dcal
  /\ r.complete = q.complete /\ r.calibrated = q.calibrated

(* A relative value changes a reading and nothing else.                    *)
LEMMA AddKeeps ==
  ASSUME NEW q, IsParser(q), NEW r, NEW delta
  PROVE  IsParser(Add(q, r, delta)) /\ Rest(q, Add(q, r, delta)) /\ Add(q, r, delta).have = q.have
  BY DEF IsParser, Fields, Rest, Add

(* An absolute value changes a reading and makes the parser have it.       *)
LEMMA SetKeeps ==
  ASSUME NEW q, IsParser(q), NEW r \in Readings, NEW x
  PROVE  /\ IsParser(Set(q, r, x)) /\ Rest(q, Set(q, r, x))
         /\ Set(q, r, x).have = q.have \cup {r} /\ Set(q, r, x).val[r] = x
  BY DEF IsParser, Fields, Rest, Set

(* The effect of a DTI that matters to the waypoints.                      *)
Effect(q, dti, v, r) ==
  /\ IsParser(r) /\ r.time = q.time
  /\ r.tank = q.tank \/ r.tank = dti.idx
  /\ r.complete = q.complete \/ r.complete = 1 \/ r.complete = v.value
  /\ \/ r.have = q.have
     \/ /\ dti.abs \/ dti.type \in Single
        /\ dti.type # "time" /\ r.have = q.have \cup {dti.type}
  /\ r.calibrated = q.calibrated \/ "depth" \in r.have
  /\ "depth" \in r.have =>
       \/ "depth" \in q.have
       \/ r.complete = 1 /\ r.val.depth = 2 * v.value
          /\ r.dcal = (IF q.calibrated THEN q.dcal ELSE 2 * v.value)

(* A depth record: the first absolute one sets the surface.                *)
LEMMA DepthEffect ==
  ASSUME NEW q, IsParser(q), NEW dti, dti.type = "depth", NEW v
  PROVE  Effect(q, dti, v, Depth(q, dti, v))
  <1> "depth" \in Readings BY DEF Readings
  <1>1. CASE dti.abs
    <2> DEFINE s == Set(q, "depth", 2 * v.value)
               c == IF q.calibrated THEN q.dcal ELSE 2 * v.value
               r == [s EXCEPT !.calibrated = TRUE,
                              !.dcal = IF q.calibrated THEN @ ELSE 2 * v.value,
                              !.complete = 1]
    <2>1. Depth(q, dti, v) = r BY <1>1 DEF Depth
    <2>2. IsParser(s) /\ Rest(q, s) /\ s.have = q.have \cup {"depth"} /\ s.val["depth"] = 2 * v.value
      BY SetKeeps
    <2> HIDE DEF s
    <2>3. /\ DOMAIN r = DOMAIN s /\ r.val = s.val /\ r.time = s.time /\ r.tank = s.tank
          /\ r.have = s.have /\ r.complete = 1
          /\ r.dcal = (IF q.calibrated THEN s.dcal ELSE 2 * v.value)
      BY <2>2 DEF IsParser, Fields
    <2> HIDE DEF r
    <2> QED BY <1>1, <2>1, <2>2, <2>3 DEF Effect, IsParser, Rest
  <1>2. CASE ~dti.abs
    <2> DEFINE s == Add(q, "depth", 2 * v.svalue)
               r == [s EXCEPT !.complete = 1]
    <2>1. Depth(q, dti, v) = r BY <1>2 DEF Depth
    <2>2. IsParser(s) /\ Rest(q, s) /\ s.have = q.have BY AddKeeps
    <2> HIDE DEF s
    <2>3. /\ DOMAIN r = DOMAIN s /\ r.val = s.val /\ r.time = s.time /\ r.tank = s.tank
          /\ r.have = s.have /\ r.complete = 1 /\ r.dcal = s.dcal /\ r.calibrated = s.calibrated
      BY <2>2 DEF IsParser, Fields
    <2> HIDE DEF r
    <2> QED BY <2>1, <2>2, <2>3 DEF Effect, IsParser, Rest
  <1> QED BY <1>1, <1>2

(* A temperature, pressure, RBT or heart rate record.                      *)
LEMMA ReadingEffect ==
  ASSUME NEW q, IsParser(q), NEW dti, NEW v,
         dti.type \in {"temp", "pressure", "rbt", "heartrate"}
  PROVE  Effect(q, dti, v, Reading(q, dti, v))
  <1>1. CASE dti.abs
    <2> DEFINE s == Set(q, dti.type, v.value * Scale[dti.type])
               r == [s EXCEPT !.tank = IF dti.type = "pressure" THEN dti.idx ELSE @]
    <2>1. Reading(q, dti, v) = r BY <1>1 DEF Reading
    <2>2. dti.type \in Readings BY DEF Readings
    <2>3. IsParser(s) /\ Rest(q, s) /\ s.have = q.have \cup {dti.type} BY <2>2, SetKeeps
    <2> HIDE DEF s
    <2>4. /\ DOMAIN r = DOMAIN s /\ r.val = s.val /\ r.time = s.time
          /\ r.tank = s.tank \/ r.tank = dti.idx
          /\ r.have = s.have /\ r.complete = s.complete /\ r.dcal = s.dcal
          /\ r.calibrated = s.calibrated
      BY <2>3 DEF IsParser, Fields
    <2> HIDE DEF r
    <2>5. dti.type # "depth" OBVIOUS
    <2> QED BY <1>1, <2>1, <2>3, <2>4, <2>5 DEF Effect, IsParser, Rest
  <1>2. CASE ~dti.abs
    <2> DEFINE s == Add(q, dti.type, v.svalue * Scale[dti.type])
    <2>1. Reading(q, dti, v) = s BY <1>2 DEF Reading
    <2>2. IsParser(s) /\ Rest(q, s) /\ s.have = q.have BY AddKeeps
    <2> HIDE DEF s
    <2> QED BY <2>1, <2>2 DEF Effect, Rest
  <1> QED BY <1>1, <1>2

(* Every record has this effect, also one of an entry behind the table.    *)
LEMMA DtiEffect ==
  ASSUME NEW q, IsParser(q), NEW dti, NEW v
  PROVE  Effect(q, dti, v, parse_dti(q, dti, v))
  <1> DEFINE r == parse_dti(q, dti, v)
  <1>1. CASE dti.type = "depth"
    <2>1. r = Depth(q, dti, v) BY <1>1 DEF parse_dti
    <2> QED BY <1>1, <2>1, DepthEffect
  <1>2. CASE dti.type = "pressure_depth"
    <2> DEFINE s == Add(q, "pressure", 250 * smart_fixsignbit(v.svalue \div 256, 8))
               u == Add(s, "depth", 2 * smart_fixsignbit(v.svalue, 8))
               w == [u EXCEPT !.complete = 1]
    <2>1. r = w BY <1>2 DEF parse_dti
    <2>2. IsParser(s) /\ Rest(q, s) /\ s.have = q.have BY AddKeeps
    <2> HIDE DEF s
    <2>3. IsParser(u) /\ Rest(s, u) /\ u.have = s.have BY <2>2, AddKeeps
    <2> HIDE DEF u
    <2>4. /\ DOMAIN w = DOMAIN u /\ w.val = u.val /\ w.time = u.time /\ w.tank = u.tank
          /\ w.have = u.have /\ w.complete = 1 /\ w.dcal = u.dcal /\ w.calibrated = u.calibrated
      BY <2>3 DEF IsParser, Fields
    <2> HIDE DEF w, r
    <2> QED BY <2>1, <2>2, <2>3, <2>4 DEF Effect, IsParser, Rest, r
  <1>3. CASE dti.type \in {"temp", "pressure", "rbt", "heartrate"}
    <2>1. r = Reading(q, dti, v) BY <1>3 DEF parse_dti
    <2> QED BY <1>3, <2>1, ReadingEffect
  <1>4. CASE dti.type = "bearing"
    <2> DEFINE s == Set(q, "bearing", v.value)
    <2>1. r = s BY <1>4 DEF parse_dti
    <2>2. "bearing" \in Readings BY DEF Readings
    <2>3. IsParser(s) /\ Rest(q, s) /\ s.have = q.have \cup {"bearing"} BY <2>2, SetKeeps
    <2> HIDE DEF s, r
    <2> QED BY <1>4, <2>1, <2>3 DEF Effect, Rest, Single, r
  <1>5. CASE dti.type = "alarms"
    <2> DEFINE w == [q EXCEPT !.alarms[dti.idx + 1] = v.value, !.have = @ \cup {"alarms"}]
    <2>1. r = w BY <1>5 DEF parse_dti
    <2>2. /\ DOMAIN w = DOMAIN q /\ w.val = q.val /\ w.time = q.time /\ w.tank = q.tank
          /\ w.have = q.have \cup {"alarms"} /\ w.complete = q.complete /\ w.dcal = q.dcal
          /\ w.calibrated = q.calibrated
      BY DEF IsParser, Fields
    <2> HIDE DEF w, r
    <2> QED BY <1>5, <2>1, <2>2 DEF Effect, IsParser, Single, r
  <1>6. CASE dti.type = "time"
    <2> DEFINE w == [q EXCEPT !.complete = v.value]
    <2>1. r = w BY <1>6 DEF parse_dti
    <2>2. /\ DOMAIN w = DOMAIN q /\ w.val = q.val /\ w.time = q.time /\ w.tank = q.tank
          /\ w.have = q.have /\ w.complete = v.value /\ w.dcal = q.dcal
          /\ w.calibrated = q.calibrated
      BY DEF IsParser, Fields
    <2> HIDE DEF w, r
    <2> QED BY <2>1, <2>2 DEF Effect, IsParser, r
  <1>7. CASE dti.type \notin {"depth", "pressure_depth", "temp", "pressure", "rbt", "heartrate",
                              "bearing", "alarms", "time"}
    <2>1. r = q BY <1>7 DEF parse_dti
    <2> HIDE DEF r
    <2> QED BY <2>1 DEF Effect, r
  <1> QED BY <1>1, <1>2, <1>3, <1>4, <1>5, <1>6, <1>7

-----------------------------------------------------------------------------
(* What a waypoint consists of.                                            *)

(* An event for a reading that the parser has.                             *)
Had(q, e) == \E r \in q.have : e.token = Token(r) \/ (r = "alarms" /\ e.token = "alarm")

IsWaypoint(q, w) ==
  /\ IsList(w) /\ Len(w) >= 1 /\ w[1] = Event("time", q.time, 0)
  /\ \A j \in 2 .. Len(w) : Had(q, w[j])

HadAll(q, t) == IsList(t) /\ \A j \in 1 .. Len(t) : Had(q, t[j])

(* An optional event of a waypoint.                                        *)
LEMMA IfHad ==
  ASSUME NEW q, NEW test, NEW e, test => Had(q, e)
  PROVE  HadAll(q, If(test, e))
  <1>1. CASE test
    <2>1. If(test, e) = <<e>> BY <1>1 DEF If
    <2>2. <<e>> \in Seq({e}) /\ Len(<<e>>) = 1 /\ <<e>>[1] = e OBVIOUS
    <2>3. IsList(<<e>>) BY <2>2, SequenceIsList
    <2>4. \A j \in 1 .. Len(<<e>>) : <<e>>[j] = e BY <2>2
    <2> QED BY <1>1, <2>1, <2>3, <2>4 DEF HadAll
  <1>2. CASE ~test
    <2>1. If(test, e) = <<>> BY <1>2 DEF If
    <2>2. <<>> \in Seq({}) OBVIOUS
    <2>3. IsList(<<>>) BY <2>2, SequenceIsList
    <2>4. \A j : j \notin 1 .. Len(<<>>) OBVIOUS
    <2> QED BY <2>1, <2>3, <2>4 DEF HadAll
  <1> QED BY <1>1, <1>2

(* The alarm events: one for each bit that is set.                         *)
LEMMA AlarmsHad ==
  ASSUME NEW q
  PROVE  HadAll(q, Alarms(q))
  <1>1. CASE "alarms" \notin q.have
    <2>1. Alarms(q) = <<>> BY <1>1 DEF Alarms
    <2>2. <<>> \in Seq({}) OBVIOUS
    <2>3. IsList(<<>>) BY <2>2, SequenceIsList
    <2>4. \A j : j \notin 1 .. Len(<<>>) OBVIOUS
    <2> QED BY <2>1, <2>3, <2>4 DEF HadAll
  <1>2. CASE "alarms" \in q.have
    <2> DEFINE P == (0 .. 2) \X (0 .. 8)
               on == {a \in P : (q.alarms[a[1] + 1] \div (2 ^ a[2])) % 2 = 1}
               n == Cardinality(on)
    <2>1. n \in Nat
      <3>0. 0 \in Int /\ 2 \in Int /\ 8 \in Int OBVIOUS
      <3>1. IsFiniteSet(0 .. 2) /\ IsFiniteSet(0 .. 8) BY <3>0, FS_Interval, Zenon
      <3>2. IsFiniteSet(P) BY <3>1, FS_Product
      <3>3. on \subseteq P OBVIOUS
      <3> HIDE DEF P, on
      <3>4. IsFiniteSet(on) BY <3>2, <3>3, FS_Subset
      <3> QED BY <3>4, FS_CardinalityType
    <2>2. Alarms(q) = [i \in 1 .. n |-> Event("alarm", 0, 0)] BY <1>2 DEF Alarms
    <2> HIDE DEF n
    <2>3. Alarms(q) = [i \in 1 .. n |-> Alarms(q)[i]] BY <2>2
    <2>4. IsList(Alarms(q)) /\ Len(Alarms(q)) = n BY <2>1, <2>3, FunctionIsList
    <2>5. Event("alarm", 0, 0).token = "alarm" BY DEF Event
    <2>6. Had(q, Event("alarm", 0, 0)) BY <1>2, <2>5 DEF Had
    <2>7. \A j \in 1 .. Len(Alarms(q)) : Alarms(q)[j] = Event("alarm", 0, 0) BY <2>2, <2>4
    <2> QED BY <2>4, <2>6, <2>7 DEF HadAll
  <1> QED BY <1>1, <1>2

(* A waypoint with some more events of readings the parser has.            *)
LEMMA WaypointGrows ==
  ASSUME NEW q, NEW w, IsWaypoint(q, w), NEW t, HadAll(q, t)
  PROVE  /\ IsWaypoint(q, w \o t) /\ Len(w) <= Len(w \o t)
         /\ \A i \in 1 .. Len(w) : (w \o t)[i] = w[i]
  <1> DEFINE c == w \o t
  <1>1. /\ IsList(c) /\ Len(w) \in Nat /\ Len(t) \in Nat /\ Len(c) = Len(w) + Len(t)
        /\ \A i \in 1 .. Len(w) : c[i] = w[i]
        /\ \A i \in 1 .. Len(t) : c[Len(w) + i] = t[i]
    BY ConcatIsList DEF IsWaypoint, HadAll
  <1> HIDE DEF c
  <1>2. c[1] = w[1] BY <1>1 DEF IsWaypoint
  <1>3. ASSUME NEW j \in 2 .. Len(c) PROVE Had(q, c[j])
    <2>1. CASE j \in 2 .. Len(w) BY <1>1, <2>1 DEF IsWaypoint
    <2>2. CASE j > Len(w)
      <3>1. j - Len(w) \in 1 .. Len(t) /\ Len(w) + (j - Len(w)) = j BY <1>1, <2>2
      <3>2. c[j] = t[j - Len(w)] BY <1>1, <3>1
      <3> QED BY <3>1, <3>2 DEF HadAll
    <2>3. j \in 2 .. Len(w) \/ j > Len(w) BY <1>1
    <2> QED BY <2>1, <2>2, <2>3
  <1>4. IsWaypoint(q, c) BY <1>1, <1>2, <1>3 DEF IsWaypoint
  <1> QED BY <1>1, <1>4 DEF c

(* A waypoint begins with its time; behind it are readings the parser has, *)
(* and first among them the depth.                                         *)
LEMMA WaypointEvents ==
  ASSUME NEW q
  PROVE  /\ IsWaypoint(q, Waypoint(q))
         /\ "depth" \in q.have =>
              /\ Len(Waypoint(q)) >= 2
              /\ Waypoint(q)[2] = Event("depth", q.val.depth - q.dcal, 0)
         /\ "temp" \in q.have =>
              \E j \in 1 .. Len(Waypoint(q)) : Waypoint(q)[j].token = "temp"
  <1> DEFINE d == Event("depth", q.val.depth - q.dcal, 0)
             w0 == <<Event("time", q.time, 0)>>
             w1 == w0 \o If("depth" \in q.have, d)
             w2 == w1 \o If("temp" \in q.have, Event("temp", q.val.temp, 0))
             w3 == w2 \o If("pressure" \in q.have, Event("px", q.val.pressure, q.tank))
             w4 == w3 \o If("rbt" \in q.have, Event("rbt", q.val.rbt, 0))
             w5 == w4 \o If("heartrate" \in q.have, Event("heartrate", q.val.heartrate, 0))
             w6 == w5 \o If("bearing" \in q.have, Event("bearing", q.val.bearing, 0))
             w7 == w6 \o Alarms(q)
  <1>1. Waypoint(q) = w7 BY DEF Waypoint
  <1>2. \A t, x, i : Event(t, x, i).token = t BY DEF Event
  <1>3. /\ Token("depth") = "depth" /\ Token("temp") = "temp" /\ Token("pressure") = "px"
        /\ Token("rbt") = "rbt" /\ Token("heartrate") = "heartrate"
        /\ Token("bearing") = "bearing"
    BY DEF Token
  <1>4. \A r, x, i : r \in q.have => Had(q, Event(Token(r), x, i)) BY <1>2 DEF Had
  <1>5. IsWaypoint(q, w0) /\ Len(w0) = 1
    <2> DEFINE e == Event("time", q.time, 0)
    <2> HIDE DEF e
    <2>1. <<e>> \in Seq({e}) /\ Len(<<e>>) = 1 /\ <<e>>[1] = e OBVIOUS
    <2>2. IsList(<<e>>) BY <2>1, SequenceIsList
    <2>3. \A j : j \notin 2 .. 1 OBVIOUS
    <2>4. Len(<<e>>) >= 1 BY <2>1
    <2> QED BY <2>1, <2>2, <2>3, <2>4 DEF IsWaypoint, e
  <1>6. HadAll(q, If("depth" \in q.have, d)) BY <1>3, <1>4, IfHad
  <1>7. HadAll(q, If("temp" \in q.have, Event("temp", q.val.temp, 0))) BY <1>3, <1>4, IfHad
  <1>8. HadAll(q, If("pressure" \in q.have, Event("px", q.val.pressure, q.tank)))
    BY <1>3, <1>4, IfHad
  <1>9. HadAll(q, If("rbt" \in q.have, Event("rbt", q.val.rbt, 0))) BY <1>3, <1>4, IfHad
  <1>10. HadAll(q, If("heartrate" \in q.have, Event("heartrate", q.val.heartrate, 0)))
    BY <1>3, <1>4, IfHad
  <1>11. HadAll(q, If("bearing" \in q.have, Event("bearing", q.val.bearing, 0)))
    BY <1>3, <1>4, IfHad
  <1>12. "depth" \in q.have => (Len(w1) = 2 /\ w1[2] = d)
    <2> SUFFICES ASSUME "depth" \in q.have PROVE Len(w1) = 2 /\ w1[2] = d OBVIOUS
    <2>1. w1 = w0 \o <<d>> BY DEF If
    <2> HIDE DEF d
    <2> QED BY <2>1
  <1> HIDE DEF d, w0
  <1>13. IsWaypoint(q, w1) BY <1>5, <1>6, WaypointGrows
  <1> HIDE DEF w1
  <1>14. IsWaypoint(q, w2) /\ Len(w1) <= Len(w2) /\ \A i \in 1 .. Len(w1) : w2[i] = w1[i]
    BY <1>7, <1>13, WaypointGrows
  <1>a. "temp" \in q.have => (Len(w1) + 1 \in 1 .. Len(w2) /\ w2[Len(w1) + 1].token = "temp")
    <2> DEFINE e == Event("temp", q.val.temp, 0)
    <2> SUFFICES ASSUME "temp" \in q.have
                 PROVE  Len(w1) + 1 \in 1 .. Len(w2) /\ w2[Len(w1) + 1].token = "temp"
      OBVIOUS
    <2>1. w2 = w1 \o <<e>> BY DEF If
    <2>2. e.token = "temp" BY <1>2
    <2> HIDE DEF w2, e
    <2>3. <<e>> \in Seq({e}) /\ Len(<<e>>) = 1 /\ <<e>>[1] = e OBVIOUS
    <2>4. IsList(w1) /\ IsList(<<e>>) BY <1>13, <2>3, SequenceIsList DEF IsWaypoint
    <2> DEFINE t == <<e>>
    <2> HIDE DEF t
    <2>5. /\ Len(w1) \in Nat /\ Len(w2) = Len(w1) + Len(t)
          /\ \A i \in 1 .. Len(t) : w2[Len(w1) + i] = t[i]
      BY <2>1, <2>4, ConcatIsList DEF t
    <2>6. Len(t) = 1 /\ t[1] = e BY <2>3 DEF t
    <2> QED BY <2>2, <2>5, <2>6
  <1> HIDE DEF w2
  <1>15. IsWaypoint(q, w3) /\ Len(w2) <= Len(w3) /\ \A i \in 1 .. Len(w2) : w3[i] = w2[i]
    BY <1>8, <1>14, WaypointGrows
  <1> HIDE DEF w3
  <1>16. IsWaypoint(q, w4) /\ Len(w3) <= Len(w4) /\ \A i \in 1 .. Len(w3) : w4[i] = w3[i]
    BY <1>9, <1>15, WaypointGrows
  <1> HIDE DEF w4
  <1>17. IsWaypoint(q, w5) /\ Len(w4) <= Len(w5) /\ \A i \in 1 .. Len(w4) : w5[i] = w4[i]
    BY <1>10, <1>16, WaypointGrows
  <1> HIDE DEF w5
  <1>18. IsWaypoint(q, w6) /\ Len(w5) <= Len(w6) /\ \A i \in 1 .. Len(w5) : w6[i] = w5[i]
    BY <1>11, <1>17, WaypointGrows
  <1> HIDE DEF w6
  <1>19. IsWaypoint(q, w7) /\ Len(w6) <= Len(w7) /\ \A i \in 1 .. Len(w6) : w7[i] = w6[i]
    BY <1>18, AlarmsHad, WaypointGrows
  <1> HIDE DEF w7
  <1>20. \A w : IsWaypoint(q, w) => Len(w) \in Nat BY DEF IsWaypoint, IsList
  <1>21. "depth" \in q.have => (Len(w7) >= 2 /\ w7[2] = d)
    <2> SUFFICES ASSUME "depth" \in q.have PROVE Len(w7) >= 2 /\ w7[2] = d OBVIOUS
    <2>1. Len(w2) >= 2 /\ w2[2] = d BY <1>12, <1>13, <1>14, <1>20
    <2>2. Len(w3) >= 2 /\ w3[2] = d BY <1>14, <1>15, <1>20, <2>1
    <2>3. Len(w4) >= 2 /\ w4[2] = d BY <1>15, <1>16, <1>20, <2>2
    <2>4. Len(w5) >= 2 /\ w5[2] = d BY <1>16, <1>17, <1>20, <2>3
    <2>5. Len(w6) >= 2 /\ w6[2] = d BY <1>17, <1>18, <1>20, <2>4
    <2> QED BY <1>18, <1>19, <1>20, <2>5
  <1>22. ASSUME "temp" \in q.have PROVE \E j \in 1 .. Len(w7) : w7[j].token = "temp"
    <2> DEFINE j == Len(w1) + 1
    <2>1. j \in 1 .. Len(w2) /\ w2[j].token = "temp" BY <1>a, <1>22
    <2> HIDE DEF j
    <2>2. j \in 1 .. Len(w3) /\ w3[j].token = "temp" BY <1>14, <1>15, <1>20, <2>1
    <2>3. j \in 1 .. Len(w4) /\ w4[j].token = "temp" BY <1>15, <1>16, <1>20, <2>2
    <2>4. j \in 1 .. Len(w5) /\ w5[j].token = "temp" BY <1>16, <1>17, <1>20, <2>3
    <2>5. j \in 1 .. Len(w6) /\ w6[j].token = "temp" BY <1>17, <1>18, <1>20, <2>4
    <2>6. j \in 1 .. Len(w7) /\ w7[j].token = "temp" BY <1>18, <1>19, <1>20, <2>5
    <2> QED BY <2>6
  <1> QED BY <1>1, <1>19, <1>21, <1>22 DEF d

-----------------------------------------------------------------------------
(* The formatters.                                                         *)

UddfFields == {"magic", "profile", "mixes", "rgid", "tanks", "cur_mixes", "samples", "links",
               "lost"}

CsvFields == {"magic", "profile", "hdr_complete", "tanks", "cur_wp", "titles", "tankrows", "rows"}

WpFields == {"valid", "time", "depth", "temp", "alarms"}

IsUddf(g) == g.magic = "uddf" /\ DOMAIN g = UddfFields

IsCsv(g) == g.magic = "csv" /\ DOMAIN g = CsvFields /\ DOMAIN g.cur_wp = WpFields

IsFormatter(g) == IsUddf(g) \/ IsCsv(g)

(* Formatter h has the samples or the rows that g has.                     *)
Same(g, h) ==
  \/ /\ IsUddf(g) /\ IsUddf(h) /\ h.profile = g.profile
     /\ h.samples = g.samples /\ h.lost = g.lost
  \/ /\ IsCsv(g) /\ IsCsv(h) /\ h.profile = g.profile
     /\ h.rows = g.rows /\ h.cur_wp = g.cur_wp

(* A formatter is of one kind.                                             *)
LEMMA KindsDiffer ==
  ASSUME NEW g
  PROVE  /\ IsUddf(g) => g.magic = "uddf" /\ ~IsCsv(g)
         /\ IsCsv(g) => g.magic # "uddf" /\ ~IsUddf(g)
  BY DEF IsUddf, IsCsv

(* Same samples or rows, over two steps.                                   *)
LEMMA SameIsTransitive ==
  ASSUME NEW g, NEW h, NEW k, Same(g, h), Same(h, k)
  PROVE  Same(g, k)
  BY KindsDiffer DEF Same

(* An event of the header changes neither samples nor rows.                *)
LEMMA HeaderSame ==
  ASSUME NEW g, IsFormatter(g), NEW e
  PROVE  Same(g, header_cb(g, e))
  <1>1. CASE IsUddf(g)
    <2>1. header_cb(g, e) = uddf_header_cb(g, e) BY <1>1 DEF header_cb, IsUddf
    <2>2. \/ uddf_header_cb(g, e) = [g EXCEPT !.rgid = @ + 1]
          \/ uddf_header_cb(g, e) = [g EXCEPT !.tanks = @ \cup {e.index}]
          \/ uddf_header_cb(g, e)
               = [g EXCEPT !.tanks = @ \cup {e.index}, !.cur_mixes[e.index] = e.value]
          \/ uddf_header_cb(g, e) = g
      BY DEF uddf_header_cb
    <2> QED BY <1>1, <2>1, <2>2 DEF Same, IsUddf, UddfFields
  <1>2. CASE IsCsv(g)
    <2>1. header_cb(g, e) = csv_header_cb(g, e) BY <1>2 DEF header_cb, IsCsv
    <2>2. \/ csv_header_cb(g, e) = [g EXCEPT !.tanks[e.index] = IF @ = None THEN 209 ELSE @]
          \/ csv_header_cb(g, e) = [g EXCEPT !.tanks[e.index] = e.value]
          \/ csv_header_cb(g, e) = g
      BY DEF csv_header_cb
    <2> QED BY <1>2, <2>1, <2>2 DEF Same, IsCsv, CsvFields
  <1> QED BY <1>1, <1>2 DEF IsFormatter

(* The prolog of a dive clears them.                                       *)
LEMMA PrologClears ==
  ASSUME NEW g, IsFormatter(g)
  PROVE  \/ /\ IsUddf(g) /\ IsUddf(prolog_fn(g)) /\ prolog_fn(g).profile = g.profile
            /\ prolog_fn(g).samples = <<>> /\ prolog_fn(g).lost = g.lost
         \/ /\ IsCsv(g) /\ IsCsv(prolog_fn(g)) /\ prolog_fn(g).profile = g.profile
            /\ prolog_fn(g).rows = <<>> /\ prolog_fn(g).cur_wp = Waypoint0
  <1>1. CASE IsUddf(g)
    <2>1. prolog_fn(g) = uddf_prolog(g) BY <1>1 DEF prolog_fn, IsUddf
    <2> QED BY <1>1, <2>1 DEF uddf_prolog, IsUddf, UddfFields
  <1>2. CASE IsCsv(g)
    <2>1. prolog_fn(g) = csv_prolog(g) BY <1>2 DEF prolog_fn, IsCsv
    <2>2. DOMAIN Waypoint0 = WpFields BY DEF Waypoint0, WpFields
    <2>3. /\ csv_prolog(g).magic = "csv" /\ DOMAIN csv_prolog(g) = CsvFields
          /\ csv_prolog(g).profile = g.profile /\ csv_prolog(g).rows = <<>>
          /\ csv_prolog(g).cur_wp = Waypoint0
      BY <1>2 DEF csv_prolog, IsCsv, CsvFields
    <2> QED BY <1>2, <2>1, <2>2, <2>3 DEF IsCsv
  <1> QED BY <1>1, <1>2 DEF IsFormatter

(* The epilog links the tanks.                                             *)
LEMMA EpilogSame ==
  ASSUME NEW g, IsFormatter(g)
  PROVE  Same(g, epilog_fn(g))
  <1>1. ASSUME NEW h, IsUddf(h), NEW t PROVE Same(h, LinkTank(h, t))
    <2> DEFINE known1 == {m \in h.mixes : m.o2 = h.cur_mixes[t]}
               id == Cardinality(h.mixes)
               a == [h EXCEPT !.links[t] = 0]
               b == [h EXCEPT !.links[t] = (CHOOSE m \in known1 : TRUE).id]
               c == [h EXCEPT !.links[t] = id,
                              !.mixes = IF \E m \in @ : m.id = id THEN @
                                        ELSE @ \cup {Mix(id, h.cur_mixes[t])}]
    <2>1. LinkTank(h, t) = a \/ LinkTank(h, t) = b \/ LinkTank(h, t) = c BY DEF LinkTank
    <2>2. Same(h, a) BY <1>1 DEF Same, IsUddf, UddfFields
    <2>3. Same(h, b)
      <3> HIDE DEF known1
      <3> QED BY <1>1 DEF Same, IsUddf, UddfFields
    <2>4. Same(h, c)
      <3> HIDE DEF id
      <3> QED BY <1>1 DEF Same, IsUddf, UddfFields
    <2> HIDE DEF a, b, c
    <2> QED BY <2>1, <2>2, <2>3, <2>4
  <1>2. CASE IsUddf(g)
    <2> DEFINE Link(h, t) == IF t \in g.tanks THEN LinkTank(h, t) ELSE h
    <2>1. epilog_fn(g) = Link(Link(Link(g, 0), 1), 2)
      BY <1>2 DEF epilog_fn, uddf_epilog, IsUddf
    <2>2. ASSUME NEW h, IsUddf(h), NEW t PROVE Same(h, Link(h, t)) /\ IsUddf(Link(h, t))
      <3>1. Same(h, h) BY <2>2 DEF Same
      <3>2. Same(h, Link(h, t)) BY <1>1, <2>2, <3>1
      <3> HIDE DEF Link
      <3> QED BY <2>2, <3>2, KindsDiffer DEF Same
    <2> HIDE DEF Link
    <2>3. Same(g, Link(g, 0)) /\ IsUddf(Link(g, 0)) BY <1>2, <2>2
    <2>4. Same(Link(g, 0), Link(Link(g, 0), 1)) /\ IsUddf(Link(Link(g, 0), 1)) BY <2>2, <2>3
    <2>5. Same(Link(Link(g, 0), 1), Link(Link(Link(g, 0), 1), 2)) BY <2>2, <2>4
    <2>6. Same(g, Link(Link(g, 0), 1)) BY <2>3, <2>4, SameIsTransitive
    <2> QED BY <2>1, <2>5, <2>6, SameIsTransitive
  <1>3. CASE IsCsv(g)
    <2>1. epilog_fn(g) = g BY <1>3 DEF epilog_fn, IsCsv
    <2> QED BY <1>3, <2>1 DEF Same
  <1> QED BY <1>2, <1>3 DEF IsFormatter

(* One event of a waypoint.                                                *)
UddfEffect(g, e, h) ==
  /\ IsUddf(h) /\ h.profile = g.profile
  /\ g.profile =>
       /\ e.token = "time" => h.lost = g.lost /\ h.samples = Append(g.samples, <<e>>)
       /\ e.token \in {"depth", "temp", "alarm"} /\ g.samples # <<>> =>
            /\ h.lost = g.lost
            /\ h.samples = [g.samples EXCEPT ![Len(g.samples)] = Append(@, e)]
       /\ e.token \notin Written => h = g

(* uddf_waypoint_cb: a time opens a sample, other events go into the last. *)
LEMMA UddfEvent ==
  ASSUME NEW g, IsUddf(g), NEW e
  PROVE  UddfEffect(g, e, profile_cb(g, e))
  <1> USE DEF UddfEffect
  <1>1. profile_cb(g, e) = uddf_waypoint_cb(g, e) BY DEF profile_cb, IsUddf
  <1>2. CASE ~g.profile
    <2>1. uddf_waypoint_cb(g, e) = g BY <1>2 DEF uddf_waypoint_cb
    <2> QED BY <1>1, <1>2, <2>1
  <1>3. CASE g.profile
    <2>1. CASE e.token = "time"
      <3>1. uddf_waypoint_cb(g, e) = [g EXCEPT !.samples = Append(@, <<e>>)]
        BY <1>3, <2>1 DEF uddf_waypoint_cb
      <3> QED BY <1>1, <2>1, <3>1 DEF IsUddf, UddfFields, Written
    <2>2. CASE e.token \in {"depth", "temp", "alarm"}
      <3>1. CASE g.samples = <<>>
        <4>1. uddf_waypoint_cb(g, e) = [g EXCEPT !.lost = @ + 1]
          BY <1>3, <2>2, <3>1 DEF uddf_waypoint_cb
        <4> QED BY <1>1, <2>2, <3>1, <4>1 DEF IsUddf, UddfFields, Written
      <3>2. CASE g.samples # <<>>
        <4>1. uddf_waypoint_cb(g, e) = [g EXCEPT !.samples[Len(g.samples)] = Append(@, e)]
          BY <1>3, <2>2, <3>2 DEF uddf_waypoint_cb
        <4> QED BY <1>1, <2>2, <4>1 DEF IsUddf, UddfFields, Written
      <3> QED BY <3>1, <3>2
    <2>3. CASE e.token \notin Written
      <3>1. uddf_waypoint_cb(g, e) = g BY <1>3, <2>3 DEF uddf_waypoint_cb, Written
      <3> QED BY <1>1, <2>3, <3>1 DEF Written
    <2> QED BY <2>1, <2>2, <2>3 DEF Written
  <1> QED BY <1>2, <1>3

(* The titles and the tanks are printed outside the rows.                  *)
LEMMA TitlesSame ==
  ASSUME NEW g, IsCsv(g)
  PROVE  IsCsv(Titles(g)) /\ Same(g, Titles(g))
  <1>1. \/ Titles(g) = g
        \/ Titles(g) = [g EXCEPT !.hdr_complete = TRUE, !.titles = @ + 1, !.tankrows = g.tanks]
    BY DEF Titles
  <1> QED BY <1>1 DEF Same, IsCsv, CsvFields

CsvEffect(g, e, h) ==
  /\ IsCsv(h) /\ h.profile = g.profile
  /\ g.profile =>
       /\ e.token = "time" =>
            /\ h.rows = IF g.cur_wp.valid THEN Append(g.rows, Row(g.cur_wp)) ELSE g.rows
            /\ h.cur_wp.valid = TRUE /\ h.cur_wp.time = e.value
            /\ h.cur_wp.depth = g.cur_wp.depth /\ h.cur_wp.temp = g.cur_wp.temp
            /\ h.cur_wp.alarms = IF g.cur_wp.valid THEN 0 ELSE g.cur_wp.alarms
       /\ e.token # "time" =>
            /\ h.rows = g.rows /\ h.cur_wp.valid = g.cur_wp.valid
            /\ h.cur_wp.time = g.cur_wp.time
            /\ h.cur_wp.depth = IF e.token = "depth" THEN e.value ELSE g.cur_wp.depth
            /\ h.cur_wp.temp = IF e.token = "temp" THEN e.value ELSE g.cur_wp.temp
            /\ h.cur_wp.alarms
                 = IF e.token = "alarm" THEN g.cur_wp.alarms + 1 ELSE g.cur_wp.alarms

(* csv_waypoint_cb: a time prints the row before, other events fill the    *)
(* next.                                                                   *)
LEMMA CsvEvent ==
  ASSUME NEW g, IsCsv(g), NEW e
  PROVE  CsvEffect(g, e, profile_cb(g, e))
  <1> USE DEF CsvEffect
  <1> DEFINE t == Titles(g)
  <1>1. profile_cb(g, e) = csv_waypoint_cb(g, e) BY DEF profile_cb, IsCsv
  <1>2. /\ IsCsv(t) /\ t.profile = g.profile /\ t.rows = g.rows /\ t.cur_wp = g.cur_wp
    BY TitlesSame, KindsDiffer DEF Same
  <1> HIDE DEF t
  <1>3. CASE ~g.profile
    <2>1. csv_waypoint_cb(g, e) = t BY <1>3 DEF csv_waypoint_cb, t
    <2> QED BY <1>1, <1>2, <1>3, <2>1
  <1>4. CASE g.profile
    <2>1. CASE e.token = "time"
      <3>1. csv_waypoint_cb(g, e) = NextRow(t, e.value)
        BY <1>4, <2>1 DEF csv_waypoint_cb, t
      <3>2. DOMAIN t = CsvFields /\ DOMAIN t.cur_wp = WpFields /\ t.magic = "csv"
        BY <1>2 DEF IsCsv
      <3> DEFINE h == NextRow(t, e.value)
                 rows == IF t.cur_wp.valid THEN Append(t.rows, Row(t.cur_wp)) ELSE t.rows
                 alarms == IF t.cur_wp.valid THEN 0 ELSE t.cur_wp.alarms
      <3>3. h = [t EXCEPT !.rows = rows, !.cur_wp.alarms = alarms,
                          !.cur_wp.time = e.value, !.cur_wp.valid = TRUE]
        BY DEF NextRow
      <3> HIDE DEF rows, alarms, h
      <3>4. /\ DOMAIN h = CsvFields /\ h.magic = "csv" /\ h.profile = t.profile /\ h.rows = rows
            /\ h.cur_wp = [t.cur_wp EXCEPT !.alarms = alarms, !.time = e.value, !.valid = TRUE]
        BY <3>2, <3>3 DEF CsvFields
      <3>5. /\ DOMAIN h.cur_wp = WpFields /\ h.cur_wp.valid = TRUE /\ h.cur_wp.time = e.value
            /\ h.cur_wp.depth = t.cur_wp.depth /\ h.cur_wp.temp = t.cur_wp.temp
            /\ h.cur_wp.alarms = alarms
        BY <3>2, <3>4 DEF WpFields
      <3>6. csv_waypoint_cb(g, e) = h BY <3>1 DEF h
      <3>7. IsCsv(h) BY <3>4, <3>5 DEF IsCsv
      <3> QED BY <1>1, <1>2, <2>1, <3>4, <3>5, <3>6, <3>7 DEF rows, alarms
    <2>2. CASE e.token = "depth"
      <3>1. csv_waypoint_cb(g, e) = [t EXCEPT !.cur_wp.depth = e.value]
        BY <1>4, <2>2 DEF csv_waypoint_cb, t
      <3> QED BY <1>1, <1>2, <2>2, <3>1 DEF IsCsv, CsvFields, WpFields
    <2>3. CASE e.token = "temp"
      <3>1. csv_waypoint_cb(g, e) = [t EXCEPT !.cur_wp.temp = e.value]
        BY <1>4, <2>3 DEF csv_waypoint_cb, t
      <3> QED BY <1>1, <1>2, <2>3, <3>1 DEF IsCsv, CsvFields, WpFields
    <2>4. CASE e.token = "alarm"
      <3>1. csv_waypoint_cb(g, e) = [t EXCEPT !.cur_wp.alarms = @ + 1]
        BY <1>4, <2>4 DEF csv_waypoint_cb, t
      <3> QED BY <1>1, <1>2, <2>4, <3>1 DEF IsCsv, CsvFields, WpFields
    <2>5. CASE e.token \notin {"time", "depth", "temp", "alarm"}
      <3>1. csv_waypoint_cb(g, e) = t BY <1>4, <2>5 DEF csv_waypoint_cb, t
      <3> QED BY <1>1, <1>2, <2>5, <3>1
    <2> QED BY <2>1, <2>2, <2>3, <2>4, <2>5
  <1> QED BY <1>3, <1>4

-----------------------------------------------------------------------------
(* The loops over the events of a header and of a waypoint.                *)

(* What a formatter has become up to each of the first n events.           *)
IsHeaderRun(r, g, events, n) ==
  r = [i \in 0 .. n |-> IF i = 0 THEN g ELSE header_cb(r[i - 1], events[i])]

IsProfileRun(r, g, events, n) ==
  r = [i \in 0 .. n |-> IF i = 0 THEN g ELSE profile_cb(r[i - 1], events[i])]

(* The loops of header_cb and profile_cb calls have a result.              *)
LEMMA HeaderRunExists ==
  ASSUME NEW g, NEW events, NEW n \in Nat
  PROVE  \E r : IsHeaderRun(r, g, events, n)
  <1> DEFINE T == {k \in Nat : ~\E r : IsHeaderRun(r, g, events, k)}
  <1>1. SUFFICES ASSUME T # {} PROVE FALSE OBVIOUS
  <1>2. PICK k \in T : \A m \in T : k <= m BY <1>1, Least
  <1>3. CASE k = 0
    <2>1. IsHeaderRun([i \in 0 .. 0 |-> g], g, events, 0) BY DEF IsHeaderRun
    <2> QED BY <1>2, <1>3, <2>1
  <1>4. CASE k > 0
    <2>1. k - 1 \in Nat /\ k - 1 \notin T BY <1>2, <1>4
    <2>2. PICK r : IsHeaderRun(r, g, events, k - 1) BY <2>1
    <2> DEFINE c(x, i) == header_cb(x, events[i])
               s == [i \in 0 .. k |-> IF i < k THEN r[i] ELSE c(r[k - 1], k)]
    <2>3. \A i \in 0 .. (k - 1) : r[i] = IF i = 0 THEN g ELSE c(r[i - 1], i)
      BY <2>2 DEF IsHeaderRun
    <2> HIDE DEF c
    <2>4. \A i \in 0 .. k : s[i] = IF i = 0 THEN g ELSE c(s[i - 1], i) BY <1>4, <2>1, <2>3
    <2>5. s = [i \in 0 .. k |-> IF i = 0 THEN g ELSE c(s[i - 1], i)] BY <2>4
    <2>6. IsHeaderRun(s, g, events, k) BY <2>5 DEF IsHeaderRun, c
    <2> QED BY <1>2, <2>6
  <1> QED BY <1>2, <1>3, <1>4

(* The same for profile_cb.                                                *)
LEMMA ProfileRunExists ==
  ASSUME NEW g, NEW events, NEW n \in Nat
  PROVE  \E r : IsProfileRun(r, g, events, n)
  <1> DEFINE T == {k \in Nat : ~\E r : IsProfileRun(r, g, events, k)}
  <1>1. SUFFICES ASSUME T # {} PROVE FALSE OBVIOUS
  <1>2. PICK k \in T : \A m \in T : k <= m BY <1>1, Least
  <1>3. CASE k = 0
    <2>1. IsProfileRun([i \in 0 .. 0 |-> g], g, events, 0) BY DEF IsProfileRun
    <2> QED BY <1>2, <1>3, <2>1
  <1>4. CASE k > 0
    <2>1. k - 1 \in Nat /\ k - 1 \notin T BY <1>2, <1>4
    <2>2. PICK r : IsProfileRun(r, g, events, k - 1) BY <2>1
    <2> DEFINE c(x, i) == profile_cb(x, events[i])
               s == [i \in 0 .. k |-> IF i < k THEN r[i] ELSE c(r[k - 1], k)]
    <2>3. \A i \in 0 .. (k - 1) : r[i] = IF i = 0 THEN g ELSE c(r[i - 1], i)
      BY <2>2 DEF IsProfileRun
    <2> HIDE DEF c
    <2>4. \A i \in 0 .. k : s[i] = IF i = 0 THEN g ELSE c(s[i - 1], i) BY <1>4, <2>1, <2>3
    <2>5. s = [i \in 0 .. k |-> IF i = 0 THEN g ELSE c(s[i - 1], i)] BY <2>4
    <2>6. IsProfileRun(s, g, events, k) BY <2>5 DEF IsProfileRun, c
    <2> QED BY <1>2, <2>6
  <1> QED BY <1>2, <1>3, <1>4

(* A whole header changes neither samples nor rows.                        *)
LEMMA WithHeaderSame ==
  ASSUME NEW g, IsFormatter(g), NEW events, Len(events) \in Nat
  PROVE  Same(g, WithHeader(g, events))
  <1> DEFINE n == Len(events)
             r == CHOOSE r : IsHeaderRun(r, g, events, n)
             T == {i \in 0 .. n : ~Same(g, r[i])}
  <1>1. IsHeaderRun(r, g, events, n) BY HeaderRunExists
  <1>2. WithHeader(g, events) = r[n] BY DEF WithHeader, IsHeaderRun
  <1> HIDE DEF r
  <1>3. SUFFICES ASSUME T # {} PROVE FALSE BY <1>2
  <1>4. PICK i \in T : \A j \in T : i <= j
    <2>1. T \in SUBSET Nat OBVIOUS
    <2> HIDE DEF T
    <2> QED BY <1>3, <2>1, Least
  <1>5. i \in 0 .. n /\ r[i] = IF i = 0 THEN g ELSE header_cb(r[i - 1], events[i])
    BY <1>1, <1>4 DEF IsHeaderRun
  <1>6. CASE i = 0
    <2>1. Same(g, g) BY DEF IsFormatter, Same
    <2> QED BY <1>4, <1>5, <1>6, <2>1
  <1>7. CASE i # 0
    <2>1. i - 1 \in 0 .. n /\ i - 1 \notin T BY <1>4, <1>5, <1>7
    <2>2. Same(g, r[i - 1]) BY <2>1
    <2>3. IsFormatter(r[i - 1]) BY <2>2 DEF Same, IsFormatter
    <2>4. Same(r[i - 1], r[i]) BY <1>5, <1>7, <2>3, HeaderSame
    <2>5. Same(g, r[i]) BY <2>2, <2>4, SameIsTransitive
    <2> QED BY <1>4, <2>5
  <1> QED BY <1>6, <1>7

(* A waypoint as the calls it makes, one after the other.                  *)
Called(r, g, events) ==
  /\ r[0] = g /\ WithWaypoint(g, events) = r[Len(events)]
  /\ \A i \in 1 .. Len(events) : r[i] = profile_cb(r[i - 1], events[i])

(* WithWaypoint makes these calls.                                         *)
LEMMA WaypointRun ==
  ASSUME NEW g, NEW events, Len(events) \in Nat
  PROVE  \E r : Called(r, g, events)
  <1> DEFINE n == Len(events)
             r == CHOOSE r : IsProfileRun(r, g, events, n)
  <1>1. IsProfileRun(r, g, events, n) BY ProfileRunExists
  <1>2. WithWaypoint(g, events) = r[n] BY DEF WithWaypoint, IsProfileRun
  <1> HIDE DEF r
  <1>3. \A i \in 0 .. n : r[i] = IF i = 0 THEN g ELSE profile_cb(r[i - 1], events[i])
    BY <1>1 DEF IsProfileRun
  <1>4. r[0] = g BY <1>3
  <1>5. \A i \in 1 .. n : r[i] = profile_cb(r[i - 1], events[i]) BY <1>3
  <1>6. Called(r, g, events) BY <1>2, <1>4, <1>5 DEF Called
  <1> QED BY <1>6

(* The events with some tokens, picked out one after the other.            *)
IsOnlyRun(o, events, tokens, n) ==
  o = [i \in 0 .. n |-> IF i = 0 THEN <<>>
                        ELSE IF events[i].token \in tokens THEN Append(o[i - 1], events[i])
                        ELSE o[i - 1]]

(* The selection of events has a result.                                   *)
LEMMA OnlyRunExists ==
  ASSUME NEW events, NEW tokens, NEW n \in Nat
  PROVE  \E o : IsOnlyRun(o, events, tokens, n)
  <1> DEFINE T == {k \in Nat : ~\E o : IsOnlyRun(o, events, tokens, k)}
  <1>1. SUFFICES ASSUME T # {} PROVE FALSE OBVIOUS
  <1>2. PICK k \in T : \A m \in T : k <= m BY <1>1, Least
  <1>3. CASE k = 0
    <2>1. IsOnlyRun([i \in 0 .. 0 |-> <<>>], events, tokens, 0) BY DEF IsOnlyRun
    <2> QED BY <1>2, <1>3, <2>1
  <1>4. CASE k > 0
    <2>1. k - 1 \in Nat /\ k - 1 \notin T BY <1>2, <1>4
    <2>2. PICK o : IsOnlyRun(o, events, tokens, k - 1) BY <2>1
    <2> DEFINE c(x, i) == IF events[i].token \in tokens THEN Append(x, events[i]) ELSE x
               s == [i \in 0 .. k |-> IF i < k THEN o[i] ELSE c(o[k - 1], k)]
    <2>3. \A i \in 0 .. (k - 1) : o[i] = IF i = 0 THEN <<>> ELSE c(o[i - 1], i)
      BY <2>2 DEF IsOnlyRun
    <2> HIDE DEF c
    <2>4. \A i \in 0 .. k : s[i] = IF i = 0 THEN <<>> ELSE c(s[i - 1], i) BY <1>4, <2>1, <2>3
    <2>5. s = [i \in 0 .. k |-> IF i = 0 THEN <<>> ELSE c(s[i - 1], i)] BY <2>4
    <2>6. IsOnlyRun(s, events, tokens, k) BY <2>5 DEF IsOnlyRun, c
    <2> QED BY <1>2, <2>6
  <1> QED BY <1>2, <1>3, <1>4

(* o[i] is what the first i events have of the tokens.                     *)
PickedOut(o, events, tokens) ==
  /\ o[0] = <<>> /\ Only(events, tokens) = o[Len(events)]
  /\ \A i \in 1 .. Len(events) :
       /\ events[i].token \in tokens => o[i] = Append(o[i - 1], events[i])
       /\ events[i].token \notin tokens => o[i] = o[i - 1]
  /\ \A i \in 0 .. Len(events) : IsList(o[i])

(* Only makes this selection.                                              *)
LEMMA OnlyRun ==
  ASSUME NEW events, NEW tokens, Len(events) \in Nat
  PROVE  \E o : PickedOut(o, events, tokens)
  <1> DEFINE n == Len(events)
             o == CHOOSE o : IsOnlyRun(o, events, tokens, n)
             T == {i \in 0 .. n : ~IsList(o[i])}
  <1>1. IsOnlyRun(o, events, tokens, n) BY OnlyRunExists
  <1>2. Only(events, tokens) = o[n] BY DEF Only, IsOnlyRun
  <1> HIDE DEF o
  <1>3. \A i \in 0 .. n :
          o[i] = IF i = 0 THEN <<>>
                 ELSE IF events[i].token \in tokens THEN Append(o[i - 1], events[i])
                 ELSE o[i - 1]
    BY <1>1 DEF IsOnlyRun
  <1>4. o[0] = <<>> BY <1>3
  <1>5. \A i \in 1 .. n : o[i] = IF events[i].token \in tokens THEN Append(o[i - 1], events[i])
                                ELSE o[i - 1]
    BY <1>3
  <1>6. ASSUME T # {} PROVE FALSE
    <2>1. PICK i \in T : \A j \in T : i <= j
      <3>1. T \in SUBSET Nat OBVIOUS
      <3> HIDE DEF T
      <3> QED BY <1>6, <3>1, Least
    <2>2. i # 0
      <3>1. <<>> \in Seq({}) OBVIOUS
      <3>2. IsList(<<>>) BY <3>1, SequenceIsList
      <3> QED BY <1>4, <3>2
    <2>3. i - 1 \in 0 .. n /\ i - 1 \notin T /\ i \in 1 .. n BY <2>1, <2>2
    <2>4. IsList(o[i - 1]) BY <2>3
    <2>5. IsList(Append(o[i - 1], events[i])) BY <2>4, AppendIsList
    <2> QED BY <1>5, <2>3, <2>4, <2>5
  <1>7. \A i \in 0 .. n : IsList(o[i]) BY <1>6
  <1>8. PickedOut(o, events, tokens) BY <1>2, <1>4, <1>5, <1>7 DEF PickedOut
  <1> QED BY <1>8

(* The events of a header are a list.                                      *)
LEMMA HeaderIsList ==
  ASSUME NEW m, NEW h
  PROVE  IsList(parse_header(m, h)) /\ Len(parse_header(m, h)) \in Nat
  <1> DEFINE a == IF m \in HasRepetition THEN <<Event("repetition", h.rep, 0)>> ELSE <<>>
             b == Mixes(m, h)
             c == Pressures(m)
  <1>1. IsList(a)
    <2> DEFINE e == Event("repetition", h.rep, 0)
    <2> HIDE DEF e
    <2>1. <<e>> \in Seq({e}) OBVIOUS
    <2>2. <<>> \in Seq({e}) OBVIOUS
    <2>3. IsList(<<e>>) /\ IsList(<<>>) BY <2>1, <2>2, SequenceIsList
    <2> QED BY <2>3 DEF e
  <1>2. IsList(b)
    <2> DEFINE n == IF m \in ThreeMixes THEN 3 ELSE 1
    <2>1. n \in Nat OBVIOUS
    <2>2. b = [i \in 1 .. n |-> Event("pmo2", h.o2[i], i - 1)] BY DEF Mixes
    <2> HIDE DEF n, b
    <2>3. b = [i \in 1 .. n |-> b[i]] BY <2>2
    <2> QED BY <2>1, <2>3, FunctionIsList
  <1>3. IsList(c)
    <2> DEFINE n == CASE m \in {"galileo_sol", "smart_tec"} -> 3
                      [] m \in {"smart_com", "smart_z"} -> 1
                      [] OTHER -> 0
    <2>1. n \in Nat OBVIOUS
    <2>2. c = [i \in 1 .. n |-> Event("px", 0, i - 1)] BY DEF Pressures
    <2> HIDE DEF n, c
    <2>3. c = [i \in 1 .. n |-> c[i]] BY <2>2
    <2> QED BY <2>1, <2>3, FunctionIsList
  <1>4. parse_header(m, h) = (a \o b) \o c BY DEF parse_header
  <1> HIDE DEF a, b, c
  <1>5. IsList(a \o b) BY <1>1, <1>2, ConcatIsList
  <1>6. IsList((a \o b) \o c) BY <1>3, <1>5, ConcatIsList
  <1>7. \A s : IsList(s) => Len(s) \in Nat BY DEF IsList
  <1> QED BY <1>4, <1>6, <1>7

-----------------------------------------------------------------------------
(* What a waypoint becomes in the output.                                  *)

(* Only the first event of a waypoint is a time.                           *)
LEMMA OneTime ==
  ASSUME NEW q, NEW w, IsWaypoint(q, w), "time" \notin q.have
  PROVE  /\ Len(w) \in Nat /\ Len(w) >= 1 /\ w[1].token = "time" /\ w[1].value = q.time
         /\ \A j \in 2 .. Len(w) : w[j].token # "time"
  <1>1. /\ Len(w) \in Nat /\ Len(w) >= 1 /\ w[1] = Event("time", q.time, 0)
        /\ \A j \in 2 .. Len(w) : Had(q, w[j])
    BY DEF IsWaypoint, IsList
  <1>2. w[1].token = "time" /\ w[1].value = q.time BY <1>1 DEF Event
  <1>3. \A e : Had(q, e) => e.token # "time" BY DEF Had, Token
  <1> QED BY <1>1, <1>2, <1>3

(* The last element of a list, replaced.                                   *)
LEMMA LastReplaced ==
  ASSUME NEW s, IsList(s), NEW x, NEW y, NEW t, t = Append(s, x)
  PROVE  /\ t # <<>> /\ t[Len(t)] = x
         /\ [t EXCEPT ![Len(t)] = y] = Append(s, y)
  <1> DEFINE n == Len(s)
             S == ToSet(s) \cup {x, y}
             a == Append(s, x)
             b == Append(s, y)
             c == [a EXCEPT ![n + 1] = y]
  <1>1. s \in Seq(S) /\ x \in S /\ y \in S BY DEF IsList
  <1> HIDE DEF S
  <1>2. n \in Nat /\ a \in Seq(S) /\ b \in Seq(S) /\ Len(a) = n + 1 /\ Len(b) = n + 1
    BY <1>1
  <1>3. /\ \A i \in 1 .. n : a[i] = s[i] /\ b[i] = s[i]
        /\ a[n + 1] = x /\ b[n + 1] = y
    BY <1>1
  <1>4. /\ DOMAIN a = 1 .. (n + 1) /\ DOMAIN b = 1 .. (n + 1)
        /\ a = [i \in 1 .. (n + 1) |-> a[i]] /\ b = [i \in 1 .. (n + 1) |-> b[i]]
    <2>1. \A z \in Seq(S) : DOMAIN z = 1 .. Len(z) /\ z = [i \in 1 .. Len(z) |-> z[i]]
      OBVIOUS
    <2> HIDE DEF a, b, n
    <2> QED BY <1>2, <2>1
  <1> HIDE DEF a, b, n
  <1>5. ASSUME NEW i \in 1 .. (n + 1) PROVE c[i] = b[i]
    <2>1. i \in 1 .. n \/ i = n + 1 BY <1>2
    <2> QED BY <1>2, <1>3, <1>4, <2>1
  <1>6. c = [i \in 1 .. (n + 1) |-> c[i]] BY <1>4
  <1>7. c = b BY <1>4, <1>5, <1>6
  <1>8. a # <<>> BY <1>2
  <1> QED BY <1>2, <1>3, <1>7, <1>8 DEF a, b, n

(* uddf_waypoint_cb makes one sample of a waypoint, with what it writes.   *)
LEMMA UddfWaypoint ==
  ASSUME NEW g, IsUddf(g), NEW q, NEW w, IsWaypoint(q, w), "time" \notin q.have
  PROVE  /\ IsUddf(WithWaypoint(g, w)) /\ WithWaypoint(g, w).profile = g.profile
         /\ g.profile /\ IsList(g.samples) =>
              /\ WithWaypoint(g, w).lost = g.lost
              /\ WithWaypoint(g, w).samples = Append(g.samples, Only(w, Written))
  <1> DEFINE n == Len(w)
  <1>1. /\ n \in Nat /\ n >= 1 /\ w[1].token = "time"
        /\ \A j \in 2 .. n : w[j].token # "time"
    BY OneTime
  <1>2. PICK r : Called(r, g, w) BY <1>1, WaypointRun
  <1>3. PICK o : PickedOut(o, w, Written) BY <1>1, OnlyRun
  <1> DEFINE Good(i) == /\ IsUddf(r[i]) /\ r[i].profile = g.profile
                        /\ g.profile /\ IsList(g.samples) =>
                             /\ r[i].lost = g.lost
                             /\ r[i].samples = Append(g.samples, o[i])
             T == {i \in 1 .. n : ~Good(i)}
  <1>4. SUFFICES ASSUME T # {} PROVE FALSE
    <2>1. Good(n) => /\ IsUddf(WithWaypoint(g, w)) /\ WithWaypoint(g, w).profile = g.profile
                     /\ g.profile /\ IsList(g.samples) =>
                          /\ WithWaypoint(g, w).lost = g.lost
                          /\ WithWaypoint(g, w).samples = Append(g.samples, Only(w, Written))
      BY <1>2, <1>3 DEF Called, PickedOut
    <2> HIDE DEF Good
    <2>2. n \in 1 .. n BY <1>1
    <2>3. ~(T # {}) => Good(n) BY <2>2
    <2> QED BY <1>4, <2>1, <2>3
  <1> HIDE DEF Good
  <1>5. PICK i \in T : \A j \in T : i <= j
    <2>1. T \in SUBSET Nat OBVIOUS
    <2> HIDE DEF T
    <2> QED BY <1>4, <2>1, Least
  <1>6. i \in 1 .. n /\ ~Good(i) BY <1>5
  <1>7. CASE i = 1
    <2>1. r[1] = profile_cb(g, w[1]) BY <1>2, <1>6, <1>7 DEF Called
    <2>2. o[1] = <<w[1]>>
      <3>1. "time" \in Written BY DEF Written
      <3>2. o[1] = Append(<<>>, w[1]) BY <1>1, <1>3, <1>6, <1>7, <3>1 DEF PickedOut
      <3> QED BY <3>2
    <2> DEFINE e == w[1]
               k == r[1]
    <2> HIDE DEF e, k
    <2>3. UddfEffect(g, e, k) BY <2>1, UddfEvent DEF e, k
    <2>4. e.token = "time" BY <1>1 DEF e
    <2>5. IsUddf(k) /\ k.profile = g.profile BY <2>3 DEF UddfEffect
    <2>6. g.profile => k.lost = g.lost /\ k.samples = Append(g.samples, <<e>>)
      BY <2>3, <2>4 DEF UddfEffect
    <2>7. Good(1) BY <2>2, <2>5, <2>6 DEF Good, e, k
    <2> QED BY <1>6, <1>7, <2>7
  <1>8. CASE i # 1
    <2>1. i - 1 \in 1 .. n /\ i - 1 \notin T /\ i \in 2 .. n /\ i - 1 \in 0 .. n
      BY <1>5, <1>6, <1>8
    <2>2. Good(i - 1) BY <2>1
    <2> DEFINE h == r[i - 1]
    <2>3. r[i] = profile_cb(h, w[i]) BY <1>2, <1>6 DEF Called
    <2>4. w[i].token # "time" BY <1>1, <2>1
    <2>5. IsList(o[i - 1]) BY <1>3, <2>1 DEF PickedOut
    <2> HIDE DEF h
    <2>6. /\ IsUddf(h) /\ h.profile = g.profile
          /\ g.profile /\ IsList(g.samples) =>
               h.lost = g.lost /\ h.samples = Append(g.samples, o[i - 1])
      BY <2>2 DEF h, Good
    <2> DEFINE k == r[i]
    <2>a. UddfEffect(h, w[i], k) BY <2>3, <2>6, UddfEvent
    <2> HIDE DEF k
    <2>7. IsUddf(k) /\ k.profile = g.profile BY <2>6, <2>a DEF UddfEffect
    <2>8. ASSUME g.profile, IsList(g.samples)
          PROVE  k.lost = g.lost /\ k.samples = Append(g.samples, o[i])
      <3>1. CASE w[i].token \in Written
        <4>1. w[i].token \in {"depth", "temp", "alarm"} BY <2>4, <3>1 DEF Written
        <4>2. o[i] = Append(o[i - 1], w[i]) BY <1>3, <1>6, <3>1 DEF PickedOut
        <4> DEFINE s == h.samples
        <4>3. s = Append(g.samples, o[i - 1]) BY <2>6, <2>8
        <4> HIDE DEF s
        <4>4. s # <<>> /\ s[Len(s)] = o[i - 1] BY <2>8, <4>3, LastReplaced
        <4>5. k.lost = h.lost /\ k.samples = [s EXCEPT ![Len(s)] = Append(s[Len(s)], w[i])]
          BY <2>6, <2>8, <2>a, <4>1, <4>4 DEF UddfEffect, s
        <4> DEFINE y == o[i]
        <4> HIDE DEF y
        <4>6. [s EXCEPT ![Len(s)] = y] = Append(g.samples, y) BY <2>8, <4>3, LastReplaced
        <4>7. [s EXCEPT ![Len(s)] = o[i]] = Append(g.samples, o[i]) BY <4>6 DEF y
        <4> QED BY <2>6, <2>8, <4>2, <4>4, <4>5, <4>7
      <3>2. CASE w[i].token \notin Written
        <4>1. k = h BY <2>6, <2>8, <2>a, <3>2 DEF UddfEffect
        <4>2. o[i] = o[i - 1] BY <1>3, <1>6, <3>2 DEF PickedOut
        <4> QED BY <2>6, <2>8, <4>1, <4>2
      <3> QED BY <3>1, <3>2
    <2> QED BY <1>6, <2>7, <2>8 DEF Good, k
  <1> QED BY <1>7, <1>8

(* The value of the last of some events.                                   *)
LastOf(o, otherwise) == IF o = <<>> THEN otherwise ELSE Last(o).value

(* An event behind the others is the last one.                             *)
LEMMA LastOfAppend ==
  ASSUME NEW o, IsList(o), NEW e, NEW x
  PROVE  LastOf(Append(o, e), x) = e.value
  <1> DEFINE t == Append(o, e)
  <1>1. t # <<>> /\ t[Len(t)] = e BY LastReplaced
  <1> HIDE DEF t
  <1>2. LastOf(t, x) = e.value BY <1>1 DEF LastOf, Last
  <1> QED BY <1>2 DEF t

(* A value in a row is that of the last event of its kind.                 *)
LEMMA OfIsLast ==
  ASSUME NEW events, NEW token
  PROVE  Of(events, token) = LastOf(Only(events, {token}), 0)
  BY DEF Of, LastOf

(* Formatter k has, after g, begun a row and filled it from the events t,  *)
(* d, m and a: times, depths, temperatures and alarms.                     *)
InRow(g, k, t, d, m, a) ==
  /\ IsCsv(k) /\ k.profile = g.profile
  /\ g.profile =>
       /\ k.rows = IF g.cur_wp.valid THEN Append(g.rows, Row(g.cur_wp)) ELSE g.rows
       /\ k.cur_wp.valid = TRUE
       /\ k.cur_wp.time = LastOf(t, 0)
       /\ k.cur_wp.depth = LastOf(d, g.cur_wp.depth)
       /\ k.cur_wp.temp = LastOf(m, g.cur_wp.temp)
       /\ k.cur_wp.alarms = Len(a)

(* o2 is o with e, if e has the token.                                     *)
Step(o, o2, e, token) ==
  /\ IsList(o)
  /\ e.token = token => o2 = Append(o, e)
  /\ e.token # token => o2 = o

(* A selection takes each event or leaves it.                              *)
LEMMA StepOf ==
  ASSUME NEW o, NEW w, NEW token, PickedOut(o, w, {token}), Len(w) \in Nat,
         NEW i \in 1 .. Len(w)
  PROVE  Step(o[i - 1], o[i], w[i], token)
  <1>1. i - 1 \in 0 .. Len(w) OBVIOUS
  <1> QED BY <1>1 DEF PickedOut, Step

(* The row a waypoint begins.                                              *)
LEMMA RowBegins ==
  ASSUME NEW g, IsCsv(g), g.profile => g.cur_wp.valid \/ g.cur_wp.alarms = 0,
         NEW e, e.token = "time", NEW k, CsvEffect(g, e, k),
         NEW t, Step(<<>>, t, e, "time"), NEW d, Step(<<>>, d, e, "depth"),
         NEW m, Step(<<>>, m, e, "temp"), NEW a, Step(<<>>, a, e, "alarm")
  PROVE  InRow(g, k, t, d, m, a)
  <1>1. IsCsv(k) /\ k.profile = g.profile BY DEF CsvEffect
  <1>2. t = Append(<<>>, e) /\ d = <<>> /\ m = <<>> /\ a = <<>> BY DEF Step
  <1>3. LastOf(t, 0) = e.value BY <1>2, LastOfAppend DEF Step
  <1>4. LastOf(d, g.cur_wp.depth) = g.cur_wp.depth BY <1>2 DEF LastOf
  <1>5. LastOf(m, g.cur_wp.temp) = g.cur_wp.temp BY <1>2 DEF LastOf
  <1>6. Len(a) = 0 BY <1>2
  <1>7. ASSUME g.profile
        PROVE  /\ k.rows = IF g.cur_wp.valid THEN Append(g.rows, Row(g.cur_wp)) ELSE g.rows
               /\ k.cur_wp.valid = TRUE /\ k.cur_wp.time = e.value
               /\ k.cur_wp.depth = g.cur_wp.depth /\ k.cur_wp.temp = g.cur_wp.temp
               /\ k.cur_wp.alarms = 0
    BY <1>7 DEF CsvEffect
  <1> QED BY <1>1, <1>3, <1>4, <1>5, <1>6, <1>7 DEF InRow

(* Another event of the waypoint.                                          *)
LEMMA RowGoesOn ==
  ASSUME NEW g, NEW h, NEW e, e.token # "time", NEW k, CsvEffect(h, e, k),
         NEW t1, NEW d1, NEW m1, NEW a1, InRow(g, h, t1, d1, m1, a1),
         NEW t, Step(t1, t, e, "time"), NEW d, Step(d1, d, e, "depth"),
         NEW m, Step(m1, m, e, "temp"), NEW a, Step(a1, a, e, "alarm")
  PROVE  InRow(g, k, t, d, m, a)
  <1>1. IsCsv(k) /\ k.profile = g.profile BY DEF CsvEffect, InRow
  <1>2. ASSUME g.profile
        PROVE  /\ k.rows = IF g.cur_wp.valid THEN Append(g.rows, Row(g.cur_wp)) ELSE g.rows
               /\ k.cur_wp.valid = TRUE
    BY <1>2 DEF CsvEffect, InRow
  <1>3. ASSUME g.profile PROVE k.cur_wp.time = LastOf(t, 0)
    <2>1. t = t1 BY DEF Step
    <2> QED BY <1>3, <2>1 DEF CsvEffect, InRow
  <1>4. ASSUME g.profile PROVE k.cur_wp.depth = LastOf(d, g.cur_wp.depth)
    <2>1. h.cur_wp.depth = LastOf(d1, g.cur_wp.depth) BY <1>4 DEF InRow
    <2>2. k.cur_wp.depth = IF e.token = "depth" THEN e.value ELSE h.cur_wp.depth
      BY <1>4 DEF CsvEffect, InRow
    <2>3. CASE e.token = "depth"
      <3>1. LastOf(d, g.cur_wp.depth) = e.value BY <2>3, LastOfAppend DEF Step
      <3> QED BY <2>2, <2>3, <3>1
    <2>4. CASE e.token # "depth"
      <3>1. d = d1 BY <2>4 DEF Step
      <3> QED BY <2>1, <2>2, <2>4, <3>1
    <2> QED BY <2>3, <2>4
  <1>5. ASSUME g.profile PROVE k.cur_wp.temp = LastOf(m, g.cur_wp.temp)
    <2>1. h.cur_wp.temp = LastOf(m1, g.cur_wp.temp) BY <1>5 DEF InRow
    <2>2. k.cur_wp.temp = IF e.token = "temp" THEN e.value ELSE h.cur_wp.temp
      BY <1>5 DEF CsvEffect, InRow
    <2>3. CASE e.token = "temp"
      <3>1. LastOf(m, g.cur_wp.temp) = e.value BY <2>3, LastOfAppend DEF Step
      <3> QED BY <2>2, <2>3, <3>1
    <2>4. CASE e.token # "temp"
      <3>1. m = m1 BY <2>4 DEF Step
      <3> QED BY <2>1, <2>2, <2>4, <3>1
    <2> QED BY <2>3, <2>4
  <1>6. ASSUME g.profile PROVE k.cur_wp.alarms = Len(a)
    <2>1. h.cur_wp.alarms = Len(a1) BY <1>6 DEF InRow
    <2>2. k.cur_wp.alarms = IF e.token = "alarm" THEN h.cur_wp.alarms + 1 ELSE h.cur_wp.alarms
      BY <1>6 DEF CsvEffect, InRow
    <2>3. CASE e.token = "alarm"
      <3>1. Len(a) = Len(a1) + 1 BY <2>3, AppendIsList DEF Step
      <3> QED BY <2>1, <2>2, <2>3, <3>1
    <2>4. CASE e.token # "alarm"
      <3>1. a = a1 BY <2>4 DEF Step
      <3> QED BY <2>1, <2>2, <2>4, <3>1
    <2> QED BY <2>3, <2>4
  <1> QED BY <1>1, <1>2, <1>3, <1>4, <1>5, <1>6 DEF InRow

(* csv_waypoint_cb prints the row before, and fills one from a waypoint.   *)
LEMMA CsvWaypoint ==
  ASSUME NEW g, IsCsv(g), g.profile => g.cur_wp.valid \/ g.cur_wp.alarms = 0,
         NEW q, NEW w, IsWaypoint(q, w), "time" \notin q.have
  PROVE  InRow(g, WithWaypoint(g, w), Only(w, {"time"}), Only(w, {"depth"}), Only(w, {"temp"}),
               Only(w, {"alarm"}))
  <1> DEFINE n == Len(w)
  <1>1. /\ n \in Nat /\ n >= 1 /\ w[1].token = "time"
        /\ \A j \in 2 .. n : w[j].token # "time"
    BY OneTime
  <1>2. PICK r : Called(r, g, w) BY <1>1, WaypointRun
  <1>3. PICK t : PickedOut(t, w, {"time"}) BY <1>1, OnlyRun
  <1>4. PICK d : PickedOut(d, w, {"depth"}) BY <1>1, OnlyRun
  <1>5. PICK m : PickedOut(m, w, {"temp"}) BY <1>1, OnlyRun
  <1>6. PICK a : PickedOut(a, w, {"alarm"}) BY <1>1, OnlyRun
  <1>7. ASSUME NEW i \in 1 .. n
        PROVE  /\ Step(t[i - 1], t[i], w[i], "time") /\ Step(d[i - 1], d[i], w[i], "depth")
               /\ Step(m[i - 1], m[i], w[i], "temp") /\ Step(a[i - 1], a[i], w[i], "alarm")
    BY <1>1, <1>3, <1>4, <1>5, <1>6, StepOf
  <1> DEFINE Good(i) == InRow(g, r[i], t[i], d[i], m[i], a[i])
             T == {i \in 1 .. n : ~Good(i)}
  <1>8. SUFFICES ASSUME T # {} PROVE FALSE
    <2>1. n \in 1 .. n BY <1>1
    <2>2. ~(T # {}) => Good(n) BY <2>1
    <2> QED BY <1>2, <1>3, <1>4, <1>5, <1>6, <1>8, <2>2 DEF Called, PickedOut
  <1> HIDE DEF Good
  <1>9. PICK i \in T : \A j \in T : i <= j
    <2>1. T \in SUBSET Nat OBVIOUS
    <2> HIDE DEF T
    <2> QED BY <1>8, <2>1, Least
  <1>10. i \in 1 .. n /\ ~Good(i) BY <1>9
  <1>11. CASE i = 1
    <2>1. r[1] = profile_cb(g, w[1]) BY <1>2, <1>10, <1>11 DEF Called
    <2>2. CsvEffect(g, w[1], r[1]) BY <2>1, CsvEvent
    <2>3. t[0] = <<>> /\ d[0] = <<>> /\ m[0] = <<>> /\ a[0] = <<>>
      BY <1>3, <1>4, <1>5, <1>6 DEF PickedOut
    <2>4. /\ Step(<<>>, t[1], w[1], "time") /\ Step(<<>>, d[1], w[1], "depth")
          /\ Step(<<>>, m[1], w[1], "temp") /\ Step(<<>>, a[1], w[1], "alarm")
      <3>1. 1 \in 1 .. n /\ 1 - 1 = 0 BY <1>1
      <3> QED BY <1>7, <2>3, <3>1
    <2>5. Good(1) BY <1>1, <2>2, <2>4, RowBegins DEF Good
    <2> QED BY <1>10, <1>11, <2>5
  <1>12. CASE i # 1
    <2>1. i - 1 \in 1 .. n /\ i - 1 \notin T /\ i \in 2 .. n BY <1>9, <1>10, <1>12
    <2>2. InRow(g, r[i - 1], t[i - 1], d[i - 1], m[i - 1], a[i - 1]) BY <2>1 DEF Good
    <2>3. r[i] = profile_cb(r[i - 1], w[i]) BY <1>2, <1>10 DEF Called
    <2>4. IsCsv(r[i - 1]) BY <2>2 DEF InRow
    <2>5. CsvEffect(r[i - 1], w[i], r[i]) BY <2>3, <2>4, CsvEvent
    <2>6. w[i].token # "time" BY <1>1, <2>1
    <2>7. Good(i) BY <1>7, <1>10, <2>2, <2>5, <2>6, RowGoesOn DEF Good
    <2> QED BY <1>10, <2>7
  <1> QED BY <1>11, <1>12

(* What Only finds.                                                        *)
LEMMA OnlyFinds ==
  ASSUME NEW w, Len(w) \in Nat, NEW tokens, NEW j \in 1 .. Len(w), w[j].token \in tokens
  PROVE  Only(w, tokens) # <<>>
  <1>1. PICK o : PickedOut(o, w, tokens) BY OnlyRun
  <1> DEFINE T == {i \in j .. Len(w) : o[i] = <<>>}
  <1>2. SUFFICES ASSUME T # {} PROVE FALSE BY <1>1 DEF PickedOut
  <1>3. PICK i \in T : \A k \in T : i <= k
    <2>1. T \in SUBSET Nat OBVIOUS
    <2> HIDE DEF T
    <2> QED BY <1>2, <2>1, Least
  <1>4. i \in 1 .. Len(w) /\ i - 1 \in 0 .. Len(w) /\ o[i] = <<>> BY <1>3
  <1>5. w[i].token \in tokens => FALSE
    <2>1. IsList(o[i - 1]) BY <1>1, <1>4 DEF PickedOut
    <2> DEFINE t == Append(o[i - 1], w[i])
    <2>2. t = Append(o[i - 1], w[i]) OBVIOUS
    <2> HIDE DEF t
    <2>3. t # <<>> BY <2>1, <2>2, LastReplaced
    <2> QED BY <1>1, <1>4, <2>2, <2>3 DEF PickedOut
  <1>6. i # j BY <1>5
  <1>7. i - 1 \in j .. Len(w) /\ i - 1 \notin T BY <1>3, <1>6
  <1>8. o[i] = o[i - 1] BY <1>1, <1>4, <1>5 DEF PickedOut
  <1> QED BY <1>4, <1>7, <1>8

(* And what it does not.                                                   *)
LEMMA OnlyNone ==
  ASSUME NEW w, Len(w) \in Nat, NEW tokens, \A j \in 1 .. Len(w) : w[j].token \notin tokens
  PROVE  Only(w, tokens) = <<>>
  <1>1. PICK o : PickedOut(o, w, tokens) BY OnlyRun
  <1> DEFINE T == {i \in 0 .. Len(w) : o[i] # <<>>}
  <1>2. SUFFICES ASSUME T # {} PROVE FALSE BY <1>1 DEF PickedOut
  <1>3. PICK i \in T : \A k \in T : i <= k
    <2>1. T \in SUBSET Nat OBVIOUS
    <2> HIDE DEF T
    <2> QED BY <1>2, <2>1, Least
  <1>4. i # 0 BY <1>1, <1>3 DEF PickedOut
  <1>5. i \in 1 .. Len(w) /\ i - 1 \in 0 .. Len(w) /\ i - 1 \notin T BY <1>3, <1>4
  <1>6. o[i] = o[i - 1] BY <1>1, <1>5 DEF PickedOut
  <1> QED BY <1>3, <1>5, <1>6

-----------------------------------------------------------------------------
(* What the formatter g has of the waypoints s of a dive, while the parser *)
(* has the readings in have.                                               *)

UddfHas(g, s) ==
  /\ g.lost = 0 /\ IsList(g.samples) /\ Len(g.samples) = Len(s)
  /\ \A i \in 1 .. Len(s) : g.samples[i] = Only(s[i], Written)

(* Between two rows: the waypoint in cur_wp is the last one.  A depth or a *)
(* temperature stays in cur_wp until there is another one, and comes with  *)
(* every waypoint once the parser has it.                                  *)
CsvHas(g, s, have) ==
  /\ IsList(g.rows)
  /\ Len(s) = 0 => Len(g.rows) = 0 /\ g.cur_wp.alarms = 0 /\ ~g.cur_wp.valid
  /\ Len(s) # 0 =>
       /\ g.cur_wp.valid /\ Row(g.cur_wp) = RowOf(s[Len(s)])
       /\ Len(g.rows) = Len(s) - 1
       /\ \A i \in 1 .. Len(s) - 1 : g.rows[i] = RowOf(s[i])
  /\ "depth" \notin have => g.cur_wp.depth = 0
  /\ "temp" \notin have => g.cur_wp.temp = 0

Output(g, s, have) ==
  \/ IsUddf(g) /\ (g.profile => UddfHas(g, s))
  \/ IsCsv(g) /\ (g.profile => CsvHas(g, s, have))

(* Headers and epilogs leave the output of the waypoints as it is.         *)
LEMMA OutputSame ==
  ASSUME NEW g, NEW h, NEW s, NEW have, NEW have2,
         Output(g, s, have), Same(g, h), have \subseteq have2
  PROVE  Output(h, s, have2)
  <1>1. CASE IsUddf(g)
    <2>1. /\ g.profile => UddfHas(g, s)
          /\ IsUddf(h) /\ h.profile = g.profile /\ h.samples = g.samples /\ h.lost = g.lost
      BY <1>1, KindsDiffer DEF Output, Same
    <2> QED BY <2>1 DEF Output, UddfHas
  <1>2. CASE IsCsv(g)
    <2>1. /\ g.profile => CsvHas(g, s, have)
          /\ IsCsv(h) /\ h.profile = g.profile /\ h.rows = g.rows /\ h.cur_wp = g.cur_wp
      BY <1>2, KindsDiffer DEF Output, Same
    <2>2. CsvHas(g, s, have) => CsvHas(h, s, have2) BY <2>1 DEF CsvHas
    <2> QED BY <2>1, <2>2 DEF Output
  <1> QED BY <1>1, <1>2 DEF Output

(* The prolog starts a dive with an empty output.                          *)
LEMMA OutputCleared ==
  ASSUME NEW g, NEW s, NEW have, Output(g, s, have)
  PROVE  Output(prolog_fn(g), <<>>, {})
  <1> DEFINE h == prolog_fn(g)
  <1>1. IsFormatter(g) BY DEF Output, IsFormatter
  <1>2. IsList(<<>>) /\ Len(<<>>) = 0 /\ \A i : i \notin 1 .. Len(<<>>)
    <2>1. <<>> \in Seq({}) OBVIOUS
    <2>2. Len(<<>>) = 0 /\ \A i : i \notin 1 .. 0 OBVIOUS
    <2> QED BY <2>1, <2>2, SequenceIsList
  <1>3. CASE IsUddf(g)
    <2>1. IsUddf(h) /\ h.profile = g.profile /\ h.samples = <<>> /\ h.lost = g.lost
      BY <1>1, <1>3, PrologClears, KindsDiffer
    <2>2. g.profile => g.lost = 0 BY <1>3, KindsDiffer DEF Output, UddfHas
    <2> HIDE DEF h
    <2>3. h.profile => UddfHas(h, <<>>) BY <1>2, <2>1, <2>2 DEF UddfHas
    <2> QED BY <2>1, <2>3 DEF Output, h
  <1>4. CASE IsCsv(g)
    <2>1. IsCsv(h) /\ h.rows = <<>> /\ h.cur_wp = Waypoint0
      BY <1>1, <1>4, PrologClears, KindsDiffer
    <2> HIDE DEF h
    <2>2. /\ Waypoint0.alarms = 0 /\ ~Waypoint0.valid /\ Waypoint0.depth = 0
          /\ Waypoint0.temp = 0
      BY DEF Waypoint0
    <2>3. CsvHas(h, <<>>, {}) BY <1>2, <2>1, <2>2 DEF CsvHas
    <2> QED BY <2>1, <2>3 DEF Output, h
  <1> QED BY <1>3, <1>4 DEF Output

(* A depth and a temperature that the parser has are in its waypoints, and *)
(* no others.                                                              *)
LEMMA WaypointFinds ==
  ASSUME NEW q, NEW token \in {"depth", "temp"}
  PROVE  token \in q.have <=> Only(Waypoint(q), {token}) # <<>>
  <1> DEFINE w == Waypoint(q)
  <1>1. /\ IsWaypoint(q, w)
        /\ "depth" \in q.have => Len(w) >= 2 /\ w[2] = Event("depth", q.val.depth - q.dcal, 0)
        /\ "temp" \in q.have => \E j \in 1 .. Len(w) : w[j].token = "temp"
    BY WaypointEvents
  <1> HIDE DEF w
  <1>2. Len(w) \in Nat BY <1>1 DEF IsWaypoint, IsList
  <1>3. ASSUME token \in q.have PROVE \E j \in 1 .. Len(w) : w[j].token = token
    <2>1. CASE token = "depth"
      <3>1. 2 \in 1 .. Len(w) BY <1>1, <1>2, <1>3, <2>1
      <3>2. w[2].token = "depth" BY <1>1, <1>3, <2>1 DEF Event
      <3> QED BY <2>1, <3>1, <3>2
    <2>2. CASE token = "temp" BY <1>1, <1>3, <2>2
    <2> QED BY <2>1, <2>2
  <1>4. ASSUME NEW j \in 1 .. Len(w), w[j].token = token PROVE token \in q.have
    <2>1. j # 1 BY <1>1, <1>4 DEF IsWaypoint, Event
    <2>2. j \in 2 .. Len(w) BY <1>2, <2>1
    <2>3. Had(q, w[j]) BY <1>1, <2>2 DEF IsWaypoint
    <2> QED BY <1>4, <2>3 DEF Had, Token
  <1>5. ASSUME token \in q.have PROVE Only(w, {token}) # <<>>
    <2>1. PICK j \in 1 .. Len(w) : w[j].token \in {token} BY <1>3, <1>5
    <2> QED BY <1>2, <2>1, OnlyFinds
  <1>6. ASSUME token \notin q.have PROVE Only(w, {token}) = <<>>
    <2>1. \A j \in 1 .. Len(w) : w[j].token \notin {token} BY <1>4, <1>6
    <2> QED BY <1>2, <2>1, OnlyNone
  <1> QED BY <1>5, <1>6 DEF w

(* One waypoint more.                                                      *)
LEMMA OutputGrows ==
  ASSUME NEW g, NEW s, NEW q, Output(g, s, q.have), IsList(s), "time" \notin q.have
  PROVE  Output(WithWaypoint(g, Waypoint(q)), Append(s, Waypoint(q)), q.have \ Single)
  <1> DEFINE w == Waypoint(q)
             h == WithWaypoint(g, w)
             z == Append(s, w)
             n == Len(s)
  <1>1. IsWaypoint(q, w) BY WaypointEvents
  <1>2. \A token \in {"depth", "temp"} : token \in q.have <=> Only(w, {token}) # <<>>
    BY WaypointFinds
  <1>3. /\ n \in Nat /\ Len(z) = n + 1 /\ z[n + 1] = w
        /\ \A i \in 1 .. n : z[i] = s[i]
    BY AppendIsList
  <1>4. CASE IsUddf(g)
    <2>1. IsUddf(h) /\ h.profile = g.profile BY <1>1, <1>4, UddfWaypoint
    <2>2. ASSUME g.profile PROVE UddfHas(h, z)
      <3>1. UddfHas(g, s) BY <1>4, <2>2, KindsDiffer DEF Output
      <3>2. h.lost = g.lost /\ h.samples = Append(g.samples, Only(w, Written))
        BY <1>1, <1>4, <2>2, <3>1, UddfWaypoint DEF UddfHas
      <3> DEFINE x == Only(w, Written)
      <3> HIDE DEF w, h, z, n, x
      <3>3. /\ IsList(h.samples) /\ Len(h.samples) = Len(g.samples) + 1
            /\ \A i \in 1 .. Len(g.samples) : h.samples[i] = g.samples[i]
            /\ h.samples[Len(g.samples) + 1] = x
        BY <3>1, <3>2, AppendIsList DEF UddfHas, x
      <3>4. Len(g.samples) = n /\ h.lost = 0 BY <3>1, <3>2 DEF UddfHas, n
      <3>5. ASSUME NEW i \in 1 .. Len(z) PROVE h.samples[i] = Only(z[i], Written)
        <4>1. CASE i \in 1 .. n
          <5>1. g.samples[i] = Only(s[i], Written) BY <3>1, <4>1 DEF UddfHas, n
          <5> QED BY <1>3, <3>3, <3>4, <4>1, <5>1
        <4>2. CASE i = n + 1 BY <1>3, <3>3, <3>4, <4>2 DEF x
        <4> QED BY <1>3, <4>1, <4>2
      <3> QED BY <1>3, <3>3, <3>4, <3>5 DEF UddfHas
    <2> HIDE DEF h, z, w
    <2> QED BY <2>1, <2>2 DEF Output, h, z, w
  <1>5. CASE IsCsv(g)
    <2>0. g.profile => CsvHas(g, s, q.have) BY <1>5, KindsDiffer DEF Output
    <2>1. InRow(g, h, Only(w, {"time"}), Only(w, {"depth"}), Only(w, {"temp"}),
                Only(w, {"alarm"}))
      <3>1. g.profile => g.cur_wp.valid \/ g.cur_wp.alarms = 0 BY <2>0 DEF CsvHas
      <3> HIDE DEF w
      <3> QED BY <1>1, <1>5, <3>1, CsvWaypoint
    <2> HIDE DEF w, h, z
    <2>2. IsCsv(h) /\ h.profile = g.profile BY <2>1 DEF InRow
    <2>3. ASSUME g.profile PROVE CsvHas(h, z, q.have \ Single)
      <3>1. CsvHas(g, s, q.have) BY <2>0, <2>3
      <3>2. /\ h.rows = IF g.cur_wp.valid THEN Append(g.rows, Row(g.cur_wp)) ELSE g.rows
            /\ h.cur_wp.valid = TRUE
            /\ h.cur_wp.time = LastOf(Only(w, {"time"}), 0)
            /\ h.cur_wp.depth = LastOf(Only(w, {"depth"}), g.cur_wp.depth)
            /\ h.cur_wp.temp = LastOf(Only(w, {"temp"}), g.cur_wp.temp)
            /\ h.cur_wp.alarms = Len(Only(w, {"alarm"}))
        BY <2>1, <2>3 DEF InRow
      <3>3. h.cur_wp.time = Of(w, "time") BY <3>2, OfIsLast
      <3>4. /\ h.cur_wp.depth = Of(w, "depth")
            /\ "depth" \notin q.have => h.cur_wp.depth = 0
        <4>1. "depth" \in q.have <=> Only(w, {"depth"}) # <<>> BY <1>2
        <4>2. "depth" \notin q.have => g.cur_wp.depth = 0 BY <3>1 DEF CsvHas
        <4>3. h.cur_wp.depth = LastOf(Only(w, {"depth"}), 0) BY <3>2, <4>1, <4>2 DEF LastOf
        <4>4. "depth" \notin q.have => h.cur_wp.depth = 0 BY <4>1, <4>3 DEF LastOf
        <4> QED BY <4>3, <4>4, OfIsLast
      <3>5. /\ h.cur_wp.temp = Of(w, "temp")
            /\ "temp" \notin q.have => h.cur_wp.temp = 0
        <4>1. "temp" \in q.have <=> Only(w, {"temp"}) # <<>> BY <1>2
        <4>2. "temp" \notin q.have => g.cur_wp.temp = 0 BY <3>1 DEF CsvHas
        <4>3. h.cur_wp.temp = LastOf(Only(w, {"temp"}), 0) BY <3>2, <4>1, <4>2 DEF LastOf
        <4>4. "temp" \notin q.have => h.cur_wp.temp = 0 BY <4>1, <4>3 DEF LastOf
        <4> QED BY <4>3, <4>4, OfIsLast
      <3>6. Row(h.cur_wp) = RowOf(w) BY <3>2, <3>3, <3>4, <3>5 DEF Row, RowOf
      <3>7. /\ "depth" \notin q.have \ Single => h.cur_wp.depth = 0
            /\ "temp" \notin q.have \ Single => h.cur_wp.temp = 0
        BY <3>4, <3>5 DEF Single
      <3>8. /\ IsList(h.rows) /\ Len(h.rows) = n
            /\ \A i \in 1 .. n : h.rows[i] = RowOf(s[i])
        <4>1. CASE n = 0
          <5>1. h.rows = g.rows /\ Len(g.rows) = 0 /\ IsList(g.rows)
            BY <3>1, <3>2, <4>1 DEF CsvHas
          <5> QED BY <4>1, <5>1
        <4>2. CASE n # 0
          <5> DEFINE x == Row(g.cur_wp)
          <5>1. /\ IsList(g.rows) /\ Len(g.rows) = n - 1 /\ x = RowOf(s[n])
                /\ \A i \in 1 .. n - 1 : g.rows[i] = RowOf(s[i])
                /\ h.rows = Append(g.rows, x)
            BY <3>1, <3>2, <4>2 DEF CsvHas
          <5> HIDE DEF x
          <5>2. /\ IsList(h.rows) /\ Len(h.rows) = (n - 1) + 1
                /\ \A i \in 1 .. n - 1 : h.rows[i] = g.rows[i]
                /\ h.rows[(n - 1) + 1] = x
            BY <5>1, AppendIsList
          <5> HIDE DEF n
          <5>3. (n - 1) + 1 = n BY <1>3
          <5>4. ASSUME NEW i \in 1 .. n PROVE h.rows[i] = RowOf(s[i])
            <6>1. i \in 1 .. n - 1 \/ i = n BY <1>3
            <6> QED BY <5>1, <5>2, <5>3, <6>1
          <5> QED BY <5>2, <5>3, <5>4
        <4> QED BY <4>1, <4>2
      <3>9. z[Len(z)] = w /\ Len(z) - 1 = n /\ Len(z) # 0 BY <1>3 DEF z, w
      <3>10. \A i \in 1 .. n : RowOf(z[i]) = RowOf(s[i]) BY <1>3 DEF z
      <3> HIDE DEF n
      <3> QED BY <3>2, <3>6, <3>7, <3>8, <3>9, <3>10 DEF CsvHas
    <2> QED BY <2>2, <2>3 DEF Output, h, z, w
  <1> QED BY <1>4, <1>5 DEF Output

-----------------------------------------------------------------------------
(* The inductive invariant.                                                *)

ControlInv ==
  /\ pc \in {"next", "header", "profile", "failed", "done"}
  /\ model \in ParserModels /\ count \in 0 .. MaxParsed
  /\ hdr \in Headers /\ data \in Seq(0 .. 255) /\ stray \in BOOLEAN

ParserInv ==
  /\ IsParser(p) /\ p.complete \in Nat /\ p.time \in 0 .. MaxTime + 3
  /\ p.tank \in TankIds \/ stray

(* The parser is inside the data, and at its front before there is any.    *)
PlaceInv ==
  /\ offset \in Nat
  /\ pc = "header" => offset = 0 /\ reach = 0
  /\ ~stray => offset <= Len(data) /\ reach <= Len(data)

(* The clock counts the waypoints of the dive.                             *)
ClockInv ==
  /\ IsList(sent) /\ p.time = 4 * Len(sent)
  /\ \A i \in 1 .. Len(sent) : IsList(sent[i]) /\ sent[i][1] = Event("time", 4 * (i - 1), 0)

Known(e) == \E r \in known : e.token = Token(r) \/ (r = "alarms" /\ e.token = "alarm")

(* What the parser has, and what it has sent, is known from this dive.     *)
OwnInv ==
  /\ p.have \subseteq known /\ "time" \notin p.have
  /\ \A i \in 1 .. Len(sent) : \A j \in 2 .. Len(sent[i]) : Known(sent[i][j])

(* The first depth is calibrated when it is read, and sent before another  *)
(* record is read: this is what the first waypoint with a depth rests on.  *)
SurfaceInv ==
  /\ p.calibrated => "depth" \in p.have
  /\ "depth" \in p.have /\ WithDepth = {} => p.complete > 0 /\ p.val.depth - p.dcal = 0
  /\ \A i \in WithDepth :
       (\A j \in WithDepth : i <= j) => Event("depth", 0, 0) \in ToSet(sent[i])

(* The output of the dive is that of its waypoints so far.                 *)
OutputInv == Output(f, sent, p.have)

IInv == ControlInv /\ ParserInv /\ PlaceInv /\ ClockInv /\ OwnInv /\ SurfaceInv /\ OutputInv

-----------------------------------------------------------------------------
(* A waypoint behind the others of its dive.                               *)

HasDepth(w) == \E e \in ToSet(w) : e.token = "depth"

DepthIn(s) == {i \in 1 .. Len(s) : HasDepth(s[i])}

(* A waypoint has a depth just when the parser has one.                    *)
LEMMA WaypointHasDepth ==
  ASSUME NEW q
  PROVE  /\ HasDepth(Waypoint(q)) => "depth" \in q.have
         /\ "depth" \in q.have =>
              /\ HasDepth(Waypoint(q))
              /\ Event("depth", q.val.depth - q.dcal, 0) \in ToSet(Waypoint(q))
  <1> DEFINE w == Waypoint(q)
             d == Event("depth", q.val.depth - q.dcal, 0)
  <1>1. IsWaypoint(q, w) /\ ("depth" \in q.have => (Len(w) >= 2 /\ w[2] = d))
    BY WaypointEvents
  <1>2. d.token = "depth" /\ Event("time", q.time, 0).token = "time" BY DEF Event
  <1> HIDE DEF w, d
  <1>3. Len(w) \in Nat /\ ToSet(w) = {w[j] : j \in 1 .. Len(w)}
    <2>1. Len(w) \in Nat /\ DOMAIN w = 1 .. Len(w) BY <1>1 DEF IsWaypoint, IsList
    <2> QED BY <2>1 DEF ToSet
  <1>4. ASSUME "depth" \in q.have PROVE HasDepth(w) /\ d \in ToSet(w)
    <2>1. 2 \in 1 .. Len(w) BY <1>1, <1>3, <1>4
    <2>2. d \in ToSet(w) BY <1>1, <1>3, <1>4, <2>1
    <2> QED BY <1>2, <2>2 DEF HasDepth
  <1>5. ASSUME HasDepth(w) PROVE "depth" \in q.have
    <2>1. PICK j \in 1 .. Len(w) : w[j].token = "depth" BY <1>3, <1>5 DEF HasDepth
    <2>2. j # 1 BY <1>1, <1>2, <2>1 DEF IsWaypoint
    <2>3. j \in 2 .. Len(w) BY <1>3, <2>1, <2>2
    <2>4. Had(q, w[j]) BY <1>1, <2>3 DEF IsWaypoint
    <2>5. PICK r \in q.have : w[j].token = Token(r) \/ (r = "alarms" /\ w[j].token = "alarm")
      BY <2>4 DEF Had
    <2>6. Token(r) = "depth" BY <2>1, <2>5
    <2>7. r = "depth" BY <2>6 DEF Token
    <2> QED BY <2>7
  <1> QED BY <1>4, <1>5 DEF w, d

(* The waypoints with a depth, when one more waypoint is sent.             *)
LEMMA DepthGrows ==
  ASSUME NEW s, IsList(s), NEW w
  PROVE  /\ Len(s) \in Nat
         /\ \A i \in DepthIn(s) : i \in 1 .. Len(s) /\ i \in DepthIn(Append(s, w))
         /\ \A i \in DepthIn(Append(s, w)) : i \in DepthIn(s) \/ (i = Len(s) + 1 /\ HasDepth(w))
         /\ HasDepth(w) => Len(s) + 1 \in DepthIn(Append(s, w))
  <1> DEFINE t == Append(s, w)
  <1>1. /\ IsList(t) /\ Len(s) \in Nat /\ Len(t) = Len(s) + 1
        /\ \A i \in 1 .. Len(s) : t[i] = s[i]
        /\ t[Len(s) + 1] = w
    BY AppendIsList
  <1> HIDE DEF t
  <1>2. ASSUME NEW i \in DepthIn(s) PROVE i \in 1 .. Len(s) /\ i \in DepthIn(t)
    <2>1. i \in 1 .. Len(s) /\ HasDepth(s[i]) BY DEF DepthIn
    <2>2. i \in 1 .. Len(t) /\ t[i] = s[i] BY <1>1, <2>1
    <2> QED BY <2>1, <2>2 DEF DepthIn
  <1>3. ASSUME NEW i \in DepthIn(t) PROVE i \in DepthIn(s) \/ (i = Len(s) + 1 /\ HasDepth(w))
    <2>1. i \in 1 .. Len(t) /\ HasDepth(t[i]) BY DEF DepthIn
    <2>2. CASE i = Len(s) + 1 BY <1>1, <2>1, <2>2
    <2>3. CASE i # Len(s) + 1
      <3>1. i \in 1 .. Len(s) BY <1>1, <2>1, <2>3
      <3> QED BY <1>1, <2>1, <3>1 DEF DepthIn
    <2> QED BY <2>2, <2>3
  <1>4. ASSUME HasDepth(w) PROVE Len(s) + 1 \in DepthIn(t)
    <2>1. Len(s) + 1 \in 1 .. Len(t) BY <1>1
    <2> QED BY <1>1, <1>4, <2>1 DEF DepthIn
  <1> QED BY <1>1, <1>2, <1>3, <1>4 DEF t

(* The two ways to name the waypoints with a depth.                        *)
LEMMA WithDepthIs == WithDepth = DepthIn(sent)
  BY DEF WithDepth, DepthIn, HasDepth

(* The states of a new parser.                                             *)
LEMMA NewParserIs ==
  /\ IsParser(NewParser) /\ NewParser.complete = 0 /\ NewParser.time = 0
  /\ NewParser.tank = 0 /\ NewParser.have = {} /\ NewParser.calibrated = FALSE
  BY DEF NewParser, IsParser, Fields

(* A dive without waypoints.                                               *)
LEMMA NoneSent ==
  /\ IsList(<<>>) /\ Len(<<>>) = 0 /\ DepthIn(<<>>) = {}
  /\ \A i : i \notin 1 .. Len(<<>>)
  <1>1. <<>> \in Seq({}) OBVIOUS
  <1>2. Len(<<>>) = 0 /\ \A i : i \notin 1 .. 0 OBVIOUS
  <1> QED BY <1>1, <1>2, SequenceIsList DEF DepthIn

-----------------------------------------------------------------------------
(* The invariant holds at the start and every action keeps it.             *)

(* A new parser and a new formatter.                                       *)
LEMMA InitHolds == Init => IInv
  <1> SUFFICES ASSUME Init PROVE IInv OBVIOUS
  <1>2. ControlInv
    <2>1. <<>> \in Seq(0 .. 255) OBVIOUS
    <2>2. data \in Seq(0 .. 255) BY <2>1 DEF Init
    <2>3. stray \in BOOLEAN BY DEF Init
    <2>4. count \in 0 .. MaxParsed BY ParserAssumption DEF Init
    <2> QED BY <2>2, <2>3, <2>4 DEF ControlInv, Init
  <1>3. p = NewParser /\ sent = <<>> /\ known = {} /\ data = <<>> /\ offset = 0 /\ reach = 0
    BY DEF Init
  <1>4. ParserInv BY <1>3, NewParserIs, ParserAssumption DEF ParserInv, TankIds, MaxTanks
  <1>5. PlaceInv BY <1>3, NoneSent DEF PlaceInv
  <1>6. ClockInv BY <1>3, NewParserIs, NoneSent DEF ClockInv
  <1>7. OwnInv BY <1>3, NewParserIs, NoneSent DEF OwnInv
  <1>8. SurfaceInv BY <1>3, NewParserIs, NoneSent, WithDepthIs DEF SurfaceInv
  <1>9. OutputInv
    <2>1. PICK a, b \in BOOLEAN : f = uddf_init_formatter(a) \/ f = csv_init_formatter(a, b)
      BY DEF Init
    <2>2. CASE f = uddf_init_formatter(a)
      <3>1. IsUddf(f) /\ f.samples = <<>> /\ f.lost = 0
        BY <2>2 DEF uddf_init_formatter, IsUddf, UddfFields
      <3>2. UddfHas(f, <<>>) BY <3>1, NoneSent DEF UddfHas
      <3> QED BY <1>3, <3>1, <3>2 DEF OutputInv, Output
    <2>3. CASE f = csv_init_formatter(a, b)
      <3>1. /\ f.magic = "csv" /\ DOMAIN f = CsvFields /\ f.rows = <<>> /\ f.cur_wp = Waypoint0
        BY <2>3 DEF csv_init_formatter, CsvFields
      <3>2. /\ Waypoint0.alarms = 0 /\ ~Waypoint0.valid /\ Waypoint0.depth = 0
            /\ Waypoint0.temp = 0 /\ DOMAIN Waypoint0 = WpFields
        BY DEF Waypoint0, WpFields
      <3>3. IsCsv(f) BY <3>1, <3>2 DEF IsCsv
      <3>4. CsvHas(f, <<>>, p.have) BY <3>1, <3>2, NoneSent DEF CsvHas
      <3> QED BY <1>3, <3>3, <3>4 DEF OutputInv, Output
    <2> QED BY <2>1, <2>2, <2>3
  <1> QED BY <1>2, <1>4, <1>5, <1>6, <1>7, <1>8, <1>9 DEF IInv

(* The parser and what it has sent are as they were.                       *)
LEMMA SameDive ==
  ASSUME IInv, UNCHANGED <<p, known, sent, stray>>
  PROVE  ParserInv' /\ ClockInv' /\ OwnInv' /\ SurfaceInv'
  <1>1. ParserInv' BY DEF IInv, ParserInv
  <1>2. ClockInv' BY DEF IInv, ClockInv
  <1>3. OwnInv' BY DEF IInv, OwnInv, Known
  <1>4. SurfaceInv' BY DEF IInv, SurfaceInv, WithDepth
  <1> QED BY <1>1, <1>2, <1>3, <1>4

(* The reset of the parser: no dive's value stays for the next one.        *)
LEMMA BeginDiveKeeps == IInv /\ BeginDive => IInv'
  <1> SUFFICES ASSUME IInv, BeginDive PROVE IInv' OBVIOUS
  <1>1. /\ p' = NewParser /\ sent' = <<>> /\ known' = {} /\ data' = <<>> /\ offset' = 0
        /\ reach' = 0 /\ f' = prolog_fn(f)
    BY DEF BeginDive, smart_parser_reset
  <1>2. OutputInv' BY <1>1, NewParserIs, OutputCleared DEF IInv, OutputInv
  <1>3. ControlInv'
    <2>1. <<>> \in Seq(0 .. 255) OBVIOUS
    <2>2. data' \in Seq(0 .. 255) BY <1>1, <2>1
    <2>3. stray' \in BOOLEAN BY DEF BeginDive, IInv, ControlInv
    <2>4. count' \in 0 .. MaxParsed BY ParserAssumption DEF BeginDive, IInv, ControlInv
    <2>5. pc' = "header" /\ model' \in ParserModels /\ hdr' \in Headers
      BY DEF BeginDive, IInv, ControlInv
    <2> QED BY <2>2, <2>3, <2>4, <2>5 DEF ControlInv
  <1>4. ParserInv' BY <1>1, NewParserIs, ParserAssumption DEF ParserInv, TankIds, MaxTanks
  <1>5. PlaceInv' BY <1>1, NoneSent DEF PlaceInv
  <1>6. ClockInv' BY <1>1, NewParserIs, NoneSent DEF ClockInv
  <1>7. OwnInv' BY <1>1, NewParserIs, NoneSent DEF OwnInv
  <1>8. SurfaceInv'
    <2>1. WithDepth' = DepthIn(sent') BY DEF WithDepth, DepthIn, HasDepth
    <2> QED BY <1>1, <2>1, NewParserIs, NoneSent DEF SurfaceInv
  <1> QED BY <1>2, <1>3, <1>4, <1>5, <1>6, <1>7, <1>8 DEF IInv

(* The header goes to the formatter; the parser is at the front of the     *)
(* profile.                                                                *)
LEMMA ParseHeaderKeeps == IInv /\ ParseHeader => IInv'
  <1> SUFFICES ASSUME IInv, ParseHeader PROVE IInv' OBVIOUS
  <1>1. ParserInv' /\ ClockInv' /\ OwnInv' /\ SurfaceInv' BY SameDive DEF ParseHeader
  <1>2. OutputInv'
    <2>1. IsFormatter(f) BY DEF IInv, OutputInv, Output, IsFormatter
    <2>2. Same(f, f) BY <2>1 DEF Same, IsFormatter
    <2>3. Same(f, WithHeader(f, parse_header(model, hdr)))
      BY <2>1, HeaderIsList, WithHeaderSame
    <2>4. Same(f, f') /\ p' = p /\ sent' = sent BY <2>2, <2>3 DEF ParseHeader
    <2> QED BY <2>4, OutputSame DEF IInv, OutputInv
  <1>3. data' \in Seq(0 .. 255) BY ParserAssumption DEF ParseHeader, IInv, ControlInv
  <1>4. ControlInv' BY <1>3 DEF ParseHeader, IInv, ControlInv
  <1>5. PlaceInv'
    <2>1. Len(data') \in Nat BY <1>3
    <2>2. offset' = 0 /\ reach' = 0 BY DEF ParseHeader, IInv, PlaceInv
    <2> QED BY <2>1, <2>2 DEF PlaceInv
  <1> QED BY <1>1, <1>2, <1>4, <1>5 DEF IInv

(* A record that is read: with no more waypoints to send the parser has    *)
(* sent the depth, if it has one.                                          *)
LEMMA UseEntryKeeps ==
  ASSUME IInv, AtDti, NEW dti, dti.ntb \in 0 .. 255, dti.extra \in 0 .. 255,
         UseEntry(dti), stray' \in BOOLEAN, stray => stray',
         ~stray' => (dti.idx \in TankIds /\ ExtraAt(dti, offset) <= Len(data)),
         UNCHANGED <<model, count, hdr, data, f, sent>>
  PROVE  IInv'
  <1> USE DEF IInv
  <1>0. /\ pc = "profile" /\ p.complete = 0 /\ IsParser(p)
        /\ offset \in Nat /\ data \in Seq(0 .. 255) /\ Len(data) \in Nat
    BY DEF AtDti, PlaceInv, ControlInv, ParserInv
  <1> DEFINE v == process_dti(dti, data, offset)
             at == ExtraAt(dti, offset)
  <1>1. v.value \in Nat /\ v.offset = at + dti.extra /\ at \in Nat /\ offset <= at
    BY <1>0, ValueType
  <1> HIDE DEF v
  <1>2. ControlInv'
    <2>1. pc' \in {"profile", "failed"} BY <1>0 DEF UseEntry
    <2> QED BY <2>1 DEF ControlInv
  <1>3. CASE Overflows(dti, data, offset)
    <2>1. pc' = "failed" /\ reach' = at /\ UNCHANGED <<p, offset, known>>
      BY <1>3 DEF UseEntry
    <2>2. ParserInv' BY <2>1 DEF ParserInv
    <2>3. ClockInv' BY <2>1 DEF ClockInv
    <2>4. OwnInv' BY <2>1 DEF OwnInv, Known
    <2>5. SurfaceInv' BY <2>1 DEF SurfaceInv, WithDepth
    <2>6. PlaceInv' BY <2>1 DEF PlaceInv
    <2>7. OutputInv' BY <2>1 DEF OutputInv
    <2> QED BY <1>2, <2>2, <2>3, <2>4, <2>5, <2>6, <2>7
  <1>4. CASE ~Overflows(dti, data, offset)
    <2>1. /\ p' = parse_dti(p, dti, v) /\ offset' = v.offset /\ reach' = v.offset /\ pc' = pc
          /\ known' = IF dti.abs \/ dti.type \in Single THEN known \cup {dti.type} ELSE known
      BY <1>4 DEF UseEntry, v
    <2>2. Effect(p, dti, v, p') BY <1>0, <2>1, DtiEffect
    <2>3. at + dti.extra <= Len(data)
      <3>1. ~(at + dti.extra > Len(data)) BY <1>4 DEF Overflows
      <3>2. \A x \in 0 .. 255 : at + x > Len(data) \/ at + x <= Len(data) BY <1>0, <1>1
      <3> QED BY <3>1, <3>2
    <2>4. PlaceInv'
      <3>1. \A x \in 0 .. 255 : at + x \in Nat BY <1>1
      <3>2. at + dti.extra \in Nat /\ at + dti.extra <= Len(data) BY <2>3, <3>1
      <3> QED BY <1>0, <1>1, <2>1, <3>2 DEF PlaceInv
    <2>5. ParserInv'
      <3>1. p'.complete \in Nat BY <1>0, <1>1, <2>2 DEF Effect
      <3>2. p'.tank \in TankIds \/ stray' BY <2>2 DEF Effect, ParserInv
      <3> QED BY <2>2, <3>1, <3>2 DEF Effect, ParserInv
    <2>6. ClockInv'
      <3>1. p'.time = p.time BY <2>2 DEF Effect
      <3> QED BY <3>1 DEF ClockInv
    <2>7. OwnInv'
      <3>1. known \subseteq known' BY <2>1
      <3>2. p'.have \subseteq known' /\ "time" \notin p'.have BY <2>1, <2>2 DEF Effect, OwnInv
      <3>3. \A i \in 1 .. Len(sent) : \A j \in 2 .. Len(sent[i]) : Known(sent[i][j])'
        BY <3>1 DEF OwnInv, Known
      <3> QED BY <3>2, <3>3 DEF OwnInv
    <2>8. SurfaceInv'
      <3>1. WithDepth' = WithDepth BY DEF WithDepth
      <3>2. p.calibrated => "depth" \in p.have BY DEF SurfaceInv
      <3>3. p'.calibrated => "depth" \in p'.have
        <4>1. p.have \subseteq p'.have BY <2>2 DEF Effect
        <4> QED BY <2>2, <3>2, <4>1 DEF Effect
      <3>4. ASSUME "depth" \in p'.have, WithDepth = {}
            PROVE  p'.complete > 0 /\ p'.val.depth - p'.dcal = 0
        <4>1. "depth" \notin p.have BY <1>0, <3>4 DEF SurfaceInv
        <4>2. ~p.calibrated BY <3>2, <4>1
        <4>3. p'.complete = 1 /\ p'.val.depth = 2 * v.value /\ p'.dcal = 2 * v.value
          BY <2>2, <3>4, <4>1, <4>2 DEF Effect
        <4> QED BY <1>1, <4>3
      <3> QED BY <3>1, <3>3, <3>4 DEF SurfaceInv
    <2>9. OutputInv'
      <3>1. p.have \subseteq p'.have BY <2>2 DEF Effect
      <3>2. Same(f, f) BY DEF OutputInv, Output, Same
      <3> QED BY <3>1, <3>2, OutputSame DEF OutputInv
    <2> QED BY <1>2, <2>4, <2>5, <2>6, <2>7, <2>8, <2>9
  <1> QED BY <1>3, <1>4

(* An entry of the table: its type bits are inside the data.               *)
LEMMA ParseDtiKeeps == IInv /\ ParseDti => IInv'
  <1> SUFFICES ASSUME IInv, ParseDti PROVE IInv' OBVIOUS
  <1> DEFINE dti == dti_table(model)[Code + 1]
  <1>1. /\ AtDti /\ Code < Len(dti_table(model)) /\ UseEntry(dti)
        /\ UNCHANGED <<model, count, hdr, data, f, stray, sent>>
    BY DEF ParseDti
  <1>2. /\ model \in Models /\ data \in Seq(0 .. 255) /\ offset \in Nat /\ offset < Len(data)
        /\ stray \in BOOLEAN
    BY <1>1, ParserAssumption DEF AtDti, IInv, ControlInv, PlaceInv
  <1>3. Code + 1 \in 1 .. Len(dti_table(model)) /\ ExtraAt(dti, offset) <= Len(data)
    BY <1>1, <1>2, TypeBitsInside DEF Code
  <1>4. EntryOK(dti) BY <1>2, <1>3, Tables
  <1> HIDE DEF dti
  <1>5. dti.ntb \in 0 .. 255 /\ dti.extra \in 0 .. 255 /\ dti.idx \in TankIds
    <2>1. /\ \A x \in 0 .. 2 : x \in 0 .. 255 /\ x \in TankIds
          /\ \A x \in 1 .. 14 : x \in 0 .. 255
      BY DEF TankIds, MaxTanks
    <2> QED BY <1>4, <2>1 DEF EntryOK
  <1>6. stray' \in BOOLEAN /\ (stray => stray') BY <1>1, <1>2
  <1> QED BY <1>1, <1>3, <1>5, <1>6, UseEntryKeeps

(* An entry behind the table: whatever it holds, the values stay numbers.  *)
LEMMA ParseStrayDtiKeeps == IInv /\ ParseStrayDti => IInv'
  <1> SUFFICES ASSUME IInv, ParseStrayDti PROVE IInv' OBVIOUS
  <1>1. PICK dti \in Strays : UseEntry(dti) BY DEF ParseStrayDti
  <1>2. AtDti /\ UNCHANGED <<model, count, hdr, data, f, sent>> BY DEF ParseStrayDti
  <1>3. stray' = TRUE BY DEF ParseStrayDti
  <1>4. dti.ntb \in 0 .. 255 /\ dti.extra \in 0 .. 255 BY ParserAssumption
  <1>5. stray' \in BOOLEAN /\ (stray => stray') /\ ~~stray' BY <1>3
  <1> QED BY <1>1, <1>2, <1>4, <1>5, UseEntryKeeps

(* A waypoint gets the time of its place, what the parser has, and, if it  *)
(* is the first one with a depth, the surface.                             *)
LEMMA SendWaypointKeeps == IInv /\ SendWaypoint => IInv'
  <1> SUFFICES ASSUME IInv, SendWaypoint PROVE IInv' OBVIOUS
  <1> USE DEF IInv
  <1> DEFINE w == Waypoint(p)
             n == Len(sent)
  <1>1. /\ p.complete > 0 /\ p.time < MaxTime /\ f' = WithWaypoint(f, w)
        /\ p' = WaypointDone(p) /\ sent' = Append(sent, w)
        /\ UNCHANGED <<pc, model, count, hdr, data, offset, reach, stray, known>>
    BY DEF SendWaypoint
  <1>2. IsParser(p) /\ p.complete \in Nat /\ p.time \in 0 .. MaxTime + 3 BY DEF ParserInv
  <1>3. /\ IsParser(p') /\ p'.time = p.time + 4 /\ p'.complete = p.complete - 1
        /\ p'.have = p.have \ {"bearing", "alarms"} /\ p'.tank = p.tank
        /\ p'.calibrated = p.calibrated
    BY <1>1, <1>2 DEF WaypointDone, IsParser, Fields
  <1>4. IsWaypoint(p, w) BY WaypointEvents
  <1>5. IsList(w) /\ Len(w) \in Nat /\ w[1] = Event("time", p.time, 0)
        /\ \A j \in 2 .. Len(w) : Had(p, w[j])
    BY <1>4 DEF IsWaypoint, IsList
  <1> HIDE DEF w
  <1>6. IsList(sent) BY DEF ClockInv
  <1>7. /\ IsList(sent') /\ n \in Nat /\ Len(sent') = n + 1
        /\ \A i \in 1 .. n : sent'[i] = sent[i]
        /\ sent'[n + 1] = w
    BY <1>1, <1>6, AppendIsList
  <1>8. \A i \in 1 .. Len(sent') : i \in 1 .. n \/ i = n + 1 BY <1>7
  <1>9. ControlInv' BY <1>1 DEF ControlInv
  <1>10. ParserInv'
    <2>1. p'.complete \in Nat BY <1>1, <1>2, <1>3
    <2>2. p'.time \in 0 .. MaxTime + 3 BY <1>1, <1>2, <1>3, ParserAssumption
    <2> QED BY <1>1, <1>3, <2>1, <2>2 DEF ParserInv
  <1>11. PlaceInv' BY <1>1 DEF PlaceInv
  <1>12. ClockInv'
    <2>1. p.time = 4 * n BY DEF ClockInv
    <2>2. p'.time = 4 * Len(sent') BY <1>3, <1>7, <2>1
    <2>3. w[1] = Event("time", 4 * ((n + 1) - 1), 0)
      <3>1. p.time = 4 * ((n + 1) - 1) BY <1>7, <2>1
      <3> QED BY <1>5, <3>1
    <2>4. ASSUME NEW i \in 1 .. Len(sent')
          PROVE  IsList(sent'[i]) /\ sent'[i][1] = Event("time", 4 * (i - 1), 0)
      <3>1. CASE i \in 1 .. n BY <1>7, <3>1 DEF ClockInv
      <3>2. CASE i = n + 1 BY <1>5, <1>7, <2>3, <3>2
      <3> QED BY <1>8, <3>1, <3>2
    <2> QED BY <1>7, <2>2, <2>4 DEF ClockInv
  <1>13. OwnInv'
    <2>1. p.have \subseteq known BY DEF OwnInv
    <2>2. \A e : Had(p, e) => Known(e) BY <2>1 DEF Had, Known
    <2>3. ASSUME NEW i \in 1 .. Len(sent'), NEW j \in 2 .. Len(sent'[i])
          PROVE  Known(sent'[i][j])
      <3>1. CASE i \in 1 .. n BY <1>7, <3>1 DEF OwnInv
      <3>2. CASE i = n + 1 BY <1>5, <1>7, <2>2, <3>2
      <3> QED BY <1>8, <3>1, <3>2
    <2>4. (\A i \in 1 .. Len(sent) : \A j \in 2 .. Len(sent[i]) : Known(sent[i][j]))'
      BY <1>1, <2>3 DEF Known
    <2>5. p'.have \subseteq known' /\ "time" \notin p'.have BY <1>1, <1>3, <2>1 DEF OwnInv
    <2> QED BY <2>4, <2>5 DEF OwnInv
  <1>14. SurfaceInv'
    <2> DEFINE D == DepthIn(sent)
               E == DepthIn(sent')
    <2>1. WithDepth = D /\ WithDepth' = E BY DEF WithDepth, DepthIn, HasDepth
    <2>2. /\ \A i \in D : i \in 1 .. n /\ i \in E
          /\ \A i \in E : i \in D \/ (i = n + 1 /\ HasDepth(w))
          /\ HasDepth(w) => n + 1 \in E
      BY <1>1, <1>6, DepthGrows
    <2>3. /\ HasDepth(w) => "depth" \in p.have
          /\ "depth" \in p.have =>
               /\ HasDepth(w)
               /\ Event("depth", p.val.depth - p.dcal, 0) \in ToSet(w)
      BY WaypointHasDepth DEF w
    <2>4. /\ "depth" \in p.have /\ D = {} => p.val.depth - p.dcal = 0
          /\ \A i \in D : (\A j \in D : i <= j) => Event("depth", 0, 0) \in ToSet(sent[i])
          /\ p.calibrated => "depth" \in p.have
      BY <2>1 DEF SurfaceInv
    <2> HIDE DEF D, E
    <2>5. p'.calibrated => "depth" \in p'.have BY <1>3, <2>4
    <2>6. ~("depth" \in p'.have /\ E = {}) BY <1>3, <2>2, <2>3
    <2>7. ASSUME NEW i \in E, \A j \in E : i <= j
          PROVE  Event("depth", 0, 0) \in ToSet(sent'[i])
      <3>1. CASE i \in D
        <4>1. \A j \in D : i <= j BY <2>2, <2>7
        <4> QED BY <1>7, <2>2, <2>4, <3>1, <4>1
      <3>2. CASE i = n + 1 /\ HasDepth(w)
        <4>1. D = {} BY <1>7, <2>2, <2>7, <3>2
        <4>2. "depth" \in p.have /\ p.val.depth - p.dcal = 0 BY <2>3, <2>4, <3>2, <4>1
        <4> QED BY <1>7, <2>3, <3>2, <4>2
      <3> QED BY <2>2, <3>1, <3>2
    <2> QED BY <2>1, <2>5, <2>6, <2>7 DEF SurfaceInv
  <1>15. OutputInv'
    <2>1. Output(f, sent, p.have) /\ "time" \notin p.have BY DEF OutputInv, OwnInv
    <2>2. Output(WithWaypoint(f, w), Append(sent, w), p.have \ Single)
      BY <1>6, <2>1, OutputGrows DEF w
    <2>3. p'.have = p.have \ Single BY <1>3 DEF Single
    <2> QED BY <1>1, <2>2, <2>3 DEF OutputInv
  <1> QED BY <1>9, <1>10, <1>11, <1>12, <1>13, <1>14, <1>15

(* Every step keeps the invariant.                                         *)
LEMMA NextKeeps == IInv /\ [Next]_vars => IInv'
  <1> SUFFICES ASSUME IInv, [Next]_vars PROVE IInv' OBVIOUS
  <1>1. CASE BeginDive BY <1>1, BeginDiveKeeps
  <1>2. CASE ParseHeader BY <1>2, ParseHeaderKeeps
  <1>3. CASE ParseDti BY <1>3, ParseDtiKeeps
  <1>4. CASE ParseStrayDti BY <1>4, ParseStrayDtiKeeps
  <1>5. CASE InvalidDti
    <2>1. ParserInv' /\ ClockInv' /\ OwnInv' /\ SurfaceInv' BY <1>5, SameDive DEF InvalidDti
    <2>2. ControlInv' BY <1>5 DEF InvalidDti, IInv, ControlInv
    <2>3. PlaceInv' BY <1>5 DEF InvalidDti, IInv, PlaceInv
    <2>4. OutputInv' BY <1>5 DEF InvalidDti, IInv, OutputInv
    <2> QED BY <2>1, <2>2, <2>3, <2>4 DEF IInv
  <1>6. CASE SendWaypoint BY <1>6, SendWaypointKeeps
  <1>7. CASE EndDive
    <2>1. ParserInv' /\ ClockInv' /\ OwnInv' /\ SurfaceInv' BY <1>7, SameDive DEF EndDive
    <2>2. OutputInv'
      <3>1. IsFormatter(f) BY DEF IInv, OutputInv, Output, IsFormatter
      <3>2. Same(f, f') /\ p' = p /\ sent' = sent BY <1>7, <3>1, EpilogSame DEF EndDive
      <3> QED BY <3>2, OutputSame DEF IInv, OutputInv
    <2>3. ControlInv' BY <1>7 DEF EndDive, IInv, ControlInv
    <2>4. PlaceInv' BY <1>7 DEF EndDive, IInv, PlaceInv
    <2> QED BY <2>1, <2>2, <2>3, <2>4 DEF IInv
  <1>8. CASE Finish
    <2>1. ParserInv' /\ ClockInv' /\ OwnInv' /\ SurfaceInv' BY <1>8, SameDive DEF Finish
    <2>2. ControlInv' BY <1>8 DEF Finish, IInv, ControlInv
    <2>3. PlaceInv' BY <1>8 DEF Finish, IInv, PlaceInv
    <2>4. OutputInv' BY <1>8 DEF Finish, IInv, OutputInv
    <2> QED BY <2>1, <2>2, <2>3, <2>4 DEF IInv
  <1>9. CASE UNCHANGED vars
    <2>1. ParserInv' /\ ClockInv' /\ OwnInv' /\ SurfaceInv' BY <1>9, SameDive DEF vars
    <2>2. ControlInv' BY <1>9 DEF vars, IInv, ControlInv
    <2>3. PlaceInv' BY <1>9 DEF vars, IInv, PlaceInv
    <2>4. OutputInv' BY <1>9 DEF vars, IInv, OutputInv
    <2> QED BY <2>1, <2>2, <2>3, <2>4 DEF IInv
  <1> QED BY <1>1, <1>2, <1>3, <1>4, <1>5, <1>6, <1>7, <1>8, <1>9 DEF Next

-----------------------------------------------------------------------------
(* The loop of run_parser, with the parser it resets for every dive, keeps *)
(* the inductive invariant.                                                *)
THEOREM Invariance == Spec => []IInv
  BY InitHolds, NextKeeps, PTL DEF Spec

(* The variables hold values of their kinds: no record makes the parser    *)
(* ask for a negative number of waypoints, and no record of a DTI table    *)
(* names a tank there is not.                                              *)
THEOREM TypeCorrect == Spec => []TypeOK
  <1>1. ASSUME IInv PROVE TypeOK
    <2>1. f.magic \in {"uddf", "csv"} BY <1>1 DEF IInv, OutputInv, Output, IsUddf, IsCsv
    <2> QED BY <1>1, <2>1 DEF IInv, ControlInv, ParserInv, TypeOK
  <1> QED BY <1>1, Invariance, PTL

(* smart_identify, galileo_identify, the DTI tables and the check in       *)
(* smart_process_dti keep every read inside the profile, whatever its      *)
(* bytes and its length: what they need is that entry i of a table for     *)
(* codes of ones has i type bits.                                          *)
THEOREM ReadsAreInside == Spec => []ReadsInside
  <1>1. IInv => ReadsInside BY DEF IInv, PlaceInv, ReadsInside
  <1> QED BY <1>1, Invariance, PTL

(* Every dive has a clock of its own that starts at 0 and gives a waypoint *)
(* every 4 seconds: smart_parser_reset clears it and only the loop that    *)
(* sends the waypoints moves it on.                                        *)
THEOREM ClockIsTheDives == Spec => []WaypointsAreSpaced
  <1>1. IInv => WaypointsAreSpaced BY DEF IInv, ClockInv, WaypointsAreSpaced
  <1> QED BY <1>1, Invariance, PTL

(* A reading goes into a waypoint only if this dive had an absolute value  *)
(* for it, and the first depth of a dive is its surface, also when records *)
(* behind the end of a DTI table have been used.                           *)
THEOREM ReadingsAreOwn == Spec => []ReadingsAreTheDivesOwn
  <1>1. ASSUME IInv PROVE ReadingsAreTheDivesOwn
    <2>1. \A i \in 1 .. Len(sent) : \A j \in 2 .. Len(sent[i]) : Known(sent[i][j])
      BY <1>1 DEF IInv, OwnInv
    <2>2. ASSUME WithDepth # {} PROVE Event("depth", 0, 0) \in ToSet(sent[Min(WithDepth)])
      <3>1. WithDepth \in SUBSET Nat BY DEF WithDepth
      <3>2. PICK n \in WithDepth : \A m \in WithDepth : n <= m BY <2>2, <3>1, Least
      <3>3. /\ Min(WithDepth) \in WithDepth
            /\ \A m \in WithDepth : Min(WithDepth) <= m
        BY <3>2 DEF Min
      <3> QED BY <1>1, <3>3 DEF IInv, SurfaceInv
    <2> QED BY <2>1, <2>2 DEF ReadingsAreTheDivesOwn, Known
  <1> QED BY <1>1, Invariance, PTL

(* Every element uddf_waypoint_cb writes finds its waypoint, in the dive   *)
(* it belongs to: the samples are the waypoints, one each, none is lost.   *)
THEOREM SamplesAreComplete == Spec => []UddfSamplesAreComplete
  <1>1. ASSUME IInv, f.magic = "uddf", f.profile
        PROVE  f.lost = 0 /\ f.samples = [i \in 1 .. Len(sent) |-> Only(sent[i], Written)]
    <2>1. UddfHas(f, sent) BY <1>1 DEF IInv, OutputInv, Output, IsCsv
    <2>2. /\ f.lost = 0 /\ IsList(f.samples) /\ Len(f.samples) = Len(sent)
          /\ \A i \in 1 .. Len(sent) : f.samples[i] = Only(sent[i], Written)
      BY <2>1 DEF UddfHas
    <2> DEFINE s == f.samples
    <2>3. s = [i \in 1 .. Len(s) |-> s[i]]
      <3> HIDE DEF s
      <3>1. \A S : \A z \in Seq(S) : z = [i \in 1 .. Len(z) |-> z[i]] OBVIOUS
      <3>2. IsList(s) BY <2>2 DEF s
      <3> QED BY <3>1, <3>2 DEF IsList
    <2> QED BY <2>2, <2>3
  <1>2. IInv => UddfSamplesAreComplete BY <1>1 DEF UddfSamplesAreComplete
  <1> QED BY <1>2, Invariance, PTL

(* csv_waypoint_cb prints a waypoint when the next one begins: the rows of *)
(* a dive are its waypoints in their order, with their own readings and    *)
(* alarms, and none that another one follows is skipped.  The readings in  *)
(* cur_wp are not cleared for a new row; that no row has one of the row    *)
(* before it rests on the parser, which sends a depth or a temperature     *)
(* with every waypoint once it has one.                                    *)
THEOREM RowsAreOwn == Spec => []CsvRowsAreOwn
  <1>1. ASSUME IInv, f.magic = "csv", f.profile
        PROVE  /\ Len(f.rows) \in Len(sent) - 1 .. Len(sent)
               /\ \A i \in 1 .. Len(f.rows) : f.rows[i] = RowOf(sent[i])
    <2> DEFINE s == f.rows
               n == Len(sent)
    <2>1. CsvHas(f, sent, p.have) BY <1>1 DEF IInv, OutputInv, Output, IsUddf
    <2>2. n \in Nat
      <3>1. IsList(sent) BY <1>1 DEF IInv, ClockInv
      <3> QED BY <3>1 DEF IsList
    <2>3. (n = 0 => Len(s) = 0)
          /\ (n # 0 => Len(s) = n - 1 /\ \A i \in 1 .. n - 1 : s[i] = RowOf(sent[i]))
      BY <2>1 DEF CsvHas
    <2> HIDE DEF s, n
    <2>4. Len(s) \in n - 1 .. n BY <2>2, <2>3
    <2>5. \A i \in 1 .. Len(s) : s[i] = RowOf(sent[i])
      <3>1. CASE n = 0 BY <2>3, <3>1
      <3>2. CASE n # 0 BY <2>3, <3>2
      <3> QED BY <3>1, <3>2
    <2> QED BY <2>4, <2>5 DEF s, n
  <1>2. IInv => CsvRowsAreOwn BY <1>1 DEF CsvRowsAreOwn
  <1> QED BY <1>2, Invariance, PTL

-----------------------------------------------------------------------------
(* The gas of the tanks.                                                   *)

(* The events of a header that give tank t a gas, and that only name it.   *)
GivesGas(e, t) == e.token = "pmo2" /\ e.value # 0 /\ e.index = t
NamesTank(e, t) == e.token = "px" /\ e.index = t

IsTankEvent(e) ==
  \/ e.token = "repetition"
  \/ e.token = "px" /\ e.index \in TankIds
  \/ e.token = "pmo2" /\ e.index \in TankIds /\ e.value \in Nat

(* x is what the first n events say of tank t.                             *)
Said(events, n, t, otherwise, x) ==
  \/ \E k \in 1 .. n : GivesGas(events[k], t) /\ x = events[k].value
  \/ /\ \A k \in 1 .. n : ~GivesGas(events[k], t)
     /\ \E k \in 1 .. n : NamesTank(events[k], t)
     /\ x = otherwise
  \/ /\ \A k \in 1 .. n : ~GivesGas(events[k], t) /\ ~NamesTank(events[k], t)
     /\ x = None

(* What event e makes of a tank's gas x.                                   *)
AfterEvent(e, t, otherwise, x) ==
  IF GivesGas(e, t) THEN e.value ELSE IF NamesTank(e, t) /\ x = None THEN otherwise ELSE x

(* What the UDDF formatter will write for tank t.                          *)
UddfGas(g, t) ==
  IF t \notin g.tanks THEN None ELSE IF g.cur_mixes[t] = None THEN 210 ELSE g.cur_mixes[t]

(* Formatter h has heard the first n events of a header, and was g before. *)
UddfHeard(g, h, events, n) ==
  /\ IsUddf(h) /\ h.mixes = g.mixes /\ h.links = g.links
  /\ DOMAIN h.cur_mixes = TankIds
  /\ \A t \in TankIds : /\ Said(events, n, t, 210, UddfGas(h, t))
                        /\ t \notin h.tanks => h.cur_mixes[t] = None

CsvHeard(g, h, events, n) ==
  /\ IsCsv(h) /\ h.titles = g.titles /\ h.tankrows = g.tankrows
  /\ h.hdr_complete = g.hdr_complete /\ h.tanks = [t \in TankIds |-> h.tanks[t]]
  /\ \A t \in TankIds : Said(events, n, t, 209, h.tanks[t])

(* A gas that an event gives, or one that stands for a tank without, stays *)
(* until another event gives one.                                          *)
LEMMA SaidNext ==
  ASSUME NEW events, NEW n \in Nat, NEW t, NEW otherwise \in Nat, NEW x,
         \A k \in 1 .. n : IsTankEvent(events[k]), Said(events, n, t, otherwise, x)
  PROVE  Said(events, n + 1, t, otherwise, AfterEvent(events[n + 1], t, otherwise, x))
  <1> DEFINE e == events[n + 1]
             y == AfterEvent(e, t, otherwise, x)
  <1>1. \A k \in 1 .. n + 1 : k \in 1 .. n \/ k = n + 1 OBVIOUS
  <1>2. n + 1 \in 1 .. n + 1 /\ \A k \in 1 .. n : k \in 1 .. n + 1 OBVIOUS
  <1>3. \A k \in 1 .. n : GivesGas(events[k], t) => events[k].value # None
    BY DEF IsTankEvent, GivesGas, None
  <1>4. CASE GivesGas(e, t)
    <2>1. y = e.value BY <1>4 DEF AfterEvent
    <2> QED BY <1>2, <1>4, <2>1 DEF Said
  <1>5. CASE ~GivesGas(e, t)
    <2>1. CASE \E k \in 1 .. n : GivesGas(events[k], t) /\ x = events[k].value
      <3>1. y = x BY <1>3, <1>5, <2>1 DEF AfterEvent
      <3> QED BY <1>2, <2>1, <3>1 DEF Said
    <2>2. CASE \A k \in 1 .. n : ~GivesGas(events[k], t)
      <3>1. \A k \in 1 .. n + 1 : ~GivesGas(events[k], t) BY <1>1, <1>5, <2>2
      <3>2. otherwise # None BY DEF None
      <3>3. CASE x = None
        <4>1. \A k \in 1 .. n : ~NamesTank(events[k], t) BY <2>2, <3>2, <3>3 DEF Said
        <4>2. y = IF NamesTank(e, t) THEN otherwise ELSE None
          BY <1>5, <3>3 DEF AfterEvent
        <4> QED BY <1>1, <1>2, <3>1, <4>1, <4>2 DEF Said
      <3>4. CASE x # None
        <4>1. x = otherwise /\ \E k \in 1 .. n : NamesTank(events[k], t)
          BY <2>2, <3>4 DEF Said
        <4>2. y = otherwise BY <1>5, <3>4, <4>1 DEF AfterEvent
        <4> QED BY <1>2, <3>1, <4>1, <4>2 DEF Said
      <3> QED BY <3>3, <3>4
    <2> QED BY <2>1, <2>2 DEF Said
  <1> QED BY <1>4, <1>5

(* uddf_header_cb: a mix is kept for the epilog, also when the pressures   *)
(* of its tank come later.                                                 *)
LEMMA UddfHearsNext ==
  ASSUME NEW g, NEW h, NEW events, NEW n \in Nat, UddfHeard(g, h, events, n),
         \A k \in 1 .. n + 1 : IsTankEvent(events[k])
  PROVE  UddfHeard(g, header_cb(h, events[n + 1]), events, n + 1)
  <1> DEFINE e == events[n + 1]
             c == header_cb(h, e)
  <1>1. IsUddf(h) /\ DOMAIN h.cur_mixes = TankIds BY DEF UddfHeard
  <1>2. c = uddf_header_cb(h, e) BY <1>1 DEF header_cb, IsUddf
  <1>3. IsTankEvent(e)
    <2>1. n + 1 \in 1 .. n + 1 OBVIOUS
    <2> QED BY <2>1
  <1>4. ASSUME NEW t \in TankIds
        PROVE  Said(events, n + 1, t, 210, AfterEvent(e, t, 210, UddfGas(h, t)))
    <2>1. \A k \in 1 .. n : IsTankEvent(events[k])
      <3>1. \A k \in 1 .. n : k \in 1 .. n + 1 OBVIOUS
      <3> QED BY <3>1
    <2>2. Said(events, n, t, 210, UddfGas(h, t)) BY DEF UddfHeard
    <2> QED BY <2>1, <2>2, SaidNext
  <1>5. /\ DOMAIN h = UddfFields /\ h.magic = "uddf"
        /\ \A t \in TankIds : t \notin h.tanks => h.cur_mixes[t] = None
        /\ h.mixes = g.mixes /\ h.links = g.links
    BY <1>1 DEF IsUddf, UddfHeard
  <1> HIDE DEF e, c
  <1>6. CASE e.token = "px"
    <2>1. c = [h EXCEPT !.tanks = @ \cup {e.index}] BY <1>2, <1>6 DEF uddf_header_cb
    <2>2. /\ DOMAIN c = UddfFields /\ c.magic = "uddf" /\ c.tanks = h.tanks \cup {e.index}
          /\ c.cur_mixes = h.cur_mixes /\ c.mixes = h.mixes /\ c.links = h.links
      BY <1>5, <2>1 DEF UddfFields
    <2>3. ASSUME NEW t \in TankIds PROVE UddfGas(c, t) = AfterEvent(e, t, 210, UddfGas(h, t))
      <3>1. ~GivesGas(e, t) /\ (NamesTank(e, t) <=> t = e.index)
        BY <1>6 DEF GivesGas, NamesTank
      <3> QED BY <1>5, <2>2, <3>1 DEF UddfGas, AfterEvent, None
    <2> QED BY <1>1, <1>4, <1>5, <2>2, <2>3 DEF UddfHeard, IsUddf, c, e
  <1>7. CASE e.token = "pmo2" /\ e.value # 0
    <2>1. c = [h EXCEPT !.tanks = @ \cup {e.index}, !.cur_mixes[e.index] = e.value]
      BY <1>2, <1>7 DEF uddf_header_cb
    <2>2. /\ DOMAIN c = UddfFields /\ c.magic = "uddf" /\ c.tanks = h.tanks \cup {e.index}
          /\ c.cur_mixes = [h.cur_mixes EXCEPT ![e.index] = e.value]
          /\ c.mixes = h.mixes /\ c.links = h.links
      BY <1>5, <2>1 DEF UddfFields
    <2>3. /\ DOMAIN c.cur_mixes = TankIds
          /\ \A t \in TankIds : c.cur_mixes[t] = IF t = e.index THEN e.value ELSE h.cur_mixes[t]
      BY <1>1, <2>2
    <2>4. e.index \in TankIds /\ e.value \in Nat BY <1>3, <1>7 DEF IsTankEvent
    <2>5. ASSUME NEW t \in TankIds PROVE UddfGas(c, t) = AfterEvent(e, t, 210, UddfGas(h, t))
      <3>1. ~NamesTank(e, t) /\ (GivesGas(e, t) <=> t = e.index)
        BY <1>7 DEF GivesGas, NamesTank
      <3>2. e.value # None BY <2>4 DEF None
      <3> QED BY <2>2, <2>3, <3>1, <3>2 DEF UddfGas, AfterEvent
    <2> QED BY <1>4, <1>5, <2>2, <2>3, <2>5 DEF UddfHeard, IsUddf, c, e
  <1>8. CASE e.token # "px" /\ ~(e.token = "pmo2" /\ e.value # 0)
    <2>1. c = h \/ c = [h EXCEPT !.rgid = @ + 1] BY <1>2, <1>8 DEF uddf_header_cb
    <2>2. /\ DOMAIN c = UddfFields /\ c.magic = "uddf" /\ c.tanks = h.tanks
          /\ c.cur_mixes = h.cur_mixes /\ c.mixes = h.mixes /\ c.links = h.links
      BY <1>5, <2>1 DEF UddfFields
    <2>3. ASSUME NEW t \in TankIds PROVE UddfGas(c, t) = AfterEvent(e, t, 210, UddfGas(h, t))
      <3>1. ~GivesGas(e, t) /\ ~NamesTank(e, t) BY <1>8 DEF GivesGas, NamesTank
      <3> QED BY <2>2, <3>1 DEF UddfGas, AfterEvent
    <2> QED BY <1>1, <1>4, <1>5, <2>2, <2>3 DEF UddfHeard, IsUddf, c, e
  <1> QED BY <1>6, <1>7, <1>8 DEF c, e

(* csv_header_cb, in the same way.                                         *)
LEMMA CsvHearsNext ==
  ASSUME NEW g, NEW h, NEW events, NEW n \in Nat, CsvHeard(g, h, events, n),
         \A k \in 1 .. n + 1 : IsTankEvent(events[k])
  PROVE  CsvHeard(g, header_cb(h, events[n + 1]), events, n + 1)
  <1> DEFINE e == events[n + 1]
             c == header_cb(h, e)
  <1>1. IsCsv(h) /\ DOMAIN h.tanks = TankIds BY DEF CsvHeard
  <1>2. c = csv_header_cb(h, e) BY <1>1 DEF header_cb, IsCsv
  <1>3. IsTankEvent(e)
    <2>1. n + 1 \in 1 .. n + 1 OBVIOUS
    <2> QED BY <2>1
  <1>4. ASSUME NEW t \in TankIds
        PROVE  Said(events, n + 1, t, 209, AfterEvent(e, t, 209, h.tanks[t]))
    <2>1. \A k \in 1 .. n : IsTankEvent(events[k])
      <3>1. \A k \in 1 .. n : k \in 1 .. n + 1 OBVIOUS
      <3> QED BY <3>1
    <2>2. Said(events, n, t, 209, h.tanks[t]) BY DEF CsvHeard
    <2> QED BY <2>1, <2>2, SaidNext
  <1>5. /\ DOMAIN h = CsvFields /\ h.magic = "csv" /\ DOMAIN h.cur_wp = WpFields
        /\ h.titles = g.titles /\ h.tankrows = g.tankrows /\ h.hdr_complete = g.hdr_complete
    BY <1>1 DEF IsCsv, CsvHeard
  <1> HIDE DEF e, c
  <1>6. ASSUME NEW x, c = [h EXCEPT !.tanks[e.index] = x], e.index \in TankIds,
               \A t \in TankIds : t # e.index => ~GivesGas(e, t) /\ ~NamesTank(e, t),
               x = AfterEvent(e, e.index, 209, h.tanks[e.index])
        PROVE  CsvHeard(g, c, events, n + 1)
    <2>1. /\ DOMAIN c = CsvFields /\ c.magic = "csv" /\ c.cur_wp = h.cur_wp
          /\ c.titles = h.titles /\ c.tankrows = h.tankrows /\ c.hdr_complete = h.hdr_complete
          /\ c.tanks = [h.tanks EXCEPT ![e.index] = x]
      BY <1>5, <1>6 DEF CsvFields
    <2>2. /\ c.tanks = [t \in TankIds |-> c.tanks[t]]
          /\ \A t \in TankIds : c.tanks[t] = IF t = e.index THEN x ELSE h.tanks[t]
      BY <1>1, <2>1
    <2>3. \A t \in TankIds : c.tanks[t] = AfterEvent(e, t, 209, h.tanks[t])
      BY <1>6, <2>2 DEF AfterEvent
    <2> QED BY <1>4, <1>5, <2>1, <2>2, <2>3 DEF CsvHeard, IsCsv
  <1>7. CASE e.token = "px"
    <2> DEFINE x == IF h.tanks[e.index] = None THEN 209 ELSE h.tanks[e.index]
    <2>1. c = [h EXCEPT !.tanks[e.index] = x] BY <1>2, <1>7 DEF csv_header_cb
    <2>2. e.index \in TankIds BY <1>3, <1>7 DEF IsTankEvent
    <2>3. x = AfterEvent(e, e.index, 209, h.tanks[e.index])
      BY <1>7 DEF AfterEvent, GivesGas, NamesTank
    <2>4. \A t \in TankIds : t # e.index => ~GivesGas(e, t) /\ ~NamesTank(e, t)
      BY DEF GivesGas, NamesTank
    <2> HIDE DEF x
    <2> QED BY <1>6, <2>1, <2>2, <2>3, <2>4 DEF c, e
  <1>8. CASE e.token = "pmo2" /\ e.value # 0
    <2> DEFINE x == e.value
    <2>1. c = [h EXCEPT !.tanks[e.index] = x] BY <1>2, <1>8 DEF csv_header_cb
    <2>2. e.index \in TankIds BY <1>3, <1>8 DEF IsTankEvent
    <2>3. x = AfterEvent(e, e.index, 209, h.tanks[e.index])
      BY <1>8 DEF AfterEvent, GivesGas, NamesTank
    <2>4. \A t \in TankIds : t # e.index => ~GivesGas(e, t) /\ ~NamesTank(e, t)
      BY DEF GivesGas, NamesTank
    <2> HIDE DEF x
    <2> QED BY <1>6, <2>1, <2>2, <2>3, <2>4 DEF c, e
  <1>9. CASE e.token # "px" /\ ~(e.token = "pmo2" /\ e.value # 0)
    <2>1. c = h BY <1>2, <1>9 DEF csv_header_cb
    <2>2. ASSUME NEW t \in TankIds PROVE c.tanks[t] = AfterEvent(e, t, 209, h.tanks[t])
      <3>1. ~GivesGas(e, t) /\ ~NamesTank(e, t) BY <1>9 DEF GivesGas, NamesTank
      <3> QED BY <2>1, <3>1 DEF AfterEvent
    <2> QED BY <1>1, <1>4, <1>5, <2>1, <2>2 DEF CsvHeard, c, e
  <1> QED BY <1>7, <1>8, <1>9 DEF c, e

(* A list of no events says nothing.                                       *)
LEMMA NothingSaid ==
  ASSUME NEW events, NEW t, NEW otherwise
  PROVE  Said(events, 0, t, otherwise, None)
  <1>1. \A k \in 1 .. 0 : FALSE OBVIOUS
  <1> QED BY <1>1 DEF Said

(* The formatter after a whole header has heard all its events.            *)
LEMMA HeaderHeard ==
  ASSUME NEW g, NEW events, Len(events) \in Nat,
         \A k \in 1 .. Len(events) : IsTankEvent(events[k])
  PROVE  /\ UddfHeard(g, g, events, 0) => UddfHeard(g, WithHeader(g, events), events, Len(events))
         /\ CsvHeard(g, g, events, 0) => CsvHeard(g, WithHeader(g, events), events, Len(events))
  <1> DEFINE n == Len(events)
             r == CHOOSE r : IsHeaderRun(r, g, events, n)
             Heard(h, i) == /\ UddfHeard(g, g, events, 0) => UddfHeard(g, h, events, i)
                            /\ CsvHeard(g, g, events, 0) => CsvHeard(g, h, events, i)
             T == {i \in 0 .. n : ~Heard(r[i], i)}
  <1>1. IsHeaderRun(r, g, events, n) BY HeaderRunExists
  <1>2. WithHeader(g, events) = r[n] BY DEF WithHeader, IsHeaderRun
  <1> HIDE DEF r
  <1>3. SUFFICES ASSUME T # {} PROVE FALSE BY <1>2
  <1>4. PICK i \in T : \A j \in T : i <= j
    <2>1. T \in SUBSET Nat OBVIOUS
    <2> HIDE DEF T
    <2> QED BY <1>3, <2>1, Least
  <1>5. i \in 0 .. n /\ r[i] = IF i = 0 THEN g ELSE header_cb(r[i - 1], events[i])
    BY <1>1, <1>4 DEF IsHeaderRun
  <1>6. ~Heard(r[i], i) BY <1>4
  <1>7. CASE i = 0 BY <1>5, <1>6, <1>7
  <1>8. CASE i # 0
    <2> DEFINE j == i - 1
    <2>1. j \in Nat /\ j \in 0 .. n /\ j \notin T /\ j + 1 = i BY <1>4, <1>5, <1>8
    <2>2. Heard(r[j], j) BY <2>1
    <2>3. \A k \in 1 .. j + 1 : IsTankEvent(events[k])
      <3>1. \A k \in 1 .. j + 1 : k \in 1 .. n BY <1>5, <2>1
      <3> QED BY <3>1
    <2>4. r[i] = header_cb(r[j], events[j + 1]) BY <1>5, <1>8, <2>1
    <2> HIDE DEF j
    <2>5. Heard(r[i], j + 1) BY <2>1, <2>2, <2>3, <2>4, UddfHearsNext, CsvHearsNext
    <2> QED BY <1>6, <2>1, <2>5
  <1> QED BY <1>7, <1>8

(* Oxygen says it of a header and a model.                                 *)
GasOf(m, h, t, otherwise) ==
  IF \E e \in ToSet(Mixes(m, h)) : e.index = t /\ e.value # 0 THEN h.o2[t + 1]
  ELSE IF \E e \in ToSet(Pressures(m)) : e.index = t THEN otherwise
  ELSE None

(* The events of a header are those of its mixes and pressures, and there  *)
(* is at most one mix for a tank.                                          *)
LEMMA HeaderSays ==
  ASSUME NEW m, NEW h, h.o2 \in [1 .. 3 -> Nat]
  PROVE  /\ \A k \in 1 .. Len(parse_header(m, h)) : IsTankEvent(parse_header(m, h)[k])
         /\ \A t \in TankIds : \A otherwise, x :
              Said(parse_header(m, h), Len(parse_header(m, h)), t, otherwise, x)
                => x = GasOf(m, h, t, otherwise)
  <1> DEFINE rep == Event("repetition", h.rep, 0)
             a == IF m \in HasRepetition THEN <<rep>> ELSE <<>>
             b == Mixes(m, h)
             c == Pressures(m)
             s == parse_header(m, h)
             nb == IF m \in ThreeMixes THEN 3 ELSE 1
             nc == CASE m \in {"galileo_sol", "smart_tec"} -> 3
                     [] m \in {"smart_com", "smart_z"} -> 1
                     [] OTHER -> 0
  <1>1. IsList(a) /\ \A i \in 1 .. Len(a) : a[i].token = "repetition"
    <2>1. rep.token = "repetition" BY DEF Event
    <2> HIDE DEF rep
    <2>2. <<rep>> \in Seq({rep}) /\ Len(<<rep>>) = 1 /\ <<rep>>[1] = rep OBVIOUS
    <2>3. <<>> \in Seq({rep}) /\ Len(<<>>) = 0 OBVIOUS
    <2>4. IsList(<<rep>>) /\ IsList(<<>>) BY <2>2, <2>3, SequenceIsList
    <2>5. CASE m \in HasRepetition
      <3>1. a = <<rep>> BY <2>5
      <3>2. \A i \in 1 .. 1 : <<rep>>[i].token = "repetition" BY <2>1, <2>2
      <3> QED BY <2>2, <2>4, <3>1, <3>2
    <2>6. CASE m \notin HasRepetition
      <3>1. a = <<>> BY <2>6
      <3> QED BY <2>3, <2>4, <3>1
    <2> QED BY <2>5, <2>6
  <1>2. /\ IsList(b) /\ Len(b) = nb
        /\ \A i \in 1 .. nb : b[i] = Event("pmo2", h.o2[i], i - 1)
    <2>1. nb \in Nat OBVIOUS
    <2>2. b = [i \in 1 .. nb |-> Event("pmo2", h.o2[i], i - 1)] BY DEF Mixes
    <2> HIDE DEF nb, b
    <2>3. b = [i \in 1 .. nb |-> b[i]] BY <2>2
    <2>4. IsList(b) /\ Len(b) = nb BY <2>1, <2>3, FunctionIsList
    <2> QED BY <2>2, <2>4
  <1>3. /\ IsList(c) /\ Len(c) = nc /\ \A i \in 1 .. nc : c[i] = Event("px", 0, i - 1)
    <2>1. nc \in Nat OBVIOUS
    <2>2. c = [i \in 1 .. nc |-> Event("px", 0, i - 1)] BY DEF Pressures
    <2> HIDE DEF nc, c
    <2>3. c = [i \in 1 .. nc |-> c[i]] BY <2>2
    <2>4. IsList(c) /\ Len(c) = nc BY <2>1, <2>3, FunctionIsList
    <2> QED BY <2>2, <2>4
  <1>4. nb \in 0 .. 3 /\ nc \in 0 .. 3 OBVIOUS
  <1>5. s = (a \o b) \o c BY DEF parse_header
  <1> HIDE DEF a, b, c, nb, nc, rep
  <1>6. ASSUME NEW i \in 1 .. nb
        PROVE  /\ b[i].token = "pmo2" /\ b[i].index = i - 1 /\ b[i].index \in TankIds
               /\ b[i].value \in Nat /\ b[i].value = h.o2[b[i].index + 1]
    <2>1. b[i].token = "pmo2" /\ b[i].index = i - 1 /\ b[i].value = h.o2[i]
      BY <1>2 DEF Event
    <2>2. i \in 1 .. 3 /\ i - 1 \in TankIds /\ (i - 1) + 1 = i BY <1>4 DEF TankIds, MaxTanks
    <2> QED BY <2>1, <2>2
  <1>7. ASSUME NEW i \in 1 .. nc
        PROVE  c[i].token = "px" /\ c[i].index \in TankIds
    <2>1. c[i].token = "px" /\ c[i].index = i - 1 BY <1>3 DEF Event
    <2>2. i - 1 \in TankIds BY <1>4 DEF TankIds, MaxTanks
    <2> QED BY <2>1, <2>2
  <1> DEFINE d == a \o b
             la == Len(a)
  <1>8. /\ IsList(d) /\ la \in Nat /\ Len(d) = la + nb
        /\ \A i \in 1 .. la : d[i] = a[i]
        /\ \A i \in 1 .. nb : d[la + i] = b[i]
    BY <1>1, <1>2, ConcatIsList
  <1> HIDE DEF s
  <1>15. s = d \o c BY <1>5
  <1> HIDE DEF d
  <1>9. /\ Len(s) = (la + nb) + nc
        /\ \A i \in 1 .. la + nb : s[i] = d[i]
        /\ \A i \in 1 .. nc : s[(la + nb) + i] = c[i]
    <2>4. IsList(d) /\ IsList(c) BY <1>3, <1>8
    <2>1. /\ Len(d \o c) = Len(d) + Len(c)
          /\ \A i \in 1 .. Len(d) : (d \o c)[i] = d[i]
          /\ \A i \in 1 .. Len(c) : (d \o c)[Len(d) + i] = c[i]
      BY <2>4, ConcatIsList
    <2>2. Len(d) = la + nb /\ Len(c) = nc BY <1>3, <1>8
    <2> QED BY <1>15, <2>1, <2>2
  <1> HIDE DEF la
  <1>10. ASSUME NEW k \in 1 .. Len(s)
         PROVE  \/ s[k].token = "repetition"
                \/ \E i \in 1 .. nb : s[k] = b[i]
                \/ \E i \in 1 .. nc : s[k] = c[i]
    <2>1. CASE k \in 1 .. la
      <3>1. k \in 1 .. la + nb BY <1>4, <1>8, <2>1
      <3>2. s[k] = a[k] BY <1>8, <1>9, <2>1, <3>1
      <3> QED BY <1>1, <2>1, <3>2 DEF la
    <2>2. CASE k \in la + 1 .. la + nb
      <3>1. k \in 1 .. la + nb /\ k - la \in 1 .. nb /\ la + (k - la) = k
        BY <1>4, <1>8, <2>2
      <3>2. s[k] = b[k - la] BY <1>8, <1>9, <3>1
      <3> QED BY <3>1, <3>2
    <2>3. CASE k \in la + nb + 1 .. la + nb + nc
      <3>1. k - (la + nb) \in 1 .. nc /\ (la + nb) + (k - (la + nb)) = k
        BY <1>4, <1>8, <2>3
      <3>2. s[k] = c[k - (la + nb)] BY <1>9, <3>1
      <3> QED BY <3>1, <3>2
    <2> QED BY <1>4, <1>8, <1>9, <2>1, <2>2, <2>3
  <1>11. ASSUME NEW i \in 1 .. nb PROVE \E k \in 1 .. Len(s) : s[k] = b[i]
    <2>1. la + i \in 1 .. Len(s) /\ la + i \in 1 .. la + nb BY <1>4, <1>8, <1>9
    <2>2. s[la + i] = b[i] BY <1>8, <1>9, <2>1
    <2> QED BY <2>1, <2>2
  <1>12. ASSUME NEW i \in 1 .. nc PROVE \E k \in 1 .. Len(s) : s[k] = c[i]
    <2>1. (la + nb) + i \in 1 .. Len(s) BY <1>4, <1>8, <1>9
    <2> QED BY <1>9, <2>1
  <1>13. \A k \in 1 .. Len(s) : IsTankEvent(s[k])
    BY <1>6, <1>7, <1>10 DEF IsTankEvent
  <1>14. ASSUME NEW t \in TankIds, NEW otherwise, NEW x,
                Said(s, Len(s), t, otherwise, x)
         PROVE  x = GasOf(m, h, t, otherwise)
    <2> DEFINE G == \E i \in 1 .. nb : b[i].index = t /\ b[i].value # 0
               N == \E i \in 1 .. nc : c[i].index = t
    <2>8. DOMAIN b = 1 .. nb /\ DOMAIN c = 1 .. nc
      <3>1. \A z : IsList(z) => DOMAIN z = 1 .. Len(z) BY DEF IsList
      <3> QED BY <1>2, <1>3, <3>1
    <2>1. (\E e \in ToSet(b) : e.index = t /\ e.value # 0) <=> G BY <2>8 DEF ToSet
    <2>2. (\E e \in ToSet(c) : e.index = t) <=> N BY <2>8 DEF ToSet
    <2>3. GasOf(m, h, t, otherwise)
            = IF G THEN h.o2[t + 1] ELSE IF N THEN otherwise ELSE None
      BY <2>1, <2>2 DEF GasOf, b, c
    <2>4. ASSUME NEW k \in 1 .. Len(s), GivesGas(s[k], t)
          PROVE  G /\ s[k].value = h.o2[t + 1]
      <3>1. PICK i \in 1 .. nb : s[k] = b[i] BY <1>7, <1>10, <2>4 DEF GivesGas
      <3> QED BY <1>6, <2>4, <3>1 DEF GivesGas
    <2>5. ASSUME NEW k \in 1 .. Len(s), NamesTank(s[k], t) PROVE N
      <3>1. PICK i \in 1 .. nc : s[k] = c[i] BY <1>6, <1>10, <2>5 DEF NamesTank
      <3> QED BY <2>5, <3>1 DEF NamesTank
    <2>6. G => \E k \in 1 .. Len(s) : GivesGas(s[k], t) BY <1>6, <1>11 DEF GivesGas
    <2>7. N => \E k \in 1 .. Len(s) : NamesTank(s[k], t) BY <1>7, <1>12 DEF NamesTank
    <2> HIDE DEF G, N
    <2> QED BY <1>14, <2>3, <2>4, <2>5, <2>6, <2>7 DEF Said
  <1> QED BY <1>13, <1>14 DEF s

(* The tanks are printed once, as they were when the titles were.          *)
TitledOnce(g) ==
  g.titles = 0 \/ (g.titles = 1 /\ g.hdr_complete /\ g.tankrows = g.tanks)

KeepsTanks(g, h) ==
  /\ IsUddf(g) => /\ IsUddf(h) /\ h.mixes = g.mixes /\ h.tanks = g.tanks
                  /\ h.cur_mixes = g.cur_mixes /\ h.links = g.links
  /\ IsCsv(g) /\ TitledOnce(g) => IsCsv(h) /\ TitledOnce(h) /\ h.tanks = g.tanks

(* An event of a waypoint has nothing to do with tanks, but the first one  *)
(* prints them.                                                            *)
LEMMA EventKeepsTanks ==
  ASSUME NEW g, NEW e
  PROVE  KeepsTanks(g, profile_cb(g, e))
  <1> DEFINE h == profile_cb(g, e)
  <1>1. ASSUME IsUddf(g)
        PROVE  /\ IsUddf(h) /\ h.mixes = g.mixes /\ h.tanks = g.tanks
               /\ h.cur_mixes = g.cur_mixes /\ h.links = g.links
    <2>1. h = uddf_waypoint_cb(g, e) BY <1>1 DEF profile_cb, IsUddf
    <2>2. \/ h = g
          \/ h = [g EXCEPT !.samples = Append(@, <<e>>)]
          \/ h = [g EXCEPT !.lost = @ + 1]
          \/ h = [g EXCEPT !.samples[Len(g.samples)] = Append(@, e)]
      BY <2>1 DEF uddf_waypoint_cb
    <2> HIDE DEF h
    <2> QED BY <1>1, <2>2 DEF IsUddf, UddfFields
  <1>2. ASSUME IsCsv(g), TitledOnce(g)
        PROVE  IsCsv(h) /\ TitledOnce(h) /\ h.tanks = g.tanks
    <2> DEFINE t == Titles(g)
    <2>1. h = csv_waypoint_cb(g, e) BY <1>2 DEF profile_cb, IsCsv
    <2>2. /\ DOMAIN t = CsvFields /\ t.magic = "csv" /\ DOMAIN t.cur_wp = WpFields
          /\ t.tanks = g.tanks /\ TitledOnce(t)
      <3>1. CASE g.hdr_complete
        <4>1. t = g BY <3>1 DEF Titles
        <4> QED BY <1>2, <4>1 DEF IsCsv
      <3>2. CASE ~g.hdr_complete
        <4>1. t = [g EXCEPT !.hdr_complete = TRUE, !.titles = @ + 1, !.tankrows = g.tanks]
          BY <3>2 DEF Titles
        <4>2. g.titles = 0 BY <1>2, <3>2 DEF TitledOnce
        <4>3. /\ DOMAIN t = CsvFields /\ t.magic = "csv" /\ t.cur_wp = g.cur_wp
              /\ t.tanks = g.tanks /\ t.titles = g.titles + 1 /\ t.hdr_complete = TRUE
              /\ t.tankrows = g.tanks
          BY <1>2, <4>1 DEF IsCsv, CsvFields
        <4> HIDE DEF t
        <4> QED BY <1>2, <4>2, <4>3 DEF IsCsv, TitledOnce
      <3> QED BY <3>1, <3>2
    <2>3. \/ h = t \/ h = NextRow(t, e.value)
          \/ h = [t EXCEPT !.cur_wp.depth = e.value]
          \/ h = [t EXCEPT !.cur_wp.temp = e.value]
          \/ h = [t EXCEPT !.cur_wp.alarms = @ + 1]
      BY <2>1 DEF csv_waypoint_cb
    <2>4. h.titles = t.titles /\ h.hdr_complete = t.hdr_complete /\ h.tankrows = t.tankrows
          /\ h.tanks = t.tanks
      <3> HIDE DEF h, t
      <3> QED BY <2>2, <2>3 DEF NextRow, CsvFields
    <2>5. IsCsv(h) BY <1>2, CsvEvent DEF CsvEffect
    <2> HIDE DEF h, t
    <2> QED BY <2>2, <2>4, <2>5 DEF TitledOnce
  <1> QED BY <1>1, <1>2 DEF KeepsTanks

(* Nor has a whole waypoint.                                               *)
LEMMA WaypointKeepsTanks ==
  ASSUME NEW g, NEW events, Len(events) \in Nat
  PROVE  KeepsTanks(g, WithWaypoint(g, events))
  <1> DEFINE n == Len(events)
  <1>1. PICK r : Called(r, g, events) BY WaypointRun
  <1> DEFINE T == {i \in 0 .. n : ~KeepsTanks(g, r[i])}
  <1>2. /\ r[0] = g /\ WithWaypoint(g, events) = r[n]
        /\ \A i \in 1 .. n : r[i] = profile_cb(r[i - 1], events[i])
    BY <1>1 DEF Called
  <1>3. SUFFICES ASSUME T # {} PROVE FALSE BY <1>2
  <1>4. PICK i \in T : \A j \in T : i <= j
    <2>1. T \in SUBSET Nat OBVIOUS
    <2> HIDE DEF T
    <2> QED BY <1>3, <2>1, Least
  <1>5. CASE i = 0
    <2>1. KeepsTanks(g, r[0]) BY <1>2 DEF KeepsTanks
    <2> QED BY <1>4, <1>5, <2>1
  <1>6. CASE i # 0
    <2>1. i - 1 \in 0 .. n /\ i - 1 \notin T /\ i \in 1 .. n BY <1>4, <1>6
    <2>2. KeepsTanks(g, r[i - 1]) BY <2>1
    <2>3. KeepsTanks(r[i - 1], r[i]) BY <1>2, <2>1, EventKeepsTanks
    <2>4. KeepsTanks(g, r[i]) BY <2>2, <2>3 DEF KeepsTanks
    <2> QED BY <1>4, <2>4
  <1> QED BY <1>5, <1>6

(* The mixes of a document are numbered below their number, each one has a *)
(* number of its own, and air is there.                                    *)
Numbered(M) ==
  /\ IsFiniteSet(M)
  /\ \A m \in M : m.id \in 0 .. Cardinality(M) - 1
  /\ \A m, n \in M : m.id = n.id => m = n

HasAir(M) == \E m \in M : m.id = 0 /\ m.o2 = 210

(* The link of tank t leads to a mix with oxygen x.                        *)
HasLink(g, t, x) == \E m \in g.mixes : m.id = g.links[t] /\ m.o2 = x

(* The next free number makes a new mix.                                   *)
LEMMA NumberedGrows ==
  ASSUME NEW M, Numbered(M), NEW x
  PROVE  /\ ~\E m \in M : m.id = Cardinality(M)
         /\ Numbered(M \cup {Mix(Cardinality(M), x)})
  <1> DEFINE c == Cardinality(M)
             k == Mix(c, x)
             K == M \cup {k}
  <1>1. IsFiniteSet(M) /\ c \in Nat BY FS_CardinalityType DEF Numbered
  <1>2. \A m \in M : m.id \in 0 .. c - 1 BY DEF Numbered
  <1>3. \A i \in 0 .. c - 1 : i # c BY <1>1
  <1>4. ~\E m \in M : m.id = c BY <1>2, <1>3
  <1>5. k.id = c BY DEF Mix
  <1>6. k \notin M BY <1>4, <1>5
  <1> HIDE DEF k, c
  <1>7. IsFiniteSet(K) /\ Cardinality(K) = c + 1 BY <1>1, <1>6, FS_AddElement DEF c
  <1>8. ASSUME NEW m \in K PROVE m.id \in 0 .. Cardinality(K) - 1
    <2>1. \A i \in 0 .. c - 1 : i \in 0 .. (c + 1) - 1 BY <1>1
    <2>2. c \in 0 .. (c + 1) - 1 BY <1>1
    <2> QED BY <1>2, <1>5, <1>7, <2>1, <2>2
  <1>9. \A m, n \in K : m.id = n.id => m = n BY <1>4, <1>5 DEF Numbered
  <1>10. Numbered(K) BY <1>7, <1>8, <1>9 DEF Numbered
  <1> QED BY <1>4, <1>10 DEF c, k

(* LinkTank gives a tank a link to its gas and leaves the other links, and *)
(* the mixes they lead to, as they are.                                    *)
LEMMA LinkTankLinks ==
  ASSUME NEW h, IsUddf(h), DOMAIN h.links = TankIds, Numbered(h.mixes), HasAir(h.mixes),
         NEW t \in TankIds
  PROVE  /\ IsUddf(LinkTank(h, t)) /\ DOMAIN LinkTank(h, t).links = TankIds
         /\ LinkTank(h, t).tanks = h.tanks /\ LinkTank(h, t).cur_mixes = h.cur_mixes
         /\ Numbered(LinkTank(h, t).mixes) /\ h.mixes \subseteq LinkTank(h, t).mixes
         /\ \A u \in TankIds : u # t => LinkTank(h, t).links[u] = h.links[u]
         /\ HasLink(LinkTank(h, t), t, IF h.cur_mixes[t] = None THEN 210 ELSE h.cur_mixes[t])
  <1> DEFINE x == h.cur_mixes[t]
             has == {m \in h.mixes : m.o2 = x}
             id == Cardinality(h.mixes)
             k == LinkTank(h, t)
             y == IF x = None THEN 210 ELSE x
             Goal == /\ IsUddf(k) /\ DOMAIN k.links = TankIds
                     /\ k.tanks = h.tanks /\ k.cur_mixes = h.cur_mixes
                     /\ Numbered(k.mixes) /\ h.mixes \subseteq k.mixes
                     /\ \A u \in TankIds : u # t => k.links[u] = h.links[u]
                     /\ HasLink(k, t, y)
             Becomes(l, M) == k = [h EXCEPT !.links[t] = l, !.mixes = M]
             Leads(l, M) == \E m \in M : m.id = l /\ m.o2 = y
  <1> SUFFICES Goal OBVIOUS
  <1>1. ASSUME NEW l, NEW M, Becomes(l, M), Numbered(M), h.mixes \subseteq M, Leads(l, M)
        PROVE  Goal
    <2> HIDE DEF k, y
    <2>1. /\ DOMAIN k = UddfFields /\ k.magic = "uddf" /\ k.tanks = h.tanks
          /\ k.cur_mixes = h.cur_mixes /\ k.mixes = M
          /\ k.links = [h.links EXCEPT ![t] = l]
      BY <1>1 DEF IsUddf, UddfFields
    <2>2. /\ DOMAIN k.links = TankIds /\ k.links[t] = l
          /\ \A u \in TankIds : u # t => k.links[u] = h.links[u]
      BY <2>1
    <2> QED BY <1>1, <2>1, <2>2 DEF IsUddf, HasLink
  <1>2. CASE x = None
    <2>1. k = [h EXCEPT !.links[t] = 0] BY <1>2 DEF LinkTank
    <2>2. Becomes(0, h.mixes)
      <3> HIDE DEF k
      <3> QED BY <2>1 DEF IsUddf, UddfFields
    <2>3. Leads(0, h.mixes) BY <1>2 DEF HasAir
    <2> HIDE DEF Goal, Becomes, Leads
    <2> QED BY <1>1, <2>2, <2>3
  <1>3. CASE x # None /\ has # {}
    <2> DEFINE l == (CHOOSE m \in has : TRUE).id
    <2>1. k = [h EXCEPT !.links[t] = l] BY <1>3 DEF LinkTank
    <2>2. Leads(l, h.mixes)
      <3>1. (CHOOSE m \in has : TRUE) \in has BY <1>3
      <3> QED BY <1>3, <3>1
    <2> HIDE DEF l
    <2>3. Becomes(l, h.mixes)
      <3> HIDE DEF k
      <3> QED BY <2>1 DEF IsUddf, UddfFields
    <2> HIDE DEF Goal, Becomes, Leads
    <2> QED BY <1>1, <2>2, <2>3
  <1>4. CASE x # None /\ has = {}
    <2> DEFINE M == h.mixes \cup {Mix(id, x)}
    <2>1. ~(\E m \in h.mixes : m.id = id) /\ Numbered(M) BY NumberedGrows
    <2>2. k = [h EXCEPT !.links[t] = id,
                        !.mixes = IF \E m \in @ : m.id = id THEN @ ELSE @ \cup {Mix(id, x)}]
      BY <1>4 DEF LinkTank
    <2> HIDE DEF id
    <2>3. Becomes(id, M)
      <3> HIDE DEF k
      <3> QED BY <2>1, <2>2 DEF IsUddf, UddfFields
    <2>4. Mix(id, x).id = id /\ Mix(id, x).o2 = x BY DEF Mix
    <2>5. Leads(id, M) BY <1>4, <2>4
    <2>6. h.mixes \subseteq M OBVIOUS
    <2> HIDE DEF Goal, Becomes, Leads, M
    <2> QED BY <1>1, <2>1, <2>3, <2>5, <2>6
  <1> QED BY <1>2, <1>3, <1>4

(* The tanks below n have been linked, from formatter g on.                *)
Linked(g, h, n) ==
  /\ IsUddf(h) /\ DOMAIN h.links = TankIds /\ Numbered(h.mixes) /\ HasAir(h.mixes)
  /\ h.tanks = g.tanks /\ h.cur_mixes = g.cur_mixes
  /\ \A t \in TankIds :
       IF t < n /\ t \in g.tanks THEN HasLink(h, t, UddfGas(g, t)) ELSE h.links[t] = None

(* One more tank.                                                          *)
LEMMA LinkedNext ==
  ASSUME NEW g, NEW h, NEW n \in TankIds, Linked(g, h, n)
  PROVE  Linked(g, IF n \in g.tanks THEN LinkTank(h, n) ELSE h, n + 1)
  <1>1. \A t \in TankIds : t < n + 1 <=> (t < n \/ t = n) BY DEF TankIds, MaxTanks
  <1>2. CASE n \notin g.tanks BY <1>1, <1>2 DEF Linked
  <1>3. CASE n \in g.tanks
    <2> DEFINE k == LinkTank(h, n)
               y == IF h.cur_mixes[n] = None THEN 210 ELSE h.cur_mixes[n]
    <2>1. /\ IsUddf(h) /\ DOMAIN h.links = TankIds /\ Numbered(h.mixes) /\ HasAir(h.mixes)
          /\ h.tanks = g.tanks /\ h.cur_mixes = g.cur_mixes
      BY DEF Linked
    <2>2. /\ IsUddf(k) /\ DOMAIN k.links = TankIds /\ k.tanks = h.tanks
          /\ k.cur_mixes = h.cur_mixes /\ Numbered(k.mixes) /\ h.mixes \subseteq k.mixes
          /\ \A u \in TankIds : u # n => k.links[u] = h.links[u]
          /\ HasLink(k, n, y)
      BY <2>1, LinkTankLinks
    <2>3. y = UddfGas(g, n) BY <1>3, <2>1 DEF UddfGas
    <2> HIDE DEF k, y
    <2>4. HasAir(k.mixes) BY <2>1, <2>2 DEF HasAir
    <2>5. ASSUME NEW t \in TankIds
          PROVE  IF t < n + 1 /\ t \in g.tanks THEN HasLink(k, t, UddfGas(g, t))
                 ELSE k.links[t] = None
      <3>1. CASE t = n BY <1>1, <1>3, <2>2, <2>3, <3>1
      <3>2. CASE t # n
        <4>1. k.links[t] = h.links[t] BY <2>2, <3>2
        <4>2. HasLink(h, t, UddfGas(g, t)) => HasLink(k, t, UddfGas(g, t))
          BY <2>2, <4>1 DEF HasLink
        <4>3. IF t < n /\ t \in g.tanks THEN HasLink(h, t, UddfGas(g, t)) ELSE h.links[t] = None
          BY DEF Linked
        <4> QED BY <1>1, <3>2, <4>1, <4>2, <4>3
      <3> QED BY <3>1, <3>2
    <2>6. Linked(g, k, n + 1) BY <2>1, <2>2, <2>4, <2>5 DEF Linked
    <2> QED BY <1>3, <2>6 DEF k
  <1> QED BY <1>2, <1>3

(* The epilog of the UDDF formatter links all tanks.                       *)
LEMMA EpilogLinks ==
  ASSUME NEW g, Linked(g, g, 0)
  PROVE  Linked(g, epilog_fn(g), 3)
  <1> DEFINE Link(h, t) == IF t \in g.tanks THEN LinkTank(h, t) ELSE h
  <1>1. epilog_fn(g) = Link(Link(Link(g, 0), 1), 2)
    BY DEF epilog_fn, uddf_epilog, Linked, IsUddf
  <1>2. 0 \in TankIds /\ 1 \in TankIds /\ 2 \in TankIds /\ 0 + 1 = 1 /\ 1 + 1 = 2 /\ 2 + 1 = 3
    BY DEF TankIds, MaxTanks
  <1>3. ASSUME NEW h, NEW n \in TankIds, Linked(g, h, n) PROVE Linked(g, Link(h, n), n + 1)
    BY <1>3, LinkedNext
  <1> HIDE DEF Link
  <1>4. Linked(g, Link(g, 0), 1) BY <1>2, <1>3
  <1>5. Linked(g, Link(Link(g, 0), 1), 2) BY <1>2, <1>3, <1>4
  <1>6. Linked(g, Link(Link(Link(g, 0), 1), 2), 3) BY <1>2, <1>3, <1>5
  <1> QED BY <1>1, <1>6

-----------------------------------------------------------------------------
(* What a dive's header says of its tanks, on its way to the output.       *)

(* The document of the UDDF formatter g at place at, for model m and the   *)
(* header h, after c dives have been begun.                                *)
UddfTanks(g, at, m, h, c) ==
  /\ Numbered(g.mixes) /\ HasAir(g.mixes)
  /\ at = "header" => g.tanks = {} /\ g.cur_mixes = NoTanks /\ g.links = NoTanks
  /\ at = "profile" =>
       g.links = NoTanks /\ \A t \in TankIds : UddfGas(g, t) = GasOf(m, h, t, 210)
  /\ at = "next" /\ c > 0 =>
       \A t \in TankIds : IF GasOf(m, h, t, 210) = None THEN g.links[t] = None
                          ELSE HasLink(g, t, GasOf(m, h, t, 210))

CsvTanks(g, at, m, h) ==
  /\ at = "header" => g.tanks = NoTanks /\ g.titles = 0
  /\ at = "profile" => TitledOnce(g) /\ g.tanks = [t \in TankIds |-> GasOf(m, h, t, 209)]
  /\ at = "next" =>
       g.titles = 0 \/ (g.titles = 1 /\ g.tankrows = [t \in TankIds |-> GasOf(m, h, t, 209)])

GasInv ==
  /\ IsUddf(f) => UddfTanks(f, pc, model, hdr, count)
  /\ IsCsv(f) => CsvTanks(f, pc, model, hdr)

(* A run starts with air and two other mixes, and without titles.          *)
LEMMA GasInit == Init => GasInv
  <1> SUFFICES ASSUME Init PROVE GasInv OBVIOUS
  <1>1. PICK a, b \in BOOLEAN : f = uddf_init_formatter(a) \/ f = csv_init_formatter(a, b)
    BY DEF Init
  <1>2. pc = "next" /\ count = 0 BY DEF Init
  <1>3. CASE f = uddf_init_formatter(a)
    <2> DEFINE x == Mix(0, 210)
               y == Mix(1, 320)
               z == Mix(2, 360)
               M == {x, y, z}
    <2>1. f.mixes = M /\ IsUddf(f)
      BY <1>3 DEF uddf_init_formatter, IsUddf, UddfFields
    <2>2. /\ x.id = 0 /\ y.id = 1 /\ z.id = 2 /\ x.o2 = 210
      BY DEF Mix
    <2> HIDE DEF x, y, z
    <2>3. IsFiniteSet({x}) /\ Cardinality({x}) = 1 BY FS_Singleton
    <2>4. y \notin {x} /\ z \notin {x} \cup {y} BY <2>2
    <2>5. IsFiniteSet({x} \cup {y}) /\ Cardinality({x} \cup {y}) = 1 + 1
      BY <2>3, <2>4, FS_AddElement
    <2>6. /\ IsFiniteSet(({x} \cup {y}) \cup {z})
          /\ Cardinality(({x} \cup {y}) \cup {z}) = (1 + 1) + 1
      BY <2>4, <2>5, FS_AddElement
    <2>7. M = ({x} \cup {y}) \cup {z} OBVIOUS
    <2>8. IsFiniteSet(M) /\ Cardinality(M) = 3 BY <2>6, <2>7
    <2>9. \A m \in M : m.id \in 0 .. 3 - 1 BY <2>2
    <2>10. \A m, n \in M : m.id = n.id => m = n BY <2>2
    <2>11. HasAir(M) BY <2>2 DEF HasAir
    <2> HIDE DEF M
    <2>12. Numbered(M) BY <2>8, <2>9, <2>10 DEF Numbered
    <2>13. UddfTanks(f, pc, model, hdr, count) BY <1>2, <2>1, <2>11, <2>12 DEF UddfTanks
    <2> QED BY <2>1, <2>13, KindsDiffer DEF GasInv
  <1>4. CASE f = csv_init_formatter(a, b)
    <2>1. f.magic = "csv" /\ f.titles = 0 BY <1>4 DEF csv_init_formatter
    <2>2. ~IsUddf(f) BY <2>1 DEF IsUddf
    <2>3. CsvTanks(f, pc, model, hdr) BY <1>2, <2>1 DEF CsvTanks
    <2> QED BY <2>2, <2>3 DEF GasInv
  <1> QED BY <1>1, <1>3, <1>4

(* The prolog clears the tanks and their mixes; the mixes of the document  *)
(* stay.                                                                   *)
LEMMA BeginDiveKeepsGas == IInv /\ GasInv /\ BeginDive => GasInv'
  <1> SUFFICES ASSUME IInv, GasInv, BeginDive PROVE GasInv' OBVIOUS
  <1>1. pc' = "header" /\ f' = prolog_fn(f) BY DEF BeginDive
  <1>2. IsFormatter(f) BY DEF IInv, OutputInv, Output, IsFormatter
  <1>3. CASE IsUddf(f)
    <2>1. f' = uddf_prolog(f) BY <1>1, <1>3 DEF prolog_fn, IsUddf
    <2>2. /\ f'.magic = "uddf" /\ f'.mixes = f.mixes /\ f'.tanks = {} /\ f'.cur_mixes = NoTanks
          /\ f'.links = NoTanks
      BY <1>3, <2>1 DEF uddf_prolog, IsUddf, UddfFields
    <2>3. Numbered(f.mixes) /\ HasAir(f.mixes) BY <1>3 DEF GasInv, UddfTanks
    <2>4. UddfTanks(f', pc', model', hdr', count') BY <1>1, <2>2, <2>3 DEF UddfTanks
    <2>5. ~IsCsv(f') BY <2>2 DEF IsCsv
    <2> QED BY <2>4, <2>5 DEF GasInv
  <1>4. CASE IsCsv(f)
    <2>1. f' = csv_prolog(f) BY <1>1, <1>4 DEF prolog_fn, IsCsv
    <2>2. f'.magic = "csv" /\ f'.tanks = NoTanks /\ f'.titles = 0
      BY <1>4, <2>1 DEF csv_prolog, IsCsv, CsvFields
    <2>3. CsvTanks(f', pc', model', hdr') BY <1>1, <2>2 DEF CsvTanks
    <2>4. ~IsUddf(f') BY <2>2 DEF IsUddf
    <2> QED BY <2>3, <2>4 DEF GasInv
  <1> QED BY <1>2, <1>3, <1>4 DEF IsFormatter

(* The header's own mixes and pressures reach the formatter.               *)
LEMMA ParseHeaderKeepsGas == IInv /\ GasInv /\ ParseHeader => GasInv'
  <1> SUFFICES ASSUME IInv, GasInv, ParseHeader PROVE GasInv' OBVIOUS
  <1>1. pc = "header" /\ UNCHANGED <<model, count, hdr>> BY DEF ParseHeader
  <1>2. IsFormatter(f) BY DEF IInv, OutputInv, Output, IsFormatter
  <1>3. CASE pc' = "failed" /\ f' = f
    <2>1. IsUddf(f) => UddfTanks(f', pc', model', hdr', count')
      BY <1>1, <1>3 DEF GasInv, UddfTanks
    <2>2. IsCsv(f) => CsvTanks(f', pc', model', hdr') BY <1>1, <1>3 DEF GasInv, CsvTanks
    <2> QED BY <1>3, <2>1, <2>2 DEF GasInv
  <1>4. CASE pc' = "profile" /\ f' = WithHeader(f, parse_header(model, hdr))
    <2> DEFINE s == parse_header(model, hdr)
               n == Len(s)
    <2>1. hdr.o2 \in [1 .. 3 -> Nat] BY ParserAssumption DEF IInv, ControlInv
    <2>2. n \in Nat BY HeaderIsList
    <2>3. /\ \A k \in 1 .. n : IsTankEvent(s[k])
          /\ \A t \in TankIds : \A otherwise, x :
               Said(s, n, t, otherwise, x) => x = GasOf(model, hdr, t, otherwise)
      BY <2>1, HeaderSays
    <2> HIDE DEF s
    <2>4. /\ UddfHeard(f, f, s, 0) => UddfHeard(f, f', s, n)
          /\ CsvHeard(f, f, s, 0) => CsvHeard(f, f', s, n)
      BY <1>4, <2>2, <2>3, HeaderHeard DEF s
    <2> HIDE DEF n
    <2>5. CASE IsUddf(f)
      <3>1. /\ f.tanks = {} /\ f.cur_mixes = NoTanks /\ f.links = NoTanks
            /\ Numbered(f.mixes) /\ HasAir(f.mixes)
        BY <1>1, <2>5 DEF GasInv, UddfTanks
      <3>2. /\ DOMAIN f.cur_mixes = TankIds
            /\ \A t \in TankIds : f.cur_mixes[t] = None /\ UddfGas(f, t) = None
        BY <3>1 DEF NoTanks, UddfGas
      <3>3. UddfHeard(f, f, s, 0) BY <2>5, <3>2, NothingSaid DEF UddfHeard
      <3>4. UddfHeard(f, f', s, n) BY <2>4, <3>3
      <3>5. IsUddf(f') /\ f'.mixes = f.mixes /\ f'.links = NoTanks BY <3>1, <3>4 DEF UddfHeard
      <3>6. \A t \in TankIds : UddfGas(f', t) = GasOf(model, hdr, t, 210)
        BY <2>3, <3>4 DEF UddfHeard
      <3>7. UddfTanks(f', pc', model', hdr', count')
        BY <1>1, <1>4, <3>1, <3>5, <3>6 DEF UddfTanks
      <3> QED BY <3>5, <3>7, KindsDiffer DEF GasInv
    <2>6. CASE IsCsv(f)
      <3>1. f.tanks = NoTanks /\ f.titles = 0 BY <1>1, <2>6 DEF GasInv, CsvTanks
      <3>2. /\ f.tanks = [t \in TankIds |-> f.tanks[t]]
            /\ \A t \in TankIds : f.tanks[t] = None
        BY <3>1 DEF NoTanks
      <3>3. CsvHeard(f, f, s, 0) BY <2>6, <3>2, NothingSaid DEF CsvHeard
      <3>4. CsvHeard(f, f', s, n) BY <2>4, <3>3
      <3>5. IsCsv(f') /\ f'.titles = 0 BY <3>1, <3>4 DEF CsvHeard
      <3>6. \A t \in TankIds : f'.tanks[t] = GasOf(model, hdr, t, 209)
        BY <2>3, <3>4 DEF CsvHeard
      <3>7. CsvTanks(f', pc', model', hdr')
        <4>1. model' = model /\ hdr' = hdr /\ pc' = "profile" BY <1>1, <1>4
        <4>2. TitledOnce(f') BY <3>5 DEF TitledOnce
        <4>3. f'.tanks = [t \in TankIds |-> GasOf(model', hdr', t, 209)]
          <5>1. f'.tanks = [t \in TankIds |-> f'.tanks[t]] BY <3>4 DEF CsvHeard
          <5> QED BY <3>6, <4>1, <5>1
        <4> QED BY <4>1, <4>2, <4>3 DEF CsvTanks
      <3> QED BY <3>5, <3>7, KindsDiffer DEF GasInv
    <2> QED BY <1>2, <2>5, <2>6 DEF IsFormatter
  <1> QED BY <1>3, <1>4 DEF ParseHeader

(* The epilog links every tank the header names to a mix with its gas.     *)
LEMMA EndDiveKeepsGas == IInv /\ GasInv /\ EndDive => GasInv'
  <1> SUFFICES ASSUME IInv, GasInv, EndDive PROVE GasInv' OBVIOUS
  <1>1. /\ pc = "profile" /\ pc' = "next" /\ f' = epilog_fn(f)
        /\ UNCHANGED <<model, count, hdr>>
    BY DEF EndDive
  <1>2. IsFormatter(f) BY DEF IInv, OutputInv, Output, IsFormatter
  <1>3. CASE IsUddf(f)
    <2>1. /\ Numbered(f.mixes) /\ HasAir(f.mixes) /\ f.links = NoTanks
          /\ \A t \in TankIds : UddfGas(f, t) = GasOf(model, hdr, t, 210)
      BY <1>1, <1>3 DEF GasInv, UddfTanks
    <2>2. DOMAIN f.links = TankIds /\ \A t \in TankIds : f.links[t] = None
      BY <2>1 DEF NoTanks
    <2>3. \A t \in TankIds : ~(t < 0) /\ t < 3 BY DEF TankIds, MaxTanks
    <2>4. Linked(f, f, 0) BY <1>3, <2>1, <2>2, <2>3 DEF Linked
    <2>5. Linked(f, f', 3) BY <1>1, <2>4, EpilogLinks
    <2>6. IsUddf(f') /\ Numbered(f'.mixes) /\ HasAir(f'.mixes) BY <2>5 DEF Linked
    <2>7. \A t \in TankIds : UddfGas(f, t) # None => t \in f.tanks BY DEF UddfGas
    <2>8. ASSUME NEW t \in TankIds
          PROVE  IF GasOf(model, hdr, t, 210) = None THEN f'.links[t] = None
                 ELSE HasLink(f', t, GasOf(model, hdr, t, 210))
      <3>1. UddfGas(f, t) = GasOf(model, hdr, t, 210) BY <2>1
      <3>2. IF t \in f.tanks THEN HasLink(f', t, UddfGas(f, t)) ELSE f'.links[t] = None
        BY <2>3, <2>5 DEF Linked
      <3>3. UddfGas(f, t) = None => t \notin f.tanks BY DEF UddfGas, None
      <3> QED BY <2>7, <3>1, <3>2, <3>3
    <2>9. UddfTanks(f', pc', model', hdr', count') BY <1>1, <2>6, <2>8 DEF UddfTanks
    <2> QED BY <2>6, <2>9, KindsDiffer DEF GasInv
  <1>4. CASE IsCsv(f)
    <2>1. f' = f BY <1>1, <1>4 DEF epilog_fn, IsCsv
    <2>2. TitledOnce(f) /\ f.tanks = [t \in TankIds |-> GasOf(model, hdr, t, 209)]
      BY <1>1, <1>4 DEF GasInv, CsvTanks
    <2>3. CsvTanks(f', pc', model', hdr') BY <1>1, <2>1, <2>2 DEF CsvTanks, TitledOnce
    <2> QED BY <1>4, <2>1, <2>3, KindsDiffer DEF GasInv
  <1> QED BY <1>2, <1>3, <1>4 DEF IsFormatter

(* A waypoint leaves the tanks as the header gave them.                    *)
LEMMA SendWaypointKeepsGas == IInv /\ GasInv /\ SendWaypoint => GasInv'
  <1> SUFFICES ASSUME IInv, GasInv, SendWaypoint PROVE GasInv' OBVIOUS
  <1>1. /\ pc = "profile" /\ f' = WithWaypoint(f, Waypoint(p))
        /\ UNCHANGED <<pc, model, count, hdr>>
    BY DEF SendWaypoint
  <1>2. IsFormatter(f) BY DEF IInv, OutputInv, Output, IsFormatter
  <1>3. KeepsTanks(f, f')
    <2>1. IsWaypoint(p, Waypoint(p)) BY WaypointEvents
    <2>2. Len(Waypoint(p)) \in Nat BY <2>1 DEF IsWaypoint, IsList
    <2> QED BY <1>1, <2>2, WaypointKeepsTanks
  <1>4. CASE IsUddf(f)
    <2>1. /\ IsUddf(f') /\ f'.mixes = f.mixes /\ f'.tanks = f.tanks
          /\ f'.cur_mixes = f.cur_mixes /\ f'.links = f.links
      BY <1>3, <1>4 DEF KeepsTanks
    <2>2. /\ Numbered(f.mixes) /\ HasAir(f.mixes) /\ f.links = NoTanks
          /\ \A t \in TankIds : UddfGas(f, t) = GasOf(model, hdr, t, 210)
      BY <1>1, <1>4 DEF GasInv, UddfTanks
    <2>3. \A t \in TankIds : UddfGas(f', t) = UddfGas(f, t) BY <2>1 DEF UddfGas
    <2>4. UddfTanks(f', pc', model', hdr', count')
      BY <1>1, <2>1, <2>2, <2>3 DEF UddfTanks
    <2> QED BY <2>1, <2>4, KindsDiffer DEF GasInv
  <1>5. CASE IsCsv(f)
    <2>1. TitledOnce(f) /\ f.tanks = [t \in TankIds |-> GasOf(model, hdr, t, 209)]
      BY <1>1, <1>5 DEF GasInv, CsvTanks
    <2>2. IsCsv(f') /\ TitledOnce(f') /\ f'.tanks = f.tanks
      BY <1>3, <1>5, <2>1 DEF KeepsTanks
    <2>3. CsvTanks(f', pc', model', hdr') BY <1>1, <2>1, <2>2 DEF CsvTanks
    <2> QED BY <2>2, <2>3, KindsDiffer DEF GasInv
  <1> QED BY <1>2, <1>4, <1>5 DEF IsFormatter

(* A step that leaves the formatter as it is, at its place or at an end.   *)
LEMMA SameTanks ==
  ASSUME GasInv, UNCHANGED <<f, model, hdr, count>>, pc' = pc \/ pc' \in {"failed", "done"}
  PROVE  GasInv'
  <1>1. IsUddf(f) => UddfTanks(f, pc', model, hdr, count) BY DEF GasInv, UddfTanks
  <1>2. IsCsv(f) => CsvTanks(f, pc', model, hdr) BY DEF GasInv, CsvTanks
  <1> QED BY <1>1, <1>2 DEF GasInv

(* Every step keeps it.                                                    *)
LEMMA NextKeepsGas == IInv /\ GasInv /\ [Next]_vars => GasInv'
  <1> SUFFICES ASSUME IInv, GasInv, [Next]_vars PROVE GasInv' OBVIOUS
  <1>1. CASE BeginDive BY <1>1, BeginDiveKeepsGas
  <1>2. CASE ParseHeader BY <1>2, ParseHeaderKeepsGas
  <1>3. CASE ParseDti \/ ParseStrayDti
    <2>1. \A dti : UseEntry(dti) => pc' = pc \/ pc' = "failed" BY DEF UseEntry
    <2>2. UNCHANGED <<f, model, hdr, count>> BY <1>3 DEF ParseDti, ParseStrayDti
    <2>3. pc' = pc \/ pc' = "failed"
      <3> HIDE DEF UseEntry
      <3> QED BY <1>3, <2>1 DEF ParseDti, ParseStrayDti
    <2> QED BY <2>2, <2>3, SameTanks
  <1>4. CASE InvalidDti \/ Finish BY <1>4, SameTanks DEF InvalidDti, Finish
  <1>5. CASE SendWaypoint BY <1>5, SendWaypointKeepsGas
  <1>6. CASE EndDive BY <1>6, EndDiveKeepsGas
  <1>7. CASE UNCHANGED vars BY <1>7, SameTanks DEF vars
  <1> QED BY <1>1, <1>2, <1>3, <1>4, <1>5, <1>6, <1>7 DEF Next

(* The mixes of a UDDF document are shared by its dives and numbered as    *)
(* they turn up: every tank of a dive is linked to a mix with the oxygen   *)
(* that the dive's own header gives it, air where it gives none, and the   *)
(* CSV tanks, printed with the first waypoint, are the dive's own too, for *)
(* any number of dives with any gases.                                     *)
THEOREM TanksHaveGas == Spec => []TanksHaveTheirGas
  <1>1. ASSUME IInv, GasInv PROVE TanksHaveTheirGas
    <2>1. \A t, x : Oxygen(t, x) = GasOf(model, hdr, t, x) BY DEF Oxygen, GasOf
    <2>2. ASSUME f.magic = "uddf", pc = "next", count > 0, NEW t \in TankIds
          PROVE  IF Oxygen(t, 210) = None THEN f.links[t] = None
                 ELSE {m.o2 : m \in {n \in f.mixes : n.id = f.links[t]}} = {Oxygen(t, 210)}
      <3> DEFINE x == Oxygen(t, 210)
      <3>1. IsUddf(f) BY <1>1, <2>2 DEF IInv, OutputInv, Output, IsCsv
      <3>2. UddfTanks(f, pc, model, hdr, count) BY <1>1, <3>1 DEF GasInv
      <3>3. IF x = None THEN f.links[t] = None ELSE HasLink(f, t, x)
        BY <2>1, <2>2, <3>2 DEF UddfTanks
      <3>4. \A m, n \in f.mixes : m.id = n.id => m = n BY <3>2 DEF UddfTanks, Numbered
      <3> HIDE DEF x
      <3>5. ASSUME HasLink(f, t, x)
            PROVE  {m.o2 : m \in {n \in f.mixes : n.id = f.links[t]}} = {x}
        <4>1. PICK k \in f.mixes : k.id = f.links[t] /\ k.o2 = x BY <3>5 DEF HasLink
        <4>2. {n \in f.mixes : n.id = f.links[t]} = {k} BY <3>4, <4>1
        <4> QED BY <4>1, <4>2
      <3> QED BY <3>3, <3>5 DEF x
    <2>3. ASSUME f.magic = "csv", pc = "next", f.titles > 0
          PROVE  f.titles = 1 /\ f.tankrows = [t \in TankIds |-> Oxygen(t, 209)]
      <3>1. IsCsv(f) BY <1>1, <2>3 DEF IInv, OutputInv, Output, IsUddf
      <3>2. CsvTanks(f, pc, model, hdr) BY <1>1, <3>1 DEF GasInv
      <3> QED BY <2>1, <2>3, <3>2 DEF CsvTanks
    <2> QED BY <2>2, <2>3 DEF TanksHaveTheirGas
  <1>2. Spec => []GasInv BY Invariance, GasInit, NextKeepsGas, PTL DEF Spec
  <1> QED BY <1>1, <1>2, Invariance, PTL
====
