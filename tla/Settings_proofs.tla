-------------------------- MODULE Settings_proofs ---------------------------
(***************************************************************************)
(* Proofs about ConfigStore and WebForm, for any number of identities,     *)
(* posts, chunks and texts: a setting that is read, now or after a power   *)
(* failure, is one that its setter was told, whatever is posted.           *)
(***************************************************************************)
EXTENDS WebForm, SequenceTheorems, FiniteSetTheorems, WellFoundedInduction, TLAPS

-----------------------------------------------------------------------------
(***************************************************************************)
(* What is computed step by step.  A function that is defined by recursion *)
(* on the numbers up to n: the library proves that there is one, with      *)
(* operators as parameters, which the provers cannot take; here sets and   *)
(* functions stand for them.                                               *)
(***************************************************************************)
\* A set of numbers that is not empty has a least one.
LEMMA LeastLemma ==
  ASSUME NEW T, T \subseteq Nat, T # {}
  PROVE  \E n \in T : \A m \in T : n <= m
<1> DEFINE Less == OpToRel(<, Nat)
<1>1. IsWellFoundedOn(Less, Nat)
  BY NatLessThanWellFounded
<1>2. \A x, y \in Nat : <<y, x>> \in Less <=> y < x
  BY DEF OpToRel
<1> HIDE DEF Less
<1>3. PICK x \in T : \A y \in T : ~ (<<y, x>> \in Less)
  BY <1>1, WFMin, Zenon
<1>4. ASSUME NEW y \in T PROVE x <= y
  <2>1. x \in Nat /\ y \in Nat /\ ~ (<<y, x>> \in Less)
    BY <1>3
  <2>2. ~ (y < x)
    BY <1>2, <2>1, Zenon
  <2> QED
    BY <2>1, <2>2
<1> QED
  BY <1>4

\* Induction over the numbers up to one, for a set.
LEMMA UpToLemma ==
  ASSUME NEW n \in Nat, NEW T, 0 \in T, \A i \in 1 .. n : i - 1 \in T => i \in T
  PROVE  \A i \in 0 .. n : i \in T
<1> DEFINE Missed == {i \in 0 .. n : i \notin T}
<1> SUFFICES ASSUME Missed # {} PROVE FALSE
  OBVIOUS
<1>1. PICK i \in Missed : \A m \in Missed : i <= m
  <2>1. Missed \subseteq Nat
    OBVIOUS
  <2> HIDE DEF Missed
  <2> QED
    BY <2>1, LeastLemma
<1>2. i \in 1 .. n /\ i - 1 \in 0 .. n
  BY <1>1
<1>3. i - 1 \in T
  BY <1>1, <1>2
<1> QED
  BY <1>1, <1>2, <1>3

\* What is defined by recursion over the numbers up to one exists.
Recursion(g, n, X, base, step) ==
  g \in [0 .. n -> X] /\ g[0] = base /\ \A i \in 1 .. n : g[i] = step[i][g[i - 1]]

LEMMA RecursionLemma ==
  ASSUME NEW n \in Nat, NEW X, NEW base \in X, NEW step \in [1 .. n -> [X -> X]]
  PROVE  \E g : Recursion(g, n, X, base, step)
<1> DEFINE Follows(m, g) == g \in [0 .. m -> X] /\ g[0] = base
                            /\ \A i \in 1 .. m : g[i] = step[i][g[i - 1]]
           T == {m \in 0 .. n : \E g : Follows(m, g)}
<1>1. 0 \in T
  <2>1. Follows(0, [i \in 0 .. 0 |-> base])
    OBVIOUS
  <2> HIDE DEF Follows
  <2> QED
    BY <2>1
<1>2. ASSUME NEW m \in 1 .. n, m - 1 \in T PROVE m \in T
  <2>1. PICK g : Follows(m - 1, g)
    <3> HIDE DEF Follows
    <3> QED
      BY <1>2
  <2> DEFINE h == [i \in 0 .. m |-> IF i = m THEN step[m][g[m - 1]] ELSE g[i]]
  <2>2. h \in [0 .. m -> X] /\ h[0] = base
    BY <2>1
  <2>3. ASSUME NEW i \in 1 .. m PROVE h[i] = step[i][h[i - 1]]
    <3>1. CASE i = m
      BY <3>1
    <3>2. CASE i # m
      <4>1. i \in 1 .. m - 1
        BY <3>2
      <4>2. g[i] = step[i][g[i - 1]]
        BY <2>1, <4>1
      <4> QED
        BY <4>1, <4>2
    <3> QED
      BY <3>1, <3>2
  <2>4. Follows(m, h)
    <3> HIDE DEF h
    <3> QED
      BY <2>2, <2>3
  <2> HIDE DEF Follows, h
  <2> QED
    BY <2>4
<1>3. n \in T
  <2> HIDE DEF T
  <2>1. \A i \in 1 .. n : i - 1 \in T => i \in T
    BY <1>2
  <2>2. \A i \in 0 .. n : i \in T
    BY <1>1, <2>1, UpToLemma, Zenon
  <2> QED
    BY <2>2
<1> QED
  BY <1>3 DEF Recursion

\* Sequences put behind one another, the first among them.
LEMMA FlattenLemma ==
  ASSUME NEW S, NEW seqs \in Seq(Seq(S))
  PROVE  /\ FlattenSeq(seqs) \in Seq(S)
         /\ seqs # << >> => Len(FlattenSeq(seqs)) >= Len(seqs[1])
<1>1. CASE Len(seqs) = 0
  BY <1>1 DEF FlattenSeq
<1>2. CASE Len(seqs) # 0
  <2> DEFINE L == Len(seqs)
             f == CHOOSE g : g = [i \in 1 .. L |-> IF i = 1 THEN seqs[i] ELSE g[i - 1] \o seqs[i]]
  <2>1. L \in Nat \ {0} /\ \A i \in 1 .. L : seqs[i] \in Seq(S)
    BY <1>2
  <2>2. FlattenSeq(seqs) = f[L]
    BY <1>2 DEF FlattenSeq
  <2> HIDE DEF L
  <2>3. f = [i \in 1 .. L |-> IF i = 1 THEN seqs[i] ELSE f[i - 1] \o seqs[i]]
    <3> DEFINE step == [i \in 1 .. L |-> [t \in Seq(S) |-> IF i = 1 THEN seqs[i] ELSE t \o seqs[i]]]
    <3>1. step \in [1 .. L -> [Seq(S) -> Seq(S)]]
      BY <2>1
    <3>2. << >> \in Seq(S)
      OBVIOUS
    <3>3. PICK h : Recursion(h, L, Seq(S), << >>, step)
      <4> HIDE DEF step
      <4>1. L \in Nat
        BY <2>1
      <4> QED
        BY <4>1, <3>1, <3>2, RecursionLemma
    <3> DEFINE g == [i \in 1 .. L |-> h[i]]
    <3>4. ASSUME NEW i \in 1 .. L PROVE g[i] = IF i = 1 THEN seqs[i] ELSE g[i - 1] \o seqs[i]
      <4>1. h[i] = step[i][h[i - 1]] /\ h[i - 1] \in Seq(S)
        <5>1. i - 1 \in 0 .. L
          BY <2>1
        <5> HIDE DEF step
        <5> QED
          BY <3>3, <5>1 DEF Recursion
      <4>2. h[i] = IF i = 1 THEN seqs[i] ELSE h[i - 1] \o seqs[i]
        BY <4>1
      <4> QED
        BY <2>1, <4>2
    <3>5. g = [i \in 1 .. L |-> IF i = 1 THEN seqs[i] ELSE g[i - 1] \o seqs[i]]
      BY <3>4
    <3> QED
      BY <3>5
  <2> HIDE DEF f
  <2>4. \A i \in 1 .. L : f[i] = IF i = 1 THEN seqs[i] ELSE f[i - 1] \o seqs[i]
    BY <2>3
  <2> DEFINE T == {i \in 0 .. L : i = 0 \/ (f[i] \in Seq(S) /\ Len(f[i]) >= Len(seqs[1]))}
  <2>5. \A i \in 1 .. L : i - 1 \in T => i \in T
    <3>1. ASSUME NEW i \in 1 .. L, i - 1 \in T PROVE i \in T
      <4>1. CASE i = 1
        <5>1. f[i] = seqs[1] /\ seqs[1] \in Seq(S) /\ i \in 0 .. L
          BY <2>1, <2>4, <4>1
        <5> QED
          BY <5>1
      <4>2. CASE i # 1
        <5>1. /\ f[i - 1] \in Seq(S) /\ seqs[i] \in Seq(S) /\ seqs[1] \in Seq(S)
              /\ Len(f[i - 1]) >= Len(seqs[1])
          BY <2>1, <3>1, <4>2
        <5>2. f[i] = f[i - 1] \o seqs[i]
          BY <2>4, <4>2
        <5>3. \A s, t \in Seq(S) : s \o t \in Seq(S) /\ Len(s \o t) >= Len(s)
          BY ConcatProperties
        <5>4. f[i] \in Seq(S) /\ Len(f[i]) >= Len(f[i - 1])
          BY <5>1, <5>2, <5>3
        <5>5. \A s, t, u \in Seq(S) : Len(s) >= Len(t) /\ Len(t) >= Len(u) => Len(s) >= Len(u)
          OBVIOUS
        <5>6. Len(f[i]) >= Len(seqs[1])
          BY <5>1, <5>4, <5>5, Zenon
        <5> QED
          BY <5>4, <5>6
      <4> QED
        BY <4>1, <4>2
    <3> QED
      BY <3>1
  <2>6. \A i \in 0 .. L : i \in T
    <3>1. 0 \in T
      BY <2>1
    <3> HIDE DEF T
    <3> QED
      BY <2>1, <2>5, <3>1, UpToLemma
  <2> QED
    BY <2>1, <2>2, <2>6
<1> QED
  BY <1>1, <1>2

-----------------------------------------------------------------------------
(***************************************************************************)
(* The settings: what they may be, and what a list of them says.           *)
(***************************************************************************)
\* What texts are made of and what fields are called: any strings.  (The provers do not know
\* of what is in quotes that it is in STRING.)
Named ==
  { "", " ", "+", "?", "0", "1", "2", "3", "4", "5", "6", "7", "8", "9", "&", "=", "%", "B", "C", "D", "..", ";",
    "<", "quote",
    "sid", "wpw", "pro", "svr", "eml", "mqttserver", "mqttport", "mqtttls", "mqttauth",
    "mqttuser", "mqttpasswd", "mqttprefix", "mqttqos", "mqttretain", "mqttpooldelay",
    "swupdateurl", "upd", "updbeta", "led", "rbt" }
Cells == STRING \cup Named
Strings == Seq(Cells)

\* Those that are used, and that a sequence of strings is one of them.
LEMMA CellsLemma ==
  /\ \A c \in Named : c \in Cells
  /\ Seq(STRING) \subseteq Strings
<1>1. ASSUME NEW t \in Seq(STRING) PROVE t \in Strings
  <2>1. \A i \in 1 .. Len(t) : t[i] \in Cells
    <3>1. \A i \in 1 .. Len(t) : t[i] \in STRING
      OBVIOUS
    <3> QED
      BY <3>1, Zenon DEF Cells
  <2>2. Len(t) \in Nat /\ t = [i \in 1 .. Len(t) |-> t[i]]
    OBVIOUS
  <2>3. t \in Seq(Cells)
    BY <2>1, <2>2
  <2> QED
    BY <2>3 DEF Strings
<1> QED
  BY <1>1 DEF Cells

\* KeyValue's types of values, over these texts.
Suits(type, value) ==
  CASE type = "string" -> value \in Strings
    [] type = "blob" -> value \in Nat
    [] type \in {"int8", "int32"} -> value \in Int
    [] OTHER -> FALSE

\* What the list of a configuration may have under the key of a setting, and under another.
Payloads(s) ==
  CASE Settings[s].type = "string" -> {t \in Strings : Len(t) < Settings[s].max}
    [] Settings[s].type = "blob" -> Nat
    [] OTHER -> Settings[s].values

Types == {"string", "blob", "int8", "int32"}
Keys == DOMAIN Settings \cup {"custom"}
AnyValue == Strings \cup Int \cup {NotSet}
Entries ==
  { e \in [key : Keys, type : Types, payload : Strings \cup Int] :
      /\ Suits(e.type, e.payload)
      /\ e.key \in DOMAIN Settings => e.type = Settings[e.key].type /\ e.payload \in Payloads(e.key) }

Unique(list) == \A i, j \in DOMAIN list : list[i].key = list[j].key => i = j
Lists(list) == list \in Seq(Entries) /\ Unique(list)

\* A setting that is a number: one for when it is missing, of those that are allowed.
IsNumber(setting) ==
  /\ setting.type \in {"int8", "int32"} /\ setting.values \subseteq Int
  /\ setting.missing \in setting.values

\* The settings: of the four types, with numbers for what is missing and for what is allowed.
LEMMA SettingsLemma ==
  \A s \in DOMAIN Settings :
    /\ s # "custom"
    /\ \/ Settings[s].type = "string" /\ Settings[s].max \in Nat
       \/ Settings[s].type = "blob"
       \/ /\ Settings[s].type \in {"int8", "int32"} /\ Settings[s].values \subseteq Int
          /\ Settings[s].missing \in Settings[s].values
<1> SUFFICES ASSUME NEW s \in DOMAIN Settings
    PROVE  /\ s # "custom"
           /\ \/ Settings[s].type = "string" /\ Settings[s].max \in Nat
              \/ Settings[s].type = "blob"
              \/ /\ Settings[s].type \in {"int8", "int32"} /\ Settings[s].values \subseteq Int
                 /\ Settings[s].missing \in Settings[s].values
  OBVIOUS
<1>1. s \in {"devicename", "swupdateurl", "guid", "authkey", "devicemode", "swupdatebeta",
        "statusled", "suplacommproto", "suplaserver", "email", "suplaport", "mqttcommproto",
        "mqttserver", "mqttport", "mqttuser", "mqttpasswd", "mqttprefix", "mqttqos",
        "mqttpooldelay", "mqtttls", "mqttauth", "mqttretain", "wifissid", "wifipasswd",
        "altwifissid", "altwifipasswd"}
  BY DEF Settings
<1>2. CASE s \in {"devicename", "swupdateurl", "suplaserver", "email", "mqttserver", "mqttuser",
        "mqttpasswd", "mqttprefix", "wifissid", "wifipasswd", "altwifissid", "altwifipasswd"}
  <2>1. Settings["devicename"] = Text(201)
    BY DEF Settings
  <2>2. Settings["swupdateurl"] = Text(202)
    BY DEF Settings
  <2>3. Settings["suplaserver"] = Text(65)
    BY DEF Settings
  <2>4. Settings["email"] = Text(256)
    BY DEF Settings
  <2>5. Settings["mqttserver"] = Text(65)
    BY DEF Settings
  <2>6. Settings["mqttuser"] = Text(23)
    BY DEF Settings
  <2>7. Settings["mqttpasswd"] = Text(33)
    BY DEF Settings
  <2>8. Settings["mqttprefix"] = Text(49)
    BY DEF Settings
  <2>9. Settings["wifissid"] = Text(32)
    BY DEF Settings
  <2>10. Settings["wifipasswd"] = Text(64)
    BY DEF Settings
  <2>11. Settings["altwifissid"] = Text(32)
    BY DEF Settings
  <2>12. Settings["altwifipasswd"] = Text(64)
    BY DEF Settings
  <2> QED
    BY <1>2, <2>1, <2>2, <2>3, <2>4, <2>5, <2>6, <2>7, <2>8, <2>9, <2>10, <2>11, <2>12 DEF Text
<1>3. CASE s \in {"guid", "authkey"}
  <2>1. Settings["guid"] = Blob
    BY DEF Settings
  <2>2. Settings["authkey"] = Blob
    BY DEF Settings
  <2> QED
    BY <1>3, <2>1, <2>2 DEF Blob
<1>4. CASE s \in {"devicemode", "suplaport", "mqttport", "mqttqos", "mqttpooldelay"}
  <2>1. Settings["devicemode"] = Number(0, 0..4)
    BY DEF Settings
  <2>2. Settings["suplaport"] = Number(2016, PortRange)
    BY DEF Settings
  <2>3. Settings["mqttport"] = Number(1883, PortRange)
    BY DEF Settings
  <2>4. Settings["mqttqos"] = Number(0, 0..2)
    BY DEF Settings
  <2>5. Settings["mqttpooldelay"] = Number(0, 0..3600)
    BY DEF Settings
  <2>6. IsNumber(Settings["devicemode"]) /\ IsNumber(Settings["mqttqos"])
    BY <2>1, <2>4 DEF Number, IsNumber
  <2>7. IsNumber(Settings["suplaport"])
    <3>1. PortRange \subseteq Int /\ 2016 \in PortRange
      BY DEF PortRange
    <3>2. /\ Settings["suplaport"].type = "int32" /\ Settings["suplaport"].missing = 2016
          /\ Settings["suplaport"].values = PortRange
      BY <2>2 DEF Number
    <3> QED
      BY <3>1, <3>2 DEF IsNumber
  <2>8. IsNumber(Settings["mqttport"])
    <3>1. PortRange \subseteq Int /\ 1883 \in PortRange
      BY DEF PortRange
    <3>2. /\ Settings["mqttport"].type = "int32" /\ Settings["mqttport"].missing = 1883
          /\ Settings["mqttport"].values = PortRange
      BY <2>3 DEF Number
    <3> QED
      BY <3>1, <3>2 DEF IsNumber
  <2>9. IsNumber(Settings["mqttpooldelay"])
    <3>1. 0..3600 \subseteq Int /\ 0 \in 0..3600
      OBVIOUS
    <3>2. /\ Settings["mqttpooldelay"].type = "int32" /\ Settings["mqttpooldelay"].missing = 0
          /\ Settings["mqttpooldelay"].values = 0..3600
      BY <2>5 DEF Number
    <3> QED
      BY <3>1, <3>2 DEF IsNumber
  <2>10. IsNumber(Settings[s])
    BY <1>4, <2>6, <2>7, <2>8, <2>9, Zenon
  <2> QED
    BY <1>4, <2>10 DEF IsNumber
<1>5. CASE s \in {"swupdatebeta", "statusled", "suplacommproto", "mqttcommproto", "mqtttls",
                "mqttauth", "mqttretain"}
  <2>1. Settings["swupdatebeta"] = Flag(0)
    BY DEF Settings
  <2>2. Settings["statusled"] = [Flag(0) EXCEPT !.values = 0..2]
    BY DEF Settings
  <2>3. Settings["suplacommproto"] = Flag(1)
    BY DEF Settings
  <2>4. Settings["mqttcommproto"] = Flag(0)
    BY DEF Settings
  <2>5. Settings["mqtttls"] = Flag(0)
    BY DEF Settings
  <2>6. Settings["mqttauth"] = Flag(1)
    BY DEF Settings
  <2>7. Settings["mqttretain"] = Flag(1)
    BY DEF Settings
  <2> QED
    BY <1>5, <2>1, <2>2, <2>3, <2>4, <2>5, <2>6, <2>7 DEF Flag
<1> QED
  BY <1>1, <1>2, <1>3, <1>4, <1>5

\* The value of a setting is what the list has under its key, if anything.
LEMMA GetLemma ==
  ASSUME NEW list, Lists(list), NEW s \in DOMAIN Settings
  PROVE  /\ \A i \in DOMAIN list :
              list[i].key = s => GetFrom(list, s) = list[i].payload /\ list[i].payload \in Payloads(s)
         /\ (\A i \in DOMAIN list : list[i].key # s) => GetFrom(list, s) = Missing(s)
<1>1. ASSUME NEW i \in DOMAIN list, list[i].key = s
      PROVE  GetFrom(list, s) = list[i].payload /\ list[i].payload \in Payloads(s)
  <2>1. list[i].type = Settings[s].type /\ list[i].payload \in Payloads(s)
    BY <1>1 DEF Lists, Entries
  <2> DEFINE found == {j \in Places(list, s) : list[j].type = Settings[s].type}
  <2>2. found = {i}
    BY <1>1, <2>1 DEF Places, Lists, Unique
  <2>3. ValueOf(list, s, Settings[s].type) = list[i].payload
    BY <2>2 DEF ValueOf
  <2>4. CASE Settings[s].type = "string"
    <3>1. list[i].payload \in Strings /\ Len(list[i].payload) < Settings[s].max
      BY <2>1, <2>4 DEF Payloads
    <3>2. Settings[s].max \in Nat
      BY <2>4, SettingsLemma
    <3>3. Len(list[i].payload) + 1 <= Settings[s].max
      BY <3>1, <3>2
    <3> QED
      BY <2>1, <2>3, <2>4, <3>3 DEF GetFrom
  <2>5. CASE Settings[s].type = "blob"
    BY <2>1, <2>3, <2>5 DEF GetFrom
  <2>6. CASE Settings[s].type \in {"int8", "int32"}
    <3>1. list[i].payload \in Settings[s].values /\ Settings[s].values \subseteq Int
      BY <2>1, <2>6, SettingsLemma DEF Payloads
    <3>2. list[i].payload # NotSet
      BY <3>1, ConfigAssumption
    <3> QED
      BY <2>1, <2>3, <2>6, <3>1, <3>2 DEF GetFrom
  <2> QED
    BY <2>4, <2>5, <2>6, SettingsLemma
<1>2. ASSUME \A i \in DOMAIN list : list[i].key # s PROVE GetFrom(list, s) = Missing(s)
  <2>1. Places(list, s) = {}
    BY <1>2 DEF Places
  <2>2. ValueOf(list, s, Settings[s].type) = NotSet
    BY <2>1 DEF ValueOf
  <2> QED
    BY <2>2, SettingsLemma DEF GetFrom, Missing
<1> QED
  BY <1>1, <1>2

\* Putting a value in changes what is under its key and nothing else.
LEMMA PutLemma ==
  ASSUME NEW list, Lists(list), NEW key, NEW type, NEW value,
         [key |-> key, type |-> type, payload |-> value] \in Entries
  PROVE  /\ Lists(Put(list, key, type, value))
         /\ key \in DOMAIN Settings => GetFrom(Put(list, key, type, value), key) = value
         /\ \A s \in DOMAIN Settings \ {key} :
              GetFrom(Put(list, key, type, value), s) = GetFrom(list, s)
<1> DEFINE e == [key |-> key, type |-> type, payload |-> value]
           put == Put(list, key, type, value)
<1>1. /\ e \in Entries /\ e.key = key /\ e.payload = value /\ e.type = type
      /\ list \in Seq(Entries) /\ Unique(list) /\ Len(list) \in Nat
      /\ DOMAIN list = 1 .. Len(list) /\ \A i \in 1 .. Len(list) : list[i] \in Entries
  BY DEF Lists
<1> HIDE DEF e
<1>2. CASE Places(list, key) = {}
  <2>1. put = <<e>> \o list
    BY <1>2 DEF Put, e
  <2>2. /\ put \in Seq(Entries) /\ Len(put) = Len(list) + 1 /\ put[1] = e
        /\ \A i \in 1 .. Len(list) : put[i + 1] = list[i]
    <3>1. <<e>> \in Seq(Entries) /\ Len(<<e>>) = 1 /\ <<e>>[1] = e
      BY <1>1
    <3> HIDE DEF put
    <3> QED
      BY <1>1, <2>1, <3>1, ConcatProperties
  <2> HIDE DEF put
  <2>3. \A i \in 1 .. Len(list) : list[i].key # key
    BY <1>1, <1>2 DEF Places
  <2>4. \A i \in 2 .. Len(put) : i - 1 \in 1 .. Len(list) /\ put[i] = list[i - 1]
    BY <1>1, <2>2
  <2>5. Unique(put)
    <3>1. ASSUME NEW i \in 1 .. Len(put), NEW j \in 1 .. Len(put), put[i].key = put[j].key, i < j
          PROVE  FALSE
      <4>1. j \in 2 .. Len(put)
        BY <1>1, <2>2, <3>1
      <4>2. CASE i = 1
        BY <1>1, <2>2, <2>3, <2>4, <3>1, <4>1, <4>2
      <4>3. CASE i # 1
        <5>1. i \in 2 .. Len(put)
          BY <4>3
        <5>2. list[i - 1].key = list[j - 1].key /\ i - 1 \in DOMAIN list /\ j - 1 \in DOMAIN list
          BY <1>1, <2>4, <3>1, <4>1, <5>1
        <5>3. i - 1 = j - 1
          BY <1>1, <5>2 DEF Unique
        <5> QED
          BY <3>1, <5>3
      <4> QED
        BY <4>2, <4>3
    <3>2. DOMAIN put = 1 .. Len(put) /\ Len(put) \in Nat
      BY <2>2
    <3> QED
      BY <3>1, <3>2 DEF Unique
  <2>6. Lists(put)
    BY <2>2, <2>5 DEF Lists
  <2>7. ASSUME key \in DOMAIN Settings PROVE GetFrom(put, key) = value
    <3>1. 1 \in DOMAIN put /\ put[1].key = key /\ put[1].payload = value
      BY <1>1, <2>2
    <3> QED
      BY <2>6, <2>7, <3>1, GetLemma
  <2>8. ASSUME NEW s \in DOMAIN Settings \ {key} PROVE GetFrom(put, s) = GetFrom(list, s)
    <3>1. CASE \E i \in DOMAIN list : list[i].key = s
      <4>1. PICK i \in DOMAIN list : list[i].key = s
        BY <3>1
      <4>2. i + 1 \in DOMAIN put /\ put[i + 1] = list[i]
        BY <1>1, <2>2, <4>1
      <4> QED
        BY <2>6, <4>1, <4>2, GetLemma
    <3>2. CASE \A i \in DOMAIN list : list[i].key # s
      <4>1. \A i \in DOMAIN put : put[i].key # s
        <5>1. ASSUME NEW i \in DOMAIN put PROVE put[i].key # s
          <6>1. CASE i = 1
            BY <1>1, <2>2, <6>1
          <6>2. CASE i # 1
            <7>1. i \in 2 .. Len(put)
              BY <2>2, <6>2
            <7> QED
              BY <1>1, <2>4, <3>2, <7>1
          <6> QED
            BY <6>1, <6>2
        <5> QED
          BY <5>1
      <4> QED
        BY <2>6, <3>2, <4>1, GetLemma
    <3> QED
      BY <3>1, <3>2
  <2> QED
    BY <2>6, <2>7, <2>8 DEF put
<1>3. CASE Places(list, key) # {}
  <2>1. put = [i \in DOMAIN list |-> IF list[i].key = key /\ list[i].type = type THEN e ELSE list[i]]
    BY <1>3 DEF Put, e
  <2> HIDE DEF put
  <2>2. /\ DOMAIN put = 1 .. Len(list) /\ put \in Seq(Entries) /\ Len(put) = Len(list)
        /\ \A i \in 1 .. Len(list) : put[i].key = list[i].key
    BY <1>1, <2>1
  <2>3. Lists(put)
    BY <1>1, <2>2 DEF Lists, Unique
  <2>4. ASSUME key \in DOMAIN Settings PROVE GetFrom(put, key) = value
    <3>1. PICK i \in DOMAIN list : list[i].key = key
      BY <1>3 DEF Places
    <3>2. list[i].type = Settings[key].type /\ type = Settings[key].type
      <4>1. list[i].type = Settings[key].type
        BY <1>1, <2>4, <3>1 DEF Entries
      <4>2. e.type = Settings[key].type
        BY <1>1, <2>4 DEF Entries
      <4> QED
        BY <1>1, <4>1, <4>2
    <3>3. i \in DOMAIN put /\ put[i] = e
      BY <1>1, <2>1, <3>1, <3>2
    <3> QED
      BY <1>1, <2>3, <2>4, <3>3, GetLemma
  <2>5. ASSUME NEW s \in DOMAIN Settings \ {key} PROVE GetFrom(put, s) = GetFrom(list, s)
    <3>1. CASE \E i \in DOMAIN list : list[i].key = s
      <4>1. PICK i \in DOMAIN list : list[i].key = s
        BY <3>1
      <4>2. i \in DOMAIN put /\ put[i] = list[i]
        BY <1>1, <2>1, <4>1
      <4> QED
        BY <2>3, <4>1, <4>2, GetLemma
    <3>2. CASE \A i \in DOMAIN list : list[i].key # s
      <4>1. \A i \in DOMAIN put : put[i].key # s
        BY <1>1, <2>2, <3>2
      <4> QED
        BY <2>3, <3>2, <4>1, GetLemma
    <3> QED
      BY <3>1, <3>2
  <2> QED
    BY <2>3, <2>4, <2>5 DEF put
<1> QED
  BY <1>2, <1>3

-----------------------------------------------------------------------------
(***************************************************************************)
(* The setters: what they make of a list and of what it was told.          *)
(***************************************************************************)
\* What setters are called with.
Arguments(s) ==
  CASE Settings[s].type = "string" -> Strings
    [] Settings[s].type = "blob" -> Nat
    [] s \in Ports \cup {"mqttqos", "mqttpooldelay"} -> Nat
    [] OTHER -> Settings[s].values
SetterCalls == UNION {{<<s, value>> : value \in Arguments(s)} : s \in DOMAIN Settings}

\* A list, and what may be told of it.
Tellings == [DOMAIN Settings -> SUBSET AnyValue]
Agree(list, told) == \A s \in DOMAIN Settings : GetFrom(list, s) \in told[s]
Pairs == {r \in [list : Seq(Entries), told : Tellings] : Unique(r.list) /\ Agree(r.list, r.told)}

\* The settings whose numbers a setter limits.
LEMMA PlacesOfSettings ==
  /\ \A s \in Ports \cup {"mqttqos", "mqttpooldelay"} :
       Settings[s].type # "string" /\ Settings[s].type # "blob"
  /\ Settings["mqttqos"].values = 0..2
  /\ Settings["mqttpooldelay"].values = 0..3600
<1>1. Settings["suplaport"] = Number(2016, PortRange)
  BY SMTT(30) DEF Settings
<1>2. Settings["mqttport"] = Number(1883, PortRange)
  BY SMTT(30) DEF Settings
<1>3. Settings["mqttqos"] = Number(0, 0..2)
  BY SMTT(30) DEF Settings
<1>4. Settings["mqttpooldelay"] = Number(0, 0..3600)
  BY SMTT(30) DEF Settings
<1>5. /\ Settings["suplaport"].type = "int32" /\ Settings["mqttport"].type = "int32"
      /\ Settings["mqttqos"].type = "int32" /\ Settings["mqttpooldelay"].type = "int32"
  <2>1. Settings["suplaport"].type = "int32"
    BY <1>1 DEF Number
  <2>2. Settings["mqttport"].type = "int32"
    BY <1>2 DEF Number
  <2>3. Settings["mqttqos"].type = "int32"
    BY <1>3 DEF Number
  <2>4. Settings["mqttpooldelay"].type = "int32"
    BY <1>4 DEF Number
  <2> QED
    BY <2>1, <2>2, <2>3, <2>4
<1>6. Settings["mqttqos"].values = 0..2 /\ Settings["mqttpooldelay"].values = 0..3600
  BY <1>3, <1>4 DEF Number
<1> QED
  BY <1>5, <1>6, SMTT(30) DEF Ports

\* What is stored of an argument may be in the list.
LEMMA LimitedLemma ==
  ASSUME NEW s \in DOMAIN Settings, NEW value \in Arguments(s),
         ~(Settings[s].type = "string" /\ TextRefused(s, value))
  PROVE  /\ Limited(s, value) \in Payloads(s) /\ Limited(s, value) \in AnyValue
         /\ [key |-> s, type |-> Settings[s].type, payload |-> Limited(s, value)] \in Entries
<1>1. Limited(s, value) \in Payloads(s) /\ Suits(Settings[s].type, Limited(s, value))
  <2>1. CASE Settings[s].type = "string"
    <3>1. s \notin Ports /\ s # "mqttqos" /\ s # "mqttpooldelay"
      BY <2>1, PlacesOfSettings
    <3>2. Limited(s, value) = value /\ value \in Strings /\ Settings[s].max \in Nat
      BY <2>1, <3>1, SettingsLemma DEF Limited, Arguments
    <3>3. Len(value) \in Nat /\ Len(value) < Settings[s].max
      BY <2>1, <3>2 DEF TextRefused
    <3> QED
      BY <2>1, <3>2, <3>3 DEF Payloads, Suits
  <2>2. CASE Settings[s].type = "blob"
    <3>1. s \notin Ports /\ s # "mqttqos" /\ s # "mqttpooldelay"
      BY <2>2, PlacesOfSettings
    <3> QED
      BY <2>2, <3>1 DEF Limited, Arguments, Payloads, Suits
  <2>3. CASE Settings[s].type \in {"int8", "int32"}
    <3>1. Settings[s].values \subseteq Int /\ Settings[s].missing \in Settings[s].values
      BY <2>3, SettingsLemma
    <3>2. Limited(s, value) \in Settings[s].values
      <4>1. CASE s \in Ports
        BY <2>3, <3>1, <4>1 DEF Limited, Ports
      <4>2. CASE s = "mqttqos"
        <5>1. value \in Nat /\ Settings[s].values = 0..2 /\ s \notin Ports
          BY <2>3, <4>2, PlacesOfSettings DEF Arguments, Ports
        <5>2. Limited(s, value) = IF value > 2 THEN 2 ELSE value
          BY <4>2, <5>1 DEF Limited
        <5> QED
          BY <5>1, <5>2
      <4>3. CASE s = "mqttpooldelay"
        <5>1. value \in Nat /\ Settings[s].values = 0..3600 /\ s \notin Ports
          BY <2>3, <4>3, PlacesOfSettings DEF Arguments, Ports
        <5>2. Limited(s, value) = IF value > 3600 THEN 3600 ELSE value
          BY <4>3, <5>1 DEF Limited
        <5> QED
          BY <5>1, <5>2, SMTT(30)
      <4>4. CASE s \notin Ports /\ s # "mqttqos" /\ s # "mqttpooldelay"
        BY <2>3, <4>4 DEF Limited, Arguments
      <4> QED
        BY <4>1, <4>2, <4>3, <4>4
    <3> QED
      BY <2>3, <3>1, <3>2 DEF Payloads, Suits
  <2> QED
    BY <2>1, <2>2, <2>3, SettingsLemma
<1>2. Settings[s].type \in Types /\ s \in Keys
  BY SettingsLemma DEF Types, Keys
<1>3. Limited(s, value) \in Strings \cup Int
  BY <1>1, SettingsLemma DEF Suits
<1> QED
  BY <1>1, <1>2, <1>3 DEF Entries, AnyValue

\* A call of a setter leaves the list and what is told of it in agreement.
LEMMA CalledLemma ==
  ASSUME NEW r \in Pairs, NEW call \in SetterCalls
  PROVE  Called(r, call[1], call[2]) \in Pairs
<1>1. PICK s \in DOMAIN Settings : \E value \in Arguments(s) : call = <<s, value>>
  BY DEF SetterCalls
<1>0. PICK value : value \in Arguments(s) /\ call = <<s, value>>
  BY <1>1
<1> DEFINE after == SetIn(r.list, s, value)
           told == [r.told EXCEPT ![s] = Promised(@, s, value)]
<1>2. Called(r, call[1], call[2]) = [list |-> after, told |-> told]
  BY <1>0 DEF Called
<1>3. r.list \in Seq(Entries) /\ Unique(r.list) /\ r.told \in Tellings /\ Agree(r.list, r.told)
  BY DEF Pairs
<1>4. CASE Settings[s].type = "string" /\ TextRefused(s, value)
  <2>1. after = r.list
    BY <1>4 DEF SetIn
  <2>2. Len(value) >= Settings[s].max
    <3>1. value \in Strings /\ Settings[s].max \in Nat
      <4>1. Settings[s].type = "string"
        BY <1>4
      <4>2. Arguments(s) = Strings
        BY <4>1, PlacesOfSettings DEF Arguments
      <4> QED
        BY <1>0, <4>1, <4>2, SettingsLemma
    <3>2. Len(value) > Settings[s].max - 1 /\ Len(value) \in Nat
      BY <1>4, <3>1 DEF TextRefused
    <3> QED
      BY <3>1, <3>2
  <2>3. told = r.told
    BY <1>3, <1>4, <2>2 DEF Promised, Tellings
  <2>4. [list |-> after, told |-> told] \in Pairs
    BY <1>3, <2>1, <2>3 DEF Pairs
  <2> QED
    BY <1>2, <2>4
<1>5. CASE ~(Settings[s].type = "string" /\ TextRefused(s, value))
  <2> DEFINE given == Limited(s, value)
  <2>1. given \in AnyValue /\ [key |-> s, type |-> Settings[s].type, payload |-> given] \in Entries
    BY <1>0, <1>5, LimitedLemma
  <2>2. after = Put(r.list, s, Settings[s].type, given)
    BY <1>5 DEF SetIn
  <2> HIDE DEF given
  <2>3. /\ Lists(after) /\ GetFrom(after, s) = given
        /\ \A t \in DOMAIN Settings \ {s} : GetFrom(after, t) = GetFrom(r.list, t)
    BY <1>3, <2>1, <2>2, PutLemma DEF Lists
  <2>4. Promised(r.told[s], s, value) \in {r.told[s], {given}}
    BY DEF Promised, given
  <2>5. Promised(r.told[s], s, value) = {given}
    <3>1. CASE Settings[s].type = "string"
      <4>1. value \in Strings /\ Settings[s].max \in Nat /\ Len(value) \in Nat
        <5>1. Arguments(s) = Strings
          BY <3>1, PlacesOfSettings DEF Arguments
        <5> QED
          BY <1>0, <3>1, <5>1, SettingsLemma
      <4>2. ~(Len(value) >= Settings[s].max)
        BY <1>5, <3>1, <4>1 DEF TextRefused
      <4> QED
        BY <4>2 DEF Promised, given
    <3>2. CASE Settings[s].type # "string"
      BY <3>2 DEF Promised, given
    <3> QED
      BY <3>1, <3>2
  <2> HIDE DEF after
  <2>6. /\ told \in Tellings /\ told[s] = {given}
        /\ \A t \in DOMAIN Settings \ {s} : told[t] = r.told[t]
    BY <1>3, <2>1, <2>5 DEF Tellings
  <2> HIDE DEF told
  <2>7. Agree(after, told)
    BY <1>3, <2>3, <2>6 DEF Agree
  <2>8. [list |-> after, told |-> told] \in Pairs
    BY <2>3, <2>6, <2>7 DEF Pairs, Lists
  <2> QED
    BY <1>2, <2>8 DEF after, told
<1> QED
  BY <1>4, <1>5

\* So do any number of calls.
LEMMA SetAllLemma ==
  ASSUME NEW from \in Pairs, NEW calls \in Seq(SetterCalls)
  PROVE  SetAll(from, calls) \in Pairs
<1> DEFINE L == Len(calls)
           f == CHOOSE g : g = [i \in 0..L |-> IF i = 0 THEN from
                                               ELSE Called(g[i - 1], calls[i][1], calls[i][2])]
<1>1. L \in Nat /\ \A i \in 1 .. L : calls[i] \in SetterCalls
  OBVIOUS
<1>2. SetAll(from, calls) = f[L]
  BY DEF SetAll
<1> HIDE DEF L
<1>3. f = [i \in 0..L |-> IF i = 0 THEN from ELSE Called(f[i - 1], calls[i][1], calls[i][2])]
  <2> DEFINE step == [i \in 1 .. L |-> [r \in Pairs |-> Called(r, calls[i][1], calls[i][2])]]
  <2>1. step \in [1 .. L -> [Pairs -> Pairs]]
    BY <1>1, CalledLemma
  <2>2. PICK h : Recursion(h, L, Pairs, from, step)
    <3> HIDE DEF step
    <3> QED
      BY <1>1, <2>1, RecursionLemma
  <2>3. h = [i \in 0..L |-> IF i = 0 THEN from ELSE Called(h[i - 1], calls[i][1], calls[i][2])]
    <3>1. ASSUME NEW i \in 1 .. L PROVE h[i] = Called(h[i - 1], calls[i][1], calls[i][2])
      <4>1. i - 1 \in 0 .. L
        BY <1>1
      <4>2. h[i] = step[i][h[i - 1]] /\ h[i - 1] \in Pairs
        <5> HIDE DEF step
        <5> QED
          BY <2>2, <4>1 DEF Recursion
      <4> QED
        BY <4>2
    <3>2. h[0] = from /\ h \in [0 .. L -> Pairs]
      BY <2>2 DEF Recursion
    <3> QED
      BY <1>1, <3>1, <3>2
  <2> QED
    BY <2>3
<1> HIDE DEF f
<1>4. f[0] = from /\ \A i \in 1 .. L : f[i] = Called(f[i - 1], calls[i][1], calls[i][2])
  BY <1>1, <1>3
<1> DEFINE T == {i \in 0 .. L : f[i] \in Pairs}
<1>5. 0 \in T /\ \A i \in 1 .. L : i - 1 \in T => i \in T
  BY <1>1, <1>4, CalledLemma
<1>6. \A i \in 0 .. L : i \in T
  <2> HIDE DEF T
  <2> QED
    BY <1>1, <1>5, UpToLemma
<1> QED
  BY <1>1, <1>2, <1>6

-----------------------------------------------------------------------------
(***************************************************************************)
(* A save and what a load makes of it: the blocks that are whole.          *)
(***************************************************************************)
\* What KeyValue::commit has written of the first n elements: some of them, in their order.
PartOf(blocks, list, n) ==
  /\ blocks \in Seq(Entries) /\ Len(blocks) <= n
  /\ Unique(blocks)
  /\ \A b \in DOMAIN blocks : \E i \in 1 .. n : blocks[b] = list[i]
  /\ Len(blocks) = n => \A i \in 1 .. n : blocks[i] = list[i]

\* The size of an element is a number.
LEMMA SizeLemma == \A e \in Entries : BlockSize(e) \in Int
<1> SUFFICES ASSUME NEW e \in Entries PROVE BlockSize(e) \in Int
  OBVIOUS
<1>1. e.type \in Types /\ Suits(e.type, e.payload)
  BY DEF Entries
<1>2. CASE e.type = "string"
  <2>1. e.payload \in Strings
    BY <1>1, <1>2 DEF Suits
  <2> QED
    BY <1>2, <2>1 DEF BlockSize, DataSize
<1>3. CASE e.type # "string"
  BY <1>1, <1>3 DEF BlockSize, DataSize, Types
<1> QED
  BY <1>2, <1>3

\* One more element.
LEMMA BlocksLemma ==
  ASSUME NEW list \in Seq(Entries), Unique(list), NEW i \in 1 .. Len(list),
         NEW blocks, PartOf(blocks, list, i - 1)
  PROVE  PartOf(blocks, list, i) /\ PartOf(Append(blocks, list[i]), list, i)
<1>1. blocks \in Seq(Entries) /\ Len(blocks) \in Nat /\ list[i] \in Entries /\ i \in Nat
  BY DEF PartOf
<1>2. PartOf(blocks, list, i)
  <2>1. Len(blocks) <= i /\ Len(blocks) # i
    BY <1>1 DEF PartOf
  <2>2. \A b \in DOMAIN blocks : \E k \in 1 .. i : blocks[b] = list[k]
    <3>1. ASSUME NEW b \in DOMAIN blocks PROVE \E k \in 1 .. i : blocks[b] = list[k]
      <4>1. PICK k \in 1 .. i - 1 : blocks[b] = list[k]
        BY DEF PartOf
      <4> QED
        BY <1>1, <4>1
    <3> QED
      BY <3>1
  <2> QED
    BY <2>1, <2>2 DEF PartOf
<1>3. PartOf(Append(blocks, list[i]), list, i)
  <2> DEFINE all == Append(blocks, list[i])
             n == Len(blocks)
  <2>1. /\ all \in Seq(Entries) /\ Len(all) = n + 1 /\ DOMAIN all = 1 .. n + 1
        /\ all[n + 1] = list[i] /\ \A b \in 1 .. n : all[b] = blocks[b]
    BY <1>1, AppendProperties
  <2> HIDE DEF all
  <2>2. n <= i - 1 /\ DOMAIN blocks = 1 .. n /\ n \in Nat
    BY <1>1 DEF PartOf
  <2> HIDE DEF n
  <2>3. \A b \in 1 .. n : \E k \in 1 .. i - 1 : blocks[b] = list[k]
    BY <2>2 DEF PartOf
  <2>4. \A b \in 1 .. n + 1 : \E k \in 1 .. i : all[b] = list[k]
    <3>1. ASSUME NEW b \in 1 .. n + 1 PROVE \E k \in 1 .. i : all[b] = list[k]
      <4>1. CASE b = n + 1
        BY <1>1, <2>1, <4>1
      <4>2. CASE b # n + 1
        <5>1. b \in 1 .. n
          BY <2>2, <4>2
        <5>2. PICK k \in 1 .. i - 1 : blocks[b] = list[k]
          BY <2>3, <5>1
        <5> QED
          BY <1>1, <2>1, <5>1, <5>2
      <4> QED
        BY <4>1, <4>2
    <3> QED
      BY <3>1
  <2>5. \A b \in 1 .. n : blocks[b].key # list[i].key
    <3>1. ASSUME NEW b \in 1 .. n, blocks[b].key = list[i].key PROVE FALSE
      <4>1. PICK k \in 1 .. i - 1 : blocks[b] = list[k]
        BY <2>3
      <4>2. k \in DOMAIN list /\ i \in DOMAIN list /\ list[k].key = list[i].key
        BY <1>1, <3>1, <4>1
      <4>3. k = i
        BY <4>2 DEF Unique
      <4> QED
        BY <1>1, <4>1, <4>3
    <3> QED
      BY <3>1
  <2>6. Unique(all)
    <3>1. ASSUME NEW b \in 1 .. n + 1, NEW c \in 1 .. n + 1, all[b].key = all[c].key PROVE b = c
      <4>1. CASE b = n + 1 /\ c = n + 1
        BY <4>1
      <4>2. CASE b \in 1 .. n /\ c = n + 1
        BY <2>1, <2>5, <3>1, <4>2
      <4>3. CASE b = n + 1 /\ c \in 1 .. n
        BY <2>1, <2>5, <3>1, <4>3
      <4>4. CASE b \in 1 .. n /\ c \in 1 .. n
        <5>1. blocks[b].key = blocks[c].key
          BY <2>1, <3>1, <4>4
        <5>2. b \in DOMAIN blocks /\ c \in DOMAIN blocks /\ Unique(blocks)
          BY <2>2, <4>4 DEF PartOf
        <5> QED
          BY <5>1, <5>2 DEF Unique
      <4>5. b \in 1 .. n \/ b = n + 1
        BY <2>2
      <4>6. c \in 1 .. n \/ c = n + 1
        BY <2>2
      <4> QED
        BY <4>1, <4>2, <4>3, <4>4, <4>5, <4>6
    <3> QED
      BY <2>1, <3>1 DEF Unique
  <2>7. ASSUME n + 1 = i PROVE \A k \in 1 .. i : all[k] = list[k]
    <3>1. n = i - 1
      BY <1>1, <2>2, <2>7
    <3>2. \A k \in 1 .. i - 1 : blocks[k] = list[k]
      BY <3>1 DEF PartOf, n
    <3>3. ASSUME NEW k \in 1 .. i PROVE all[k] = list[k]
      <4>1. CASE k = i
        BY <2>1, <2>7, <4>1
      <4>2. CASE k # i
        <5>1. k \in 1 .. i - 1
          BY <1>1, <4>2
        <5> QED
          BY <2>1, <3>1, <3>2, <5>1
      <4> QED
        BY <4>1, <4>2
    <3> QED
      BY <3>3
  <2>8. n + 1 <= i
    BY <1>1, <2>2
  <2> QED
    BY <2>1, <2>4, <2>6, <2>7, <2>8 DEF PartOf, all
<1> QED
  BY <1>2, <1>3

\* What is written is a part of the list, and all of it when it has its length.
LEMMA SerializedLemma ==
  ASSUME NEW list \in Seq(Entries), Unique(list)
  PROVE  PartOf(Serialized(list), list, Len(list))
<1> DEFINE L == Len(list)
           Nothing == [size |-> 0, blocks |-> << >>]
           f == CHOOSE g : g = [i \in 0..L |-> IF i = 0 THEN [size |-> 0, blocks |-> << >>]
                                               ELSE WithBlock(g[i - 1], list[i])]
           Written == [size : Int, blocks : Seq(Entries)]
<1>1. L \in Nat /\ \A i \in 1 .. L : list[i] \in Entries
  OBVIOUS
<1>2. Serialized(list) = f[L].blocks
  BY DEF Serialized
<1>3. Nothing \in Written
  OBVIOUS
<1> HIDE DEF L
<1>4. \A before \in Written, e \in Entries :
        /\ WithBlock(before, e) \in Written
        /\ WithBlock(before, e).blocks \in {before.blocks, Append(before.blocks, e)}
  <2>1. ASSUME NEW before \in Written, NEW e \in Entries
        PROVE  /\ WithBlock(before, e) \in Written
               /\ WithBlock(before, e).blocks \in {before.blocks, Append(before.blocks, e)}
    <3>1. before.size + BlockSize(e) \in Int
      BY SizeLemma
    <3>2. Append(before.blocks, e) \in Seq(Entries)
      BY AppendProperties
    <3> QED
      BY <3>1, <3>2 DEF WithBlock
  <2> QED
    BY <2>1
<1>5. f = [i \in 0..L |-> IF i = 0 THEN Nothing ELSE WithBlock(f[i - 1], list[i])]
  <2> DEFINE step == [i \in 1 .. L |-> [r \in Written |-> WithBlock(r, list[i])]]
  <2>1. step \in [1 .. L -> [Written -> Written]]
    <3> HIDE DEF Written
    <3> QED
      BY <1>1, <1>4
  <2>2. PICK h : Recursion(h, L, Written, Nothing, step)
    <3> HIDE DEF step, Written, Nothing
    <3> QED
      BY <1>1, <1>3, <2>1, RecursionLemma
  <2> HIDE DEF Written
  <2>3. h = [i \in 0..L |-> IF i = 0 THEN Nothing ELSE WithBlock(h[i - 1], list[i])]
    <3>1. ASSUME NEW i \in 1 .. L PROVE h[i] = WithBlock(h[i - 1], list[i])
      <4>1. i - 1 \in 0 .. L
        BY <1>1
      <4>2. h[i] = step[i][h[i - 1]] /\ h[i - 1] \in Written
        <5> HIDE DEF step
        <5> QED
          BY <2>2, <4>1 DEF Recursion
      <4> QED
        BY <4>2
    <3>2. h[0] = Nothing /\ h \in [0 .. L -> Written]
      BY <2>2 DEF Recursion
    <3> HIDE DEF Nothing
    <3> QED
      BY <1>1, <3>1, <3>2
  <2> QED
    BY <2>3
<1> HIDE DEF f
<1>6. f[0] = Nothing /\ \A i \in 1 .. L : f[i] = WithBlock(f[i - 1], list[i])
  BY <1>1, <1>5
<1> DEFINE T == {i \in 0 .. L : f[i] \in Written /\ PartOf(f[i].blocks, list, i)}
<1>7. 0 \in T
  <2>1. f[0].blocks = << >> /\ f[0] \in Written
    <3> HIDE DEF Written
    <3> QED
      BY <1>3, <1>6
  <2>2. PartOf(<< >>, list, 0)
    BY DEF PartOf, Unique
  <2> HIDE DEF Written
  <2> QED
    BY <1>1, <2>1, <2>2
<1>8. ASSUME NEW i \in 1 .. L, i - 1 \in T PROVE i \in T
  <2>1. f[i - 1] \in Written /\ PartOf(f[i - 1].blocks, list, i - 1)
    BY <1>8
  <2>2. f[i] \in Written /\ f[i].blocks \in {f[i - 1].blocks, Append(f[i - 1].blocks, list[i])}
    <3> HIDE DEF Written
    <3> QED
      BY <1>1, <1>4, <1>6, <2>1
  <2>3. PartOf(f[i].blocks, list, i)
    <3>1. i \in 1 .. Len(list)
      BY DEF L
    <3>2. /\ PartOf(f[i - 1].blocks, list, i)
          /\ PartOf(Append(f[i - 1].blocks, list[i]), list, i)
      BY <2>1, <3>1, BlocksLemma
    <3> QED
      BY <2>2, <3>2
  <2> QED
    BY <2>2, <2>3
<1>9. \A i \in 0 .. L : i \in T
  <2> HIDE DEF T
  <2>1. \A i \in 1 .. L : i - 1 \in T => i \in T
    BY <1>8
  <2> QED
    BY <1>1, <1>7, <2>1, UpToLemma
<1> QED
  BY <1>1, <1>2, <1>9 DEF L

\* What may be missing when not all of a configuration fitted.
Holes(whole, s) == IF whole THEN {} ELSE {Missing(s)}

\* A commit keeps every value, or those that fit.
LEMMA KeptLemma ==
  ASSUME NEW list, Lists(list)
  PROVE  /\ Lists(Kept(list)) /\ AllFit(list) \in BOOLEAN
         /\ \A s \in DOMAIN Settings :
              GetFrom(Kept(list), s) \in {GetFrom(list, s)} \cup Holes(AllFit(list), s)
<1>1. CASE platform = "espidf"
  BY <1>1 DEF Kept, AllFit, Holes
<1>2. CASE platform # "espidf"
  <2> DEFINE blocks == Serialized(list)
  <2>1. Kept(list) = blocks /\ (AllFit(list) <=> Len(blocks) = Len(list)) /\ AllFit(list) \in BOOLEAN
    BY <1>2 DEF Kept, AllFit
  <2>2. list \in Seq(Entries) /\ Unique(list) /\ Len(list) \in Nat /\ DOMAIN list = 1 .. Len(list)
    BY DEF Lists
  <2>3. PartOf(blocks, list, Len(list))
    BY <2>2, SerializedLemma
  <2> HIDE DEF blocks
  <2>4. Lists(blocks)
    BY <2>3 DEF PartOf, Lists
  <2>5. ASSUME NEW s \in DOMAIN Settings
        PROVE  GetFrom(blocks, s) \in {GetFrom(list, s)} \cup Holes(AllFit(list), s)
    <3>1. CASE \E b \in DOMAIN blocks : blocks[b].key = s
      <4>1. PICK b \in DOMAIN blocks : blocks[b].key = s
        BY <3>1
      <4>2. PICK i \in DOMAIN list : blocks[b] = list[i]
        BY <2>2, <2>3, <4>1 DEF PartOf
      <4>3. GetFrom(blocks, s) = GetFrom(list, s)
        BY <2>4, <4>1, <4>2, GetLemma
      <4> QED
        BY <4>3
    <3>2. CASE \A b \in DOMAIN blocks : blocks[b].key # s
      <4>1. GetFrom(blocks, s) = Missing(s)
        BY <2>4, <3>2, GetLemma
      <4>2. CASE ~AllFit(list)
        BY <4>1, <4>2 DEF Holes
      <4>3. CASE AllFit(list)
        <5>1. Len(blocks) = Len(list) /\ DOMAIN blocks = DOMAIN list
          BY <2>1, <2>2, <4>3, <2>4 DEF Lists
        <5>2. \A i \in DOMAIN list : list[i].key # s
          BY <2>2, <2>3, <3>2, <5>1 DEF PartOf
        <5>3. GetFrom(list, s) = Missing(s)
          BY <5>2, GetLemma
        <5> QED
          BY <4>1, <5>3
      <4> QED
        BY <4>2, <4>3
    <3> QED
      BY <3>1, <3>2
  <2> QED
    BY <2>1, <2>4, <2>5
<1> QED
  BY <1>1, <1>2

-----------------------------------------------------------------------------
(***************************************************************************)
(* The configuration alone: its invariant, and each of its steps.          *)
(***************************************************************************)
\* The settings agree with what their setters were told, in the list and on the medium.
ConfigInv ==
  /\ running \in BOOLEAN /\ resetting \in BOOLEAN /\ fits \in BOOLEAN
  /\ resetting => running
  /\ made \in 0 .. MostIdentities
  /\ device \in [guid : Nat, authkey : Nat]
  /\ Lists(store) /\ Lists(flash)
  /\ stored \in Tellings /\ committed \in Tellings
  /\ running => Agree(store, stored)
  /\ \A s \in DOMAIN Settings : GetFrom(flash, s) \in committed[s] \cup Holes(fits, s)

\* What is missing of a setting is told of it at first.
LEMMA NothingLemma ==
  /\ Lists(<< >>)
  /\ [s \in DOMAIN Settings |-> {Missing(s)}] \in Tellings
  /\ Agree(<< >>, [s \in DOMAIN Settings |-> {Missing(s)}])
<1>1. Lists(<< >>)
  BY DEF Lists, Unique
<1>2. \A s \in DOMAIN Settings : Missing(s) \in AnyValue
  BY SettingsLemma DEF Missing, AnyValue
<1>3. \A s \in DOMAIN Settings : GetFrom(<< >>, s) = Missing(s)
  BY <1>1, GetLemma
<1> QED
  BY <1>1, <1>2, <1>3 DEF Tellings, Agree

\* A commit of a list that agrees with what was told.
LEMMA ConfigCommitLemma ==
  ASSUME NEW list, NEW told, Lists(list), told \in Tellings, Agree(list, told), CommitOf(list, told)
  PROVE  /\ Lists(flash') /\ committed' \in Tellings /\ fits' \in BOOLEAN
         /\ \A s \in DOMAIN Settings : GetFrom(flash', s) \in committed'[s] \cup Holes(fits', s)
<1>1. flash' = Kept(list) /\ committed' = told /\ fits' = AllFit(list)
  BY DEF CommitOf
<1>2. ASSUME NEW s \in DOMAIN Settings
      PROVE  GetFrom(Kept(list), s) \in told[s] \cup Holes(AllFit(list), s)
  BY KeptLemma DEF Agree
<1> QED
  BY <1>1, <1>2, KeptLemma

\* Any calls of setters, with a commit or without.
LEMMA ConfigureLemma ==
  ASSUME ConfigInv, running, NEW calls \in Seq(SetterCalls), NEW thenCommit, Configure(calls, thenCommit)
  PROVE  /\ Lists(store') /\ stored' \in Tellings /\ Agree(store', stored')
         /\ Lists(flash') /\ committed' \in Tellings /\ fits' \in BOOLEAN
         /\ \A s \in DOMAIN Settings : GetFrom(flash', s) \in committed'[s] \cup Holes(fits', s)
<1> DEFINE from == [list |-> store, told |-> stored]
           after == SetAll(from, calls)
<1>1. from \in Pairs
  BY DEF ConfigInv, Pairs, Lists
<1>2. after \in Pairs
  BY <1>1, SetAllLemma
<1>3. /\ store' = after.list /\ stored' = after.told
      /\ \/ CommitOf(after.list, after.told)
         \/ UNCHANGED <<flash, committed, fits>>
  BY DEF Configure, WithoutCommit
<1> HIDE DEF after
<1>4. Lists(after.list) /\ after.told \in Tellings /\ Agree(after.list, after.told)
  BY <1>2 DEF Pairs, Lists
<1>5. CASE CommitOf(after.list, after.told)
  BY <1>3, <1>4, <1>5, ConfigCommitLemma
<1>6. CASE UNCHANGED <<flash, committed, fits>>
  BY <1>3, <1>4, <1>6 DEF ConfigInv
<1> QED
  BY <1>3, <1>5, <1>6

\* A new or a stored identity of a device.
LEMMA BeginKeepsConfig == ConfigInv /\ Begin => ConfigInv'
<1> SUFFICES ASSUME ConfigInv, Begin PROVE ConfigInv'
  OBVIOUS
<1> DEFINE all == [s \in DOMAIN Settings |-> committed[s] \cup IF fits THEN {} ELSE {Missing(s)}]
           guid == GetFrom(flash, "guid")
           authkey == IF GetFrom(flash, "suplacommproto") = 1 THEN GetFrom(flash, "authkey") ELSE NotSet
           id == made + 1
           first == Put(flash, "guid", "blob", id)
           list == Put(first, "authkey", "blob", id)
           told == [all EXCEPT !.guid = {id}, !.authkey = {id}]
<1>1. all \in Tellings /\ Agree(flash, all) /\ Lists(flash)
  <2>1. \A s \in DOMAIN Settings : Missing(s) \in AnyValue
    BY SettingsLemma DEF Missing, AnyValue
  <2>2. committed \in Tellings /\ fits \in BOOLEAN /\ Lists(flash)
        /\ \A s \in DOMAIN Settings : GetFrom(flash, s) \in committed[s] \cup Holes(fits, s)
    BY DEF ConfigInv
  <2>3. all \in Tellings
    BY <2>1, <2>2 DEF Tellings
  <2>4. \A s \in DOMAIN Settings : all[s] = committed[s] \cup Holes(fits, s)
    BY DEF Holes
  <2> HIDE DEF all
  <2> QED
    BY <2>2, <2>3, <2>4 DEF Agree
<1>2. /\ running' = TRUE /\ resetting' = resetting /\ running = FALSE /\ resetting \in BOOLEAN
      /\ made \in 0 .. MostIdentities /\ fits \in BOOLEAN
  BY DEF ConfigInv, Begin
<1>3. CASE guid # NotSet /\ authkey # NotSet
  <2>1. /\ device' = [guid |-> guid, authkey |-> authkey]
        /\ store' = flash /\ stored' = all
        /\ UNCHANGED <<flash, committed, fits, made>>
    BY <1>3 DEF Begin
  <2>2. device' \in [guid : Nat, authkey : Nat]
    <3>1. /\ "guid" \in DOMAIN Settings /\ "authkey" \in DOMAIN Settings
          /\ Settings["guid"] = Blob /\ Settings["authkey"] = Blob
      BY SMTT(30) DEF Settings
    <3>2. Blob.type = "blob"
      BY DEF Blob
    <3>3. \A s \in {"guid", "authkey"} : GetFrom(flash, s) # NotSet => GetFrom(flash, s) \in Nat
      <4>1. ASSUME NEW s \in {"guid", "authkey"}, GetFrom(flash, s) # NotSet
            PROVE  GetFrom(flash, s) \in Nat
        <5>1. s \in DOMAIN Settings /\ Settings[s].type = "blob"
          BY <3>1, <3>2
        <5>2. Missing(s) = NotSet
          BY <5>1 DEF Missing
        <5>3. PICK i \in DOMAIN flash : flash[i].key = s
          BY <1>1, <4>1, <5>1, <5>2, GetLemma
        <5>4. Payloads(s) = Nat
          BY <5>1 DEF Payloads
        <5> QED
          BY <1>1, <5>1, <5>3, <5>4, GetLemma
      <4> QED
        BY <4>1
    <3> QED
      BY <1>3, <2>1, <3>3
  <2> HIDE DEF all
  <2>3. running' \in BOOLEAN /\ resetting' \in BOOLEAN /\ fits' \in BOOLEAN
        /\ (resetting' => running') /\ made' \in 0 .. MostIdentities
    BY <1>2, <2>1
  <2>4. Lists(store') /\ Lists(flash') /\ stored' \in Tellings /\ committed' \in Tellings
        /\ Agree(store', stored')
    BY <1>1, <2>1 DEF ConfigInv
  <2>5. \A s \in DOMAIN Settings : GetFrom(flash', s) \in committed'[s] \cup Holes(fits', s)
    BY <2>1 DEF ConfigInv
  <2> QED
    BY <2>2, <2>3, <2>4, <2>5 DEF ConfigInv
<1>4. CASE ~(guid # NotSet /\ authkey # NotSet)
  <2>1. /\ made < MostIdentities /\ made' = id
        /\ device' = [guid |-> id, authkey |-> id]
        /\ store' = list /\ stored' = told /\ CommitOf(list, told)
    BY <1>4 DEF Begin
  <2>2. id \in Nat /\ id \in 0 .. MostIdentities /\ id \in AnyValue
    BY <1>2, <2>1, ConfigAssumption DEF AnyValue
  <2>3. /\ "guid" \in DOMAIN Settings /\ "authkey" \in DOMAIN Settings
        /\ Settings["guid"] = Blob /\ Settings["authkey"] = Blob
    BY SMTT(30) DEF Settings
  <2>4. /\ [key |-> "guid", type |-> "blob", payload |-> id] \in Entries
        /\ [key |-> "authkey", type |-> "blob", payload |-> id] \in Entries
    <3>1. \A s \in {"guid", "authkey"} : Settings[s].type = "blob" /\ s \in DOMAIN Settings
      BY <2>3 DEF Blob
    <3>2. \A s \in {"guid", "authkey"} : Payloads(s) = Nat
      BY <3>1 DEF Payloads
    <3>3. Suits("blob", id)
      BY <2>2 DEF Suits
    <3> HIDE DEF id
    <3> QED
      BY <2>2, <3>1, <3>2, <3>3 DEF Entries, Types, Keys
  <2> HIDE DEF id
  <2>5. Lists(first) /\ GetFrom(first, "guid") = id
        /\ \A s \in DOMAIN Settings \ {"guid"} : GetFrom(first, s) = GetFrom(flash, s)
    BY <1>1, <2>3, <2>4, PutLemma
  <2> HIDE DEF first
  <2>6. Lists(list) /\ GetFrom(list, "authkey") = id
        /\ \A s \in DOMAIN Settings \ {"authkey"} : GetFrom(list, s) = GetFrom(first, s)
    BY <2>3, <2>4, <2>5, PutLemma
  <2> HIDE DEF list
  <2> HIDE DEF all
  <2>7. told \in Tellings /\ told["guid"] = {id} /\ told["authkey"] = {id}
        /\ \A s \in DOMAIN Settings \ {"guid", "authkey"} : told[s] = all[s]
    BY <1>1, <2>2, <2>3 DEF Tellings
  <2> HIDE DEF told
  <2>8. Agree(list, told)
    <3>1. ASSUME NEW s \in DOMAIN Settings PROVE GetFrom(list, s) \in told[s]
      <4>1. CASE s = "authkey"
        BY <2>6, <2>7, <4>1
      <4>2. CASE s = "guid"
        BY <2>5, <2>6, <2>7, <4>2
      <4>3. CASE s # "guid" /\ s # "authkey"
        BY <1>1, <2>5, <2>6, <2>7, <4>3 DEF Agree
      <4> QED
        BY <4>1, <4>2, <4>3
    <3> QED
      BY <3>1 DEF Agree
  <2>9. /\ Lists(flash') /\ committed' \in Tellings /\ fits' \in BOOLEAN
        /\ \A s \in DOMAIN Settings : GetFrom(flash', s) \in committed'[s] \cup Holes(fits', s)
    BY <2>1, <2>6, <2>7, <2>8, ConfigCommitLemma
  <2>10. Lists(store') /\ stored' \in Tellings /\ Agree(store', stored')
    BY <2>1, <2>6, <2>7, <2>8
  <2>11. device' \in [guid : Nat, authkey : Nat] /\ made' \in 0 .. MostIdentities
    BY <2>1, <2>2
  <2> QED
    BY <1>2, <2>9, <2>10, <2>11 DEF ConfigInv
<1> QED
  BY <1>3, <1>4

\* A step of the configuration that is not a start: what changes of it, in a few facts.
LEMMA OthersKeepConfig ==
  ConfigInv /\ (PowerFails \/ SoftRestart \/ RemoveAll \/ RestoreIdentity \/ SwUpdateEnds)
  => ConfigInv'
<1> SUFFICES ASSUME ConfigInv, PowerFails \/ SoftRestart \/ RemoveAll \/ RestoreIdentity \/ SwUpdateEnds
    PROVE  ConfigInv'
  OBVIOUS
<1>1. CASE PowerFails
  BY <1>1 DEF PowerFails, ConfigInv
<1>2. CASE SoftRestart
  <2>1. /\ running = TRUE /\ running' = FALSE /\ resetting = FALSE /\ CommitOf(store, stored)
        /\ UNCHANGED <<store, resetting, device, made, stored>>
    BY <1>2 DEF SoftRestart, ConfigInv
  <2>2. Lists(store) /\ stored \in Tellings /\ Agree(store, stored)
    BY <2>1 DEF ConfigInv
  <2>3. /\ Lists(flash') /\ committed' \in Tellings /\ fits' \in BOOLEAN
        /\ \A s \in DOMAIN Settings : GetFrom(flash', s) \in committed'[s] \cup Holes(fits', s)
    BY <2>1, <2>2, ConfigCommitLemma
  <2> QED
    BY <2>1, <2>3 DEF ConfigInv
<1>3. CASE RemoveAll
  <2> DEFINE told == [s \in DOMAIN Settings |-> {Missing(s)}]
  <2>1. /\ running = TRUE /\ resetting' = TRUE /\ store' = << >> /\ stored' = told
        /\ CommitOf(<< >>, told) /\ UNCHANGED <<running, device, made>>
    BY <1>3 DEF RemoveAll, ConfigInv
  <2>2. Lists(<< >>) /\ told \in Tellings /\ Agree(<< >>, told)
    BY NothingLemma
  <2> HIDE DEF told
  <2>3. /\ Lists(flash') /\ committed' \in Tellings /\ fits' \in BOOLEAN
        /\ \A s \in DOMAIN Settings : GetFrom(flash', s) \in committed'[s] \cup Holes(fits', s)
    BY <2>1, <2>2, ConfigCommitLemma
  <2>4. Lists(store') /\ stored' \in Tellings /\ Agree(store', stored')
    BY <2>1, <2>2
  <2> QED
    BY <2>1, <2>3, <2>4 DEF ConfigInv
<1>4. CASE RestoreIdentity
  <2> DEFINE calls == <<<<"guid", device.guid>>, <<"authkey", device.authkey>>>>
  <2>1. /\ resetting' = FALSE /\ running /\ Configure(calls, TRUE)
        /\ UNCHANGED <<running, device, made>>
    BY <1>4 DEF RestoreIdentity, ConfigInv
  <2>2. device.guid \in Nat /\ device.authkey \in Nat
    BY DEF ConfigInv
  <2>3. calls \in Seq(SetterCalls)
    <3>1. /\ "guid" \in DOMAIN Settings /\ "authkey" \in DOMAIN Settings
          /\ Settings["guid"] = Blob /\ Settings["authkey"] = Blob
      BY SMTT(30) DEF Settings
    <3>2. Arguments("guid") = Nat /\ Arguments("authkey") = Nat
      BY <3>1 DEF Arguments, Blob
    <3>3. <<"guid", device.guid>> \in SetterCalls /\ <<"authkey", device.authkey>> \in SetterCalls
      BY <2>2, <3>1, <3>2 DEF SetterCalls
    <3> QED
      BY <3>3
  <2> HIDE DEF calls
  <2>4. /\ Lists(store') /\ stored' \in Tellings /\ Agree(store', stored')
        /\ Lists(flash') /\ committed' \in Tellings /\ fits' \in BOOLEAN
        /\ \A s \in DOMAIN Settings : GetFrom(flash', s) \in committed'[s] \cup Holes(fits', s)
    BY <2>1, <2>3, ConfigureLemma
  <2> QED
    BY <2>1, <2>4 DEF ConfigInv
<1>5. CASE SwUpdateEnds
  <2> DEFINE calls == <<<<"devicemode", 2>>, <<"swupdatebeta", 0>>>>
  <2>1. /\ running /\ Configure(calls, TRUE)
        /\ UNCHANGED <<running, resetting, device, made>>
    BY <1>5 DEF SwUpdateEnds, ConfigInv
  <2>2. calls \in Seq(SetterCalls)
    <3>1. /\ "devicemode" \in DOMAIN Settings /\ "swupdatebeta" \in DOMAIN Settings
          /\ Settings["devicemode"] = Number(0, 0..4) /\ Settings["swupdatebeta"] = Flag(0)
      BY SMTT(30) DEF Settings
    <3>2. Arguments("devicemode") = 0..4 /\ Arguments("swupdatebeta") = 0..1
      BY <3>1 DEF Arguments, Number, Flag, Ports
    <3>3. <<"devicemode", 2>> \in SetterCalls /\ <<"swupdatebeta", 0>> \in SetterCalls
      BY <3>1, <3>2 DEF SetterCalls
    <3> QED
      BY <3>3
  <2> HIDE DEF calls
  <2>3. /\ Lists(store') /\ stored' \in Tellings /\ Agree(store', stored')
        /\ Lists(flash') /\ committed' \in Tellings /\ fits' \in BOOLEAN
        /\ \A s \in DOMAIN Settings : GetFrom(flash', s) \in committed'[s] \cup Holes(fits', s)
    BY <2>1, <2>2, ConfigureLemma
  <2> QED
    BY <2>1, <2>3 DEF ConfigInv
<1> QED
  BY <1>1, <1>2, <1>3, <1>4, <1>5

\* A value of an application is not a setting.
LEMMA CustomKeepsConfig ==
  ASSUME ConfigInv, NEW c \in CustomValues, SetCustom(c[1], c[2])
  PROVE  ConfigInv'
<1>1. Suits(c[1], c[2])
  BY ConfigAssumption, CellsLemma DEF Typed, Suits
<1>2. [key |-> "custom", type |-> c[1], payload |-> c[2]] \in Entries
  <2>1. c[1] \in Types /\ c[2] \in Strings \cup Int
    BY <1>1 DEF Suits, Types
  <2>2. "custom" \in Keys /\ "custom" \notin DOMAIN Settings
    BY SettingsLemma DEF Keys
  <2> QED
    BY <1>1, <2>1, <2>2 DEF Entries
<1> DEFINE list == Put(store, "custom", c[1], c[2])
<1>3. /\ Lists(list)
      /\ \A s \in DOMAIN Settings \ {"custom"} : GetFrom(list, s) = GetFrom(store, s)
  BY <1>2, PutLemma DEF ConfigInv
<1>4. \A s \in DOMAIN Settings : GetFrom(list, s) = GetFrom(store, s)
  BY <1>3, SettingsLemma
<1>5. /\ store' = list
      /\ UNCHANGED <<running, flash, resetting, device, made, stored, committed, fits>>
  BY DEF SetCustom
<1> HIDE DEF list
<1>6. Lists(store') /\ (running' => Agree(store', stored'))
  BY <1>3, <1>4, <1>5 DEF ConfigInv, Agree
<1> QED
  BY <1>5, <1>6 DEF ConfigInv

\* Every step keeps it, and it says what the settings are checked for.
LEMMA ConfigNextKeeps == ConfigInv /\ [ConfigNext]_configVars => ConfigInv'
<1>1. ASSUME ConfigInv, UNCHANGED configVars PROVE ConfigInv'
  BY <1>1 DEF ConfigInv, configVars
<1> QED
  BY <1>1, BeginKeepsConfig, OthersKeepConfig, CustomKeepsConfig DEF ConfigNext

LEMMA ConfigInitLemma == ConfigInit => ConfigInv
<1> SUFFICES ASSUME ConfigInit PROVE ConfigInv
  OBVIOUS
<1>1. /\ running = FALSE /\ resetting = FALSE /\ fits = TRUE /\ made = 0
      /\ store = << >> /\ flash = << >> /\ device = [guid |-> 0, authkey |-> 0]
      /\ stored = [s \in DOMAIN Settings |-> {Missing(s)}] /\ committed = stored
  BY DEF ConfigInit
<1>2. /\ Lists(store) /\ Lists(flash) /\ stored \in Tellings /\ committed \in Tellings
      /\ Agree(flash, committed)
  BY <1>1, NothingLemma
<1>3. made \in 0 .. MostIdentities
  BY <1>1, ConfigAssumption
<1> QED
  BY <1>1, <1>2, <1>3 DEF ConfigInv, Agree

LEMMA ConfigImplies == ConfigInv => SettingsSurvive /\ ConfigTypeOK
<1> SUFFICES ASSUME ConfigInv PROVE SettingsSurvive /\ ConfigTypeOK
  OBVIOUS
<1>1. SettingsSurvive
  BY DEF ConfigInv, SettingsSurvive, Agree, Get
<1>2. Unique(store) /\ Unique(flash)
  BY DEF ConfigInv, Lists
<1>3. ConfigTypeOK
  BY <1>2 DEF ConfigInv, ConfigTypeOK, Unique
<1> QED
  BY <1>1, <1>3

-----------------------------------------------------------------------------
(***************************************************************************)
(* The form: what it is made of and what the parser makes of it.           *)
(***************************************************************************)
Fields == Seq(Cells \X Strings)
Parsers ==
  [key : Strings, value : Strings, keyFound : BOOLEAN, partialSize : Nat, since : Nat \ {0},
   fields : Fields, at : Nat]

\* A part of a sequence, wherever it begins.
LEMMA SubSeqLemma ==
  ASSUME NEW S, NEW s \in Seq(S), NEW m \in Nat \ {0}, NEW n \in Int, n <= Len(s)
  PROVE  SubSeq(s, m, n) \in Seq(S)
<1>1. CASE n < m
  BY <1>1
<1>2. CASE n >= m
  BY <1>2
<1> QED
  BY <1>1, <1>2

\* The digits are characters and stand for numbers.
LEMMA DigitLemma ==
  /\ \A d \in DOMAIN Digit : Digit[d] \in 0 .. 9
  /\ \A n \in 0 .. 9 : Digits[n + 1] \in Cells
<1>1. DOMAIN Digits = 1 .. 10 /\ \A i \in 1 .. 10 : Digits[i] \in Cells
  <2>1. DOMAIN Digits = 1 .. 10 /\ Len(Digits) = 10
    BY DEF Digits
  <2>2. /\ Digits[1] \in Cells /\ Digits[2] \in Cells /\ Digits[3] \in Cells
        /\ Digits[4] \in Cells /\ Digits[5] \in Cells /\ Digits[6] \in Cells
        /\ Digits[7] \in Cells /\ Digits[8] \in Cells /\ Digits[9] \in Cells
        /\ Digits[10] \in Cells
    BY CellsLemma DEF Digits, Named
  <2> QED
    BY <2>1, <2>2
<1>2. ASSUME NEW d \in DOMAIN Digit PROVE Digit[d] \in 0 .. 9
  <2>1. Digit[d] = CHOOSE n \in 0 .. 9 : Digits[n + 1] = d
    BY DEF Digit
  <2>2. PICK i \in 1 .. 10 : Digits[i] = d
    BY <1>1 DEF Digit, Range
  <2>3. i - 1 \in 0 .. 9 /\ Digits[(i - 1) + 1] = d
    BY <2>2
  <2> QED
    BY <2>1, <2>3
<1>3. ASSUME NEW n \in 0 .. 9 PROVE Digits[n + 1] \in Cells
  BY <1>1
<1> QED
  BY <1>2, <1>3

\* A text is read as a number, a number is shown as a text.
LEMMA NumberLemma == ASSUME NEW text \in Strings PROVE NumberIn(text) \in Nat
<1>1. CASE \E i \in DOMAIN text : text[i] \notin DOMAIN Digit
  BY <1>1 DEF NumberIn
<1>2. CASE \A i \in DOMAIN text : text[i] \in DOMAIN Digit
  <2> DEFINE L == Len(text)
             f == CHOOSE g : g = [i \in 0..L |-> IF i = 0 THEN 0 ELSE 10 * g[i - 1] + Digit[text[i]]]
  <2>1. L \in Nat /\ \A i \in 1 .. L : Digit[text[i]] \in Nat
    BY <1>2, DigitLemma DEF Strings
  <2>2. NumberIn(text) = f[L]
    BY <1>2 DEF NumberIn
  <2> HIDE DEF L
  <2>3. f = [i \in 0..L |-> IF i = 0 THEN 0 ELSE 10 * f[i - 1] + Digit[text[i]]]
    <3> DEFINE step == [i \in 1 .. L |-> [n \in Nat |-> 10 * n + Digit[text[i]]]]
    <3>1. step \in [1 .. L -> [Nat -> Nat]]
      BY <2>1
    <3>2. PICK h : Recursion(h, L, Nat, 0, step)
      <4> HIDE DEF step
      <4> QED
        BY <2>1, <3>1, RecursionLemma
    <3>3. h = [i \in 0..L |-> IF i = 0 THEN 0 ELSE 10 * h[i - 1] + Digit[text[i]]]
      <4>1. ASSUME NEW i \in 1 .. L PROVE h[i] = 10 * h[i - 1] + Digit[text[i]]
        <5>1. i - 1 \in 0 .. L
          BY <2>1
        <5>2. h[i] = step[i][h[i - 1]] /\ h[i - 1] \in Nat
          <6> HIDE DEF step
          <6> QED
            BY <3>2, <5>1 DEF Recursion
        <5> QED
          BY <5>2
      <4>2. h[0] = 0 /\ h \in [0 .. L -> Nat]
        BY <3>2 DEF Recursion
      <4> QED
        BY <2>1, <4>1, <4>2
    <3> QED
      BY <3>3
  <2> HIDE DEF f
  <2>4. f[0] = 0 /\ \A i \in 1 .. L : f[i] = 10 * f[i - 1] + Digit[text[i]]
    BY <2>1, <2>3
  <2> DEFINE T == {i \in 0 .. L : f[i] \in Nat}
  <2>5. 0 \in T /\ \A i \in 1 .. L : i - 1 \in T => i \in T
    BY <2>1, <2>4
  <2>6. \A i \in 0 .. L : i \in T
    <3> HIDE DEF T
    <3> QED
      BY <2>1, <2>5, UpToLemma
  <2> QED
    BY <2>1, <2>2, <2>6
<1> QED
  BY <1>1, <1>2

LEMMA ShownLemma == ASSUME NEW n \in Int PROVE Shown(n) \in Strings
<1> DEFINE marks == {k \in DOMAIN Powers : k = 1 \/ n >= Powers[k]}
           long == Cardinality(marks)
<1>1. DOMAIN Powers = 1 .. 5 /\ \A k \in 1 .. 5 : Powers[k] \in Nat \ {0}
  BY DEF Powers
<1>2. long \in 0 .. 5
  <2>1. marks \subseteq 1 .. 5
    BY <1>1
  <2>2. IsFiniteSet(1 .. 5) /\ Cardinality(1 .. 5) = 5
    <3>1. \A a, b \in Int :
            IsFiniteSet(a .. b) /\ Cardinality(a .. b) = IF a > b THEN 0 ELSE b - a + 1
      BY FS_Interval, Zenon
    <3>2. 1 \in Int /\ 5 \in Int /\ ~(1 > 5) /\ 5 - 1 + 1 = 5
      OBVIOUS
    <3>3. IsFiniteSet(1 .. 5) /\ Cardinality(1 .. 5) = IF 1 > 5 THEN 0 ELSE 5 - 1 + 1
      BY <3>1, <3>2, Zenon
    <3> QED
      BY <3>2, <3>3, Zenon
  <2> HIDE DEF marks
  <2>3. IsFiniteSet(marks) /\ Cardinality(marks) <= 5
    BY <2>1, <2>2, FS_Subset
  <2> QED
    BY <2>3, FS_CardinalityType
<1> HIDE DEF long
<1>3. Shown(n) = [i \in 1..long |-> Digits[((n \div Powers[long - i + 1]) % 10) + 1]]
  BY DEF Shown, long
<1>4. ASSUME NEW i \in 1 .. long PROVE Digits[((n \div Powers[long - i + 1]) % 10) + 1] \in Cells
  <2>1. long - i + 1 \in 1 .. 5
    BY <1>2
  <2>2. Powers[long - i + 1] \in Nat \ {0}
    BY <1>1, <2>1
  <2>3. (n \div Powers[long - i + 1]) \in Int
    BY <2>2
  <2>4. ((n \div Powers[long - i + 1]) % 10) \in 0 .. 9
    BY <2>3
  <2> QED
    BY <2>4, DigitLemma
<1> QED
  BY <1>2, <1>3, <1>4 DEF Strings

\* A text that is encoded, and a part of one that is decoded, are texts.
LEMMA EncodedLemma == ASSUME NEW text \in Strings PROVE Encoded(text) \in Strings
<1> DEFINE cells == [i \in DOMAIN text |->
                       CASE text[i] = " " -> <<"+">>
                         [] text[i] \in Escapes -> EscapeOf(text[i])
                         [] OTHER -> <<text[i]>>]
<1>1. text \in Seq(Cells)
  BY DEF Strings
<1>2. \A c : EscapeOf(c) \in Seq(Cells)
  <2>1. {"%", "2", "6", "3", "B", "C", "D"} \subseteq Cells
    BY CellsLemma DEF Named
  <2>2. {<<"%", "2", "6">>, <<"%", "3", "D">>, <<"%", "3", "B">>, <<"%", "3", "C">>,
         <<"%", "2", "2">>} \subseteq Seq(Cells)
    BY <2>1
  <2>3. ASSUME NEW c
        PROVE  EscapeOf(c) \in {<<"%", "2", "6">>, <<"%", "3", "D">>, <<"%", "3", "B">>,
                                <<"%", "3", "C">>, <<"%", "2", "2">>}
    BY Zenon DEF EscapeOf
  <2> QED
    BY <2>2, <2>3, Zenon
<1>3. " " \notin Escapes
  BY DEF Escapes, Quote
<1>4. ASSUME NEW i \in DOMAIN text PROVE cells[i] \in Seq(Cells)
  <2>1. CASE text[i] = " "
    <3>1. cells[i] = <<"+">>
      BY <1>3, <2>1
    <3>2. "+" \in Cells
      BY CellsLemma DEF Named
    <3>3. <<"+">> \in Seq(Cells)
      BY <3>2
    <3> HIDE DEF cells
    <3> QED
      BY <3>1, <3>3
  <2>2. CASE text[i] \in Escapes
    <3>1. cells[i] = EscapeOf(text[i])
      BY <1>3, <2>2
    <3> HIDE DEF cells
    <3> QED
      BY <1>2, <3>1
  <2>3. CASE text[i] # " " /\ text[i] \notin Escapes
    <3>1. cells[i] = <<text[i]>>
      BY <2>3
    <3>2. text[i] \in Cells
      BY <1>1
    <3>3. <<text[i]>> \in Seq(Cells)
      BY <3>2
    <3> HIDE DEF cells
    <3> QED
      BY <3>1, <3>3
  <2> QED
    BY <2>1, <2>2, <2>3
<1>5. cells \in Seq(Seq(Cells))
  <2>1. DOMAIN cells = 1 .. Len(text) /\ Len(text) \in Nat
    BY <1>1
  <2>2. \A i \in 1 .. Len(text) : cells[i] \in Seq(Cells)
    <3> HIDE DEF cells
    <3>1. DOMAIN text = 1 .. Len(text)
      BY <1>1
    <3> QED
      BY <1>4, <3>1
  <2>3. cells = [i \in 1 .. Len(text) |-> cells[i]]
    BY <2>1
  <2> HIDE DEF cells
  <2> QED
    BY <2>1, <2>2, <2>3
<1>6. Encoded(text) = FlattenSeq(cells)
  BY DEF Encoded
<1> HIDE DEF cells
<1> QED
  BY <1>5, <1>6, FlattenLemma DEF Strings

LEMMA DecodedLemma == ASSUME NEW cells \in Strings PROVE Decoded(cells) \in Strings
<1> DEFINE texts == [i \in DOMAIN cells |->
                       IF InEscape(cells, i) \/ (i = Len(cells) /\ cells[i] = "%") THEN << >>
                       ELSE <<Character(cells, i)>>]
<1>1. cells \in Seq(Cells)
  BY DEF Strings
<1>2. ASSUME NEW i \in DOMAIN cells PROVE Character(cells, i) \in Cells
  <2>1. cells[i] \in Cells
    BY <1>1
  <2>2. {" ", "?", "&", "=", ";", "<", "quote"} \subseteq Cells
    BY CellsLemma DEF Named
  <2> DEFINE meant == {c \in Escapes : EscapeOf(c) = SubSeq(cells, i, Least(i + 2, Len(cells)))}
  <2>3. meant # {} => (CHOOSE c \in meant : TRUE) \in Cells
    <3>1. meant \subseteq Cells
      BY <2>2 DEF Escapes, Quote
    <3> HIDE DEF meant
    <3> QED
      BY <3>1
  <2>4. Character(cells, i) =
          CASE cells[i] = "+" -> " "
            [] cells[i] = "%" -> IF meant = {} THEN "?" ELSE CHOOSE c \in meant : TRUE
            [] OTHER -> cells[i]
    BY DEF Character
  <2> HIDE DEF meant
  <2>5. CASE cells[i] = "+"
    BY <2>2, <2>4, <2>5
  <2>6. CASE cells[i] = "%"
    BY <2>2, <2>3, <2>4, <2>6
  <2>7. CASE cells[i] # "+" /\ cells[i] # "%"
    BY <2>1, <2>4, <2>7
  <2> QED
    BY <2>5, <2>6, <2>7
<1>3. ASSUME NEW i \in DOMAIN cells PROVE texts[i] \in Seq(Cells)
  <2>1. Character(cells, i) \in Cells
    BY <1>2
  <2>2. texts[i] \in {<< >>, <<Character(cells, i)>>}
    OBVIOUS
  <2>3. <<Character(cells, i)>> \in Seq(Cells) /\ << >> \in Seq(Cells)
    BY <2>1
  <2> HIDE DEF texts
  <2> QED
    BY <2>2, <2>3
<1>4. texts \in Seq(Seq(Cells))
  <2>1. DOMAIN texts = 1 .. Len(cells) /\ Len(cells) \in Nat
    BY <1>1
  <2>2. \A i \in 1 .. Len(cells) : texts[i] \in Seq(Cells)
    BY <1>1, <1>3
  <2>3. texts = [i \in 1 .. Len(cells) |-> texts[i]]
    BY <2>1
  <2> HIDE DEF texts
  <2> QED
    BY <2>1, <2>2, <2>3
<1>5. Decoded(cells) = FlattenSeq(texts)
  BY DEF Decoded
<1> HIDE DEF texts
<1> QED
  BY <1>4, <1>5, FlattenLemma DEF Strings

\* The body of a form that has a field is not empty.
LEMMA BodyLemma ==
  ASSUME NEW form \in Fields, form # << >>
  PROVE  BodyOf(form) \in Strings /\ BodyOf(form) # << >>
<1> DEFINE Cell(i) == (IF i = 1 THEN << >> ELSE <<"&">>) \o NameCells(form[i][1]) \o <<"=">>
                      \o Encoded(form[i][2])
           cells == [i \in DOMAIN form |-> Cell(i)]
<1>1. /\ Len(form) \in Nat \ {0} /\ DOMAIN form = 1 .. Len(form)
      /\ \A i \in 1 .. Len(form) : form[i][1] \in Cells /\ form[i][2] \in Strings
  BY DEF Fields
<1>2. ASSUME NEW i \in 1 .. Len(form) PROVE Cell(i) \in Seq(Cells) /\ Len(Cell(i)) >= 1
  <2>1. Encoded(form[i][2]) \in Seq(Cells)
    BY <1>1, EncodedLemma DEF Strings
  <2>2. NameCells(form[i][1]) \in Seq(Cells) /\ Len(NameCells(form[i][1])) = 2
    <3>1. ".." \in Cells
      BY CellsLemma DEF Named
    <3> QED
      BY <1>1, <3>1 DEF NameCells
  <2>3. <<"=">> \in Seq(Cells) /\ (IF i = 1 THEN << >> ELSE <<"&">>) \in Seq(Cells)
    <3>1. "=" \in Cells /\ "&" \in Cells
      BY CellsLemma DEF Named
    <3> QED
      BY <3>1
  <2>4. \A a, b, c, d \in Seq(Cells) :
          Len(b) = 2 => a \o b \o c \o d \in Seq(Cells) /\ Len(a \o b \o c \o d) >= 1
    OBVIOUS
  <2> QED
    BY <2>1, <2>2, <2>3, <2>4, Zenon
<1>3. BodyOf(form) = FlattenSeq(cells)
  BY DEF BodyOf
<1>4. DOMAIN cells = 1 .. Len(form) /\ \A i \in 1 .. Len(form) : cells[i] = Cell(i)
  BY <1>1
<1> HIDE DEF Cell
<1>5. cells = [i \in 1 .. Len(form) |-> cells[i]]
  BY <1>4
<1> HIDE DEF cells
<1>6. cells \in Seq(Seq(Cells)) /\ cells # << >> /\ Len(cells[1]) >= 1
  BY <1>1, <1>2, <1>4, <1>5
<1>7. FlattenSeq(cells) \in Seq(Cells) /\ Len(FlattenSeq(cells)) >= 1
  <2>1. cells[1] \in Seq(Cells)
    BY <1>1, <1>2, <1>4
  <2>2. FlattenSeq(cells) \in Seq(Cells) /\ Len(FlattenSeq(cells)) >= Len(cells[1])
    BY <1>6, FlattenLemma
  <2>3. Len(FlattenSeq(cells)) \in Nat /\ Len(cells[1]) \in Nat
    BY <2>1, <2>2
  <2> QED
    BY <1>6, <2>2, <2>3
<1> QED
  BY <1>3, <1>7 DEF Strings

\* The settings of the fields have the types that the fields give.
LEMMA FieldsLemma ==
  /\ \A name \in DOMAIN TextFields :
       TextFields[name] \in DOMAIN Settings /\ Arguments(TextFields[name]) = Strings
  /\ \A name \in DOMAIN FieldsKeptWhenEmpty :
       /\ FieldsKeptWhenEmpty[name] \in DOMAIN Settings
       /\ Arguments(FieldsKeptWhenEmpty[name]) = Strings
  /\ \A name \in DOMAIN FlagFields :
       FlagFields[name] \in DOMAIN Settings /\ Arguments(FlagFields[name]) = 0 .. 1
  /\ \A name \in DOMAIN NumberFields :
       NumberFields[name] \in DOMAIN Settings /\ Arguments(NumberFields[name]) = Nat
  /\ \A s \in {"suplacommproto", "mqttcommproto", "swupdatebeta"} :
       s \in DOMAIN Settings /\ Arguments(s) = 0 .. 1
  /\ "devicemode" \in DOMAIN Settings /\ Arguments("devicemode") = 0 .. 4
  /\ "statusled" \in DOMAIN Settings /\ Arguments("statusled") = 0 .. 2
<1>1. \A s \in {"wifissid", "suplaserver", "email", "mqttserver", "mqttuser", "mqttprefix",
        "wifipasswd", "mqttpasswd", "swupdateurl"} : s \in DOMAIN Settings /\ Settings[s].type = "string"
  <2>1. Settings["wifissid"] = Text(32) /\ Settings["suplaserver"] = Text(65)
        /\ Settings["email"] = Text(256) /\ Settings["mqttserver"] = Text(65)
        /\ Settings["mqttuser"] = Text(23)
    BY SMTT(30) DEF Settings
  <2>2. Settings["mqttprefix"] = Text(49) /\ Settings["wifipasswd"] = Text(64)
        /\ Settings["mqttpasswd"] = Text(33) /\ Settings["swupdateurl"] = Text(202)
    BY SMTT(30) DEF Settings
  <2>3. \A s \in {"wifissid", "suplaserver", "email", "mqttserver", "mqttuser", "mqttprefix",
          "wifipasswd", "mqttpasswd", "swupdateurl"} : s \in DOMAIN Settings
    BY SMTT(30) DEF Settings
  <2>4. \A max : Text(max).type = "string"
    BY DEF Text
  <2> QED
    BY <2>1, <2>2, <2>3, <2>4
<1>2. \A s \in {"mqtttls", "mqttauth", "mqttretain", "suplacommproto", "mqttcommproto",
        "swupdatebeta"} : s \in DOMAIN Settings /\ Settings[s].type = "int8" /\ Settings[s].values = 0 .. 1
  <2>1. Settings["mqtttls"] = Flag(0) /\ Settings["mqttauth"] = Flag(1)
        /\ Settings["mqttretain"] = Flag(1) /\ Settings["suplacommproto"] = Flag(1)
        /\ Settings["mqttcommproto"] = Flag(0) /\ Settings["swupdatebeta"] = Flag(0)
    BY SMTT(30) DEF Settings
  <2>2. \A s \in {"mqtttls", "mqttauth", "mqttretain", "suplacommproto", "mqttcommproto",
          "swupdatebeta"} : s \in DOMAIN Settings
    BY SMTT(30) DEF Settings
  <2>3. \A n : Flag(n).type = "int8" /\ Flag(n).values = 0 .. 1
    BY DEF Flag
  <2> QED
    BY <2>1, <2>2, <2>3
<1>3. \A s \in {"mqttport", "mqttqos", "mqttpooldelay"} :
        s \in DOMAIN Settings /\ Settings[s].type # "string" /\ Settings[s].type # "blob"
  <2>1. \A s \in {"mqttport", "mqttqos", "mqttpooldelay"} : s \in DOMAIN Settings
    BY SMTT(30) DEF Settings
  <2> QED
    BY <2>1, PlacesOfSettings DEF Ports
<1>4. /\ "devicemode" \in DOMAIN Settings /\ Settings["devicemode"] = Number(0, 0 .. 4)
      /\ "statusled" \in DOMAIN Settings /\ Settings["statusled"] = [Flag(0) EXCEPT !.values = 0 .. 2]
  BY SMTT(30) DEF Settings
<1>5. Settings["devicemode"].type = "int32" /\ Settings["devicemode"].values = 0 .. 4
  BY <1>4 DEF Number
<1>6. Settings["statusled"].type = "int8" /\ Settings["statusled"].values = 0 .. 2
  BY <1>4 DEF Flag
<1>7. \A s \in DOMAIN Settings :
        /\ Settings[s].type = "string" => Arguments(s) = Strings
        /\ /\ Settings[s].type # "string" /\ Settings[s].type # "blob"
           /\ s \notin {"suplaport", "mqttport", "mqttqos", "mqttpooldelay"}
           => Arguments(s) = Settings[s].values
        /\ /\ Settings[s].type # "string" /\ Settings[s].type # "blob"
           /\ s \in {"mqttport", "mqttqos", "mqttpooldelay"}
           => Arguments(s) = Nat
  <2> SUFFICES ASSUME NEW s \in DOMAIN Settings
      PROVE  /\ Settings[s].type = "string" => Arguments(s) = Strings
             /\ /\ Settings[s].type # "string" /\ Settings[s].type # "blob"
                /\ s \notin {"suplaport", "mqttport", "mqttqos", "mqttpooldelay"}
                => Arguments(s) = Settings[s].values
             /\ /\ Settings[s].type # "string" /\ Settings[s].type # "blob"
                /\ s \in {"mqttport", "mqttqos", "mqttpooldelay"}
                => Arguments(s) = Nat
    OBVIOUS
  <2>1. CASE Settings[s].type = "string"
    BY <2>1, PlacesOfSettings DEF Arguments
  <2>2. CASE Settings[s].type # "string"
    BY <2>2 DEF Arguments, Ports
  <2> QED
    BY <2>1, <2>2
<1>8. \A name \in DOMAIN TextFields :
        TextFields[name] \in DOMAIN Settings /\ Settings[TextFields[name]].type = "string"
  BY <1>1 DEF TextFields
<1>9. \A name \in DOMAIN FieldsKeptWhenEmpty :
        /\ FieldsKeptWhenEmpty[name] \in DOMAIN Settings
        /\ Settings[FieldsKeptWhenEmpty[name]].type = "string"
  BY <1>1 DEF FieldsKeptWhenEmpty
<1>10. \A name \in DOMAIN FlagFields : FlagFields[name] \in {"mqtttls", "mqttauth", "mqttretain"}
  BY DEF FlagFields
<1>11. \A name \in DOMAIN NumberFields :
         NumberFields[name] \in {"mqttport", "mqttqos", "mqttpooldelay"}
  BY DEF NumberFields
<1>12. \A s \in {"mqtttls", "mqttauth", "mqttretain", "suplacommproto", "mqttcommproto", "swupdatebeta"} :
         Arguments(s) = 0 .. 1
  BY <1>2, <1>7
<1>13. \A s \in {"mqttport", "mqttqos", "mqttpooldelay"} : Arguments(s) = Nat
  BY <1>3, <1>7
<1>14. Arguments("devicemode") = 0 .. 4 /\ Arguments("statusled") = 0 .. 2
  BY <1>4, <1>5, <1>6, <1>7
<1>15. \A name \in DOMAIN TextFields : Arguments(TextFields[name]) = Strings
  BY <1>7, <1>8
<1>16. \A name \in DOMAIN FieldsKeptWhenEmpty : Arguments(FieldsKeptWhenEmpty[name]) = Strings
  BY <1>7, <1>9
<1> QED
  BY <1>2, <1>3, <1>4, <1>8, <1>9, <1>10, <1>11, <1>12, <1>13, <1>14, <1>15, <1>16

\* What a field calls are setters, with what they take.
LEMMA ResponseLemma ==
  ASSUME NEW name, NEW text \in Strings
  PROVE  HandleResponse(name, text) \in Seq(SetterCalls)
<1>1. NumberIn(text) \in Nat
  BY NumberLemma
<1>2. \A s \in DOMAIN Settings : \A value \in Arguments(s) : <<<<s, value>>>> \in Seq(SetterCalls)
  <2>1. ASSUME NEW s \in DOMAIN Settings, NEW value \in Arguments(s)
        PROVE  <<<<s, value>>>> \in Seq(SetterCalls)
    <3>1. <<s, value>> \in SetterCalls
      BY DEF SetterCalls
    <3> QED
      BY <3>1
  <2> QED
    BY <2>1
<1>3. \A c : Bit(c) \in 0 .. 1
  BY DEF Bit
<1>4. /\ DOMAIN TextFields = {"sid", "svr", "eml", "mqttserver", "mqttuser", "mqttprefix"}
      /\ DOMAIN FieldsKeptWhenEmpty = {"wpw", "mqttpasswd", "swupdateurl"}
      /\ DOMAIN FlagFields = {"mqtttls", "mqttauth", "mqttretain"}
      /\ DOMAIN NumberFields = {"mqttport", "mqttqos", "mqttpooldelay"}
  BY DEF TextFields, FieldsKeptWhenEmpty, FlagFields, NumberFields
<1>5. CASE name \in DOMAIN TextFields
  <2>1. HandleResponse(name, text) = <<<<TextFields[name], text>>>>
    BY <1>4, <1>5 DEF HandleResponse
  <2> QED
    BY <1>2, <1>5, <2>1, FieldsLemma
<1>6. CASE name \in DOMAIN FieldsKeptWhenEmpty
  <2>1. HandleResponse(name, text) \in {<< >>, <<<<FieldsKeptWhenEmpty[name], text>>>>}
    BY <1>4, <1>6 DEF HandleResponse, CallsUnlessEmpty
  <2>2. << >> \in Seq(SetterCalls)
    OBVIOUS
  <2>3. <<<<FieldsKeptWhenEmpty[name], text>>>> \in Seq(SetterCalls)
    BY <1>2, <1>6, FieldsLemma
  <2> QED
    BY <2>1, <2>2, <2>3
<1>7. CASE name \in DOMAIN FlagFields
  <2>1. HandleResponse(name, text) = <<<<FlagFields[name], Bit(NumberIn(text) = 1)>>>>
    BY <1>4, <1>7 DEF HandleResponse
  <2> QED
    BY <1>2, <1>3, <1>7, <2>1, FieldsLemma
<1>8. CASE name \in DOMAIN NumberFields
  <2>1. HandleResponse(name, text) = <<<<NumberFields[name], NumberIn(text)>>>>
    BY <1>4, <1>8 DEF HandleResponse
  <2> QED
    BY <1>1, <1>2, <1>8, <2>1, FieldsLemma
<1>9. \A s, t \in DOMAIN Settings : \A v \in Arguments(s), w \in Arguments(t) :
        <<<<s, v>>, <<t, w>>>> \in Seq(SetterCalls)
  <2>1. ASSUME NEW s \in DOMAIN Settings, NEW t \in DOMAIN Settings,
               NEW v \in Arguments(s), NEW w \in Arguments(t)
        PROVE  <<<<s, v>>, <<t, w>>>> \in Seq(SetterCalls)
    <3>1. <<s, v>> \in SetterCalls /\ <<t, w>> \in SetterCalls
      BY DEF SetterCalls
    <3> QED
      BY <3>1
  <2> QED
    BY <2>1
<1>10. CASE name = "pro"
  <2>1. HandleResponse(name, text) = ProtocolCalls(NumberIn(text))
    BY <1>4, <1>10 DEF HandleResponse
  <2> QED
    BY <1>3, <1>9, <2>1, FieldsLemma DEF ProtocolCalls
<1>11. CASE name = "upd"
  <2>1. HandleResponse(name, text) = UpdateCalls(NumberIn(text))
    BY <1>4, <1>11 DEF HandleResponse
  <2>2. (IF NumberIn(text) = 1 THEN 4 ELSE 2) \in 0 .. 4 /\ 0 \in 0 .. 1
    OBVIOUS
  <2> QED
    BY <1>9, <2>1, <2>2, FieldsLemma DEF UpdateCalls
<1>12. CASE name = "updbeta"
  <2>1. HandleResponse(name, text) = BetaUpdateCalls(NumberIn(text))
    BY <1>4, <1>12 DEF HandleResponse
  <2>2. (IF NumberIn(text) \in {1, 2} THEN 4 ELSE 2) \in 0 .. 4
    OBVIOUS
  <2> QED
    BY <1>3, <1>9, <2>1, <2>2, FieldsLemma DEF BetaUpdateCalls
<1>13. CASE name = "led"
  <2>1. HandleResponse(name, text) = StatusLedCalls(NumberIn(text))
    BY <1>4, <1>13 DEF HandleResponse
  <2>2. (IF NumberIn(text) \in {1, 2} THEN NumberIn(text) ELSE 0) \in 0 .. 2
    OBVIOUS
  <2> QED
    BY <1>2, <2>1, <2>2, FieldsLemma DEF StatusLedCalls
<1>14. CASE /\ name \notin DOMAIN TextFields /\ name \notin DOMAIN FieldsKeptWhenEmpty
            /\ name \notin DOMAIN FlagFields /\ name \notin DOMAIN NumberFields
            /\ name # "pro" /\ name # "upd" /\ name # "updbeta" /\ name # "led"
  <2>1. HandleResponse(name, text) = << >>
    BY <1>14 DEF HandleResponse
  <2> QED
    BY <2>1
<1> QED
  BY <1>5, <1>6, <1>7, <1>8, <1>10, <1>11, <1>12, <1>13, <1>14

LEMMA CallsLemma == ASSUME NEW form \in Fields PROVE CallsOfForm(form) \in Seq(SetterCalls)
<1> DEFINE calls == [i \in DOMAIN form |-> HandleResponse(form[i][1], form[i][2])]
<1>1. CallsOfForm(form) = FlattenSeq(calls)
  BY DEF CallsOfForm
<1>2. Len(form) \in Nat /\ DOMAIN form = 1 .. Len(form) /\ \A i \in 1 .. Len(form) : form[i][2] \in Strings
  BY DEF Fields
<1>3. ASSUME NEW i \in 1 .. Len(form) PROVE HandleResponse(form[i][1], form[i][2]) \in Seq(SetterCalls)
  BY <1>2, ResponseLemma
<1>4. calls \in Seq(Seq(SetterCalls))
  BY <1>2, <1>3
<1> HIDE DEF calls
<1> QED
  BY <1>1, <1>4, FlattenLemma

\* What the browser reads of a text is a text.
LEMMA ReadLemma == ASSUME NEW text \in Strings PROVE ReadFromAttribute(text) \in Strings
<1> DEFINE ends == {i \in DOMAIN text : text[i] = Quote} \cup {Len(text) + 1}
           cells == Before(text, Quote)
           texts == [i \in DOMAIN cells |->
                       IF StartsReference(cells, i) THEN <<"<">>
                       ELSE IF InReference(cells, i) THEN << >> ELSE <<cells[i]>>]
<1>1. text \in Seq(Cells)
  BY DEF Strings
<1>2. Min(ends) \in 1 .. Len(text) + 1
  <2>1. ends \subseteq 1 .. Len(text) + 1 /\ ends # {}
    BY <1>1
  <2> QED
    <3>1. Min(ends) = CHOOSE x \in ends : \A y \in ends : x <= y
      BY DEF Min
    <3>2. ends \subseteq Nat
      BY <1>1, <2>1
    <3>3. \E x \in ends : \A y \in ends : x <= y
      BY <2>1, <3>2, LeastLemma, Zenon
    <3> HIDE DEF ends
    <3>4. Min(ends) \in ends
      BY <3>1, <3>3, Zenon
    <3> QED
      BY <2>1, <3>4
<1>3. cells \in Seq(Cells)
  <2>1. cells = SubSeq(text, 1, Min(ends) - 1)
    BY DEF Before
  <2> HIDE DEF cells, ends
  <2> QED
    BY <1>1, <1>2, <2>1
<1> HIDE DEF ends, cells
<1>4. ASSUME NEW i \in DOMAIN cells PROVE texts[i] \in Seq(Cells)
  <2>1. cells[i] \in Cells /\ "<" \in Cells
    <3>1. cells[i] \in Cells
      BY <1>3
    <3>2. "<" \in Cells
      BY CellsLemma, Zenon DEF Named
    <3> QED
      BY <3>1, <3>2
  <2>2. \/ texts[i] = <<"<">>
        \/ texts[i] = << >>
        \/ texts[i] = <<cells[i]>>
    <3>1. CASE StartsReference(cells, i)
      BY <1>4, <3>1, Zenon
    <3>2. CASE ~StartsReference(cells, i) /\ InReference(cells, i)
      BY <1>4, <3>2, Zenon
    <3>3. CASE ~StartsReference(cells, i) /\ ~InReference(cells, i)
      BY <1>4, <3>3, Zenon
    <3> QED
      BY <3>1, <3>2, <3>3
  <2>3. <<"<">> \in Seq(Cells) /\ << >> \in Seq(Cells) /\ <<cells[i]>> \in Seq(Cells)
    BY <2>1
  <2> HIDE DEF texts
  <2> QED
    BY <2>2, <2>3
<1>5. texts \in Seq(Seq(Cells))
  <2>1. DOMAIN texts = 1 .. Len(cells) /\ Len(cells) \in Nat
    BY <1>3
  <2>2. \A i \in 1 .. Len(cells) : texts[i] \in Seq(Cells)
    BY <1>3, <1>4
  <2>3. texts = [i \in 1 .. Len(cells) |-> texts[i]]
    BY <2>1
  <2> HIDE DEF texts
  <2> QED
    BY <2>1, <2>2, <2>3
<1>6. ReadFromAttribute(text) = FlattenSeq(texts)
  BY DEF ReadFromAttribute, cells
<1> HIDE DEF texts
<1> QED
  BY <1>5, <1>6, FlattenLemma DEF Strings

\* What a page shows of the settings is a form.
LEMMA ShownValues ==
  ASSUME ConfigInv
  PROVE  /\ \A s \in DOMAIN Settings : Settings[s].type = "string" => TextShown(s) \in Strings
         /\ \A s \in DOMAIN Settings :
              Settings[s].type \notin {"string", "blob"} => Get(s) \in Int
<1>1. Lists(store)
  BY DEF ConfigInv
<1>2. ASSUME NEW s \in DOMAIN Settings PROVE Get(s) \in Payloads(s) \cup {Missing(s)}
  <2>1. CASE \E i \in DOMAIN store : store[i].key = s
    BY <1>1, <2>1, GetLemma DEF Get
  <2>2. CASE \A i \in DOMAIN store : store[i].key # s
    BY <1>1, <2>2, GetLemma DEF Get
  <2> QED
    BY <2>1, <2>2
<1>3. ASSUME NEW s \in DOMAIN Settings, Settings[s].type = "string" PROVE TextShown(s) \in Strings
  <2>1. Payloads(s) \subseteq Strings /\ Missing(s) = NotSet /\ << >> \in Strings
    BY <1>3 DEF Payloads, Missing, Strings
  <2> QED
    BY <1>2, <2>1, ReadLemma DEF TextShown
<1>4. ASSUME NEW s \in DOMAIN Settings, Settings[s].type \notin {"string", "blob"} PROVE Get(s) \in Int
  <2>1. /\ Settings[s].type \in {"int8", "int32"} /\ Settings[s].values \subseteq Int
        /\ Settings[s].missing \in Settings[s].values
    BY <1>4, SettingsLemma
  <2>2. Payloads(s) = Settings[s].values /\ Missing(s) = Settings[s].missing
    BY <2>1 DEF Payloads, Missing
  <2> QED
    BY <1>2, <2>1, <2>2
<1> QED
  BY <1>3, <1>4

LEMMA PagesLemma ==
  ASSUME ConfigInv, NEW page
  PROVE  PageOf(page) \in Fields /\ PageOf(page) # << >>
<1>1. \A s \in {"wifissid", "suplaserver", "email", "mqttserver", "mqttuser", "mqttprefix",
        "swupdateurl"} : TextShown(s) \in Strings
  <2>1. /\ Settings["wifissid"] = Text(32) /\ Settings["suplaserver"] = Text(65)
        /\ Settings["email"] = Text(256) /\ Settings["mqttserver"] = Text(65)
        /\ Settings["mqttuser"] = Text(23) /\ Settings["mqttprefix"] = Text(49)
        /\ Settings["swupdateurl"] = Text(202)
    BY SMTT(30) DEF Settings
  <2>2. \A s \in {"wifissid", "suplaserver", "email", "mqttserver", "mqttuser", "mqttprefix",
          "swupdateurl"} : s \in DOMAIN Settings
    BY SMTT(30) DEF Settings
  <2>3. \A max : Text(max).type = "string"
    BY DEF Text
  <2> QED
    BY <2>1, <2>2, <2>3, ShownValues
<1>2. \A s \in {"mqttport", "mqtttls", "mqttauth", "mqttqos", "mqttretain", "mqttpooldelay",
        "statusled", "swupdatebeta"} : Get(s) \in Int
  <2>1. /\ Settings["mqtttls"] = Flag(0) /\ Settings["mqttauth"] = Flag(1)
        /\ Settings["mqttretain"] = Flag(1) /\ Settings["swupdatebeta"] = Flag(0)
        /\ Settings["statusled"] = [Flag(0) EXCEPT !.values = 0 .. 2]
    BY SMTT(30) DEF Settings
  <2>2. \A s \in {"mqttport", "mqtttls", "mqttauth", "mqttqos", "mqttretain", "mqttpooldelay",
          "statusled", "swupdatebeta"} : s \in DOMAIN Settings
    BY SMTT(30) DEF Settings
  <2>3. \A n : Flag(n).type = "int8" /\ [Flag(n) EXCEPT !.values = 0 .. 2].type = "int8"
    BY DEF Flag
  <2>4. \A s \in {"mqttport", "mqttqos", "mqttpooldelay"} :
          Settings[s].type # "string" /\ Settings[s].type # "blob"
    BY PlacesOfSettings DEF Ports
  <2>5. \A s \in {"mqtttls", "mqttauth", "mqttretain", "swupdatebeta", "statusled"} :
          Settings[s].type = "int8"
    <3>1. /\ Settings["mqtttls"].type = "int8" /\ Settings["mqttauth"].type = "int8"
          /\ Settings["mqttretain"].type = "int8" /\ Settings["swupdatebeta"].type = "int8"
      BY <2>1, <2>3, Zenon
    <3>2. Settings["statusled"].type = "int8"
      BY <2>1, <2>3, Zenon
    <3> QED
      BY <3>1, <3>2
  <2> QED
    BY <2>2, <2>4, <2>5, ShownValues
<1>3. \A s \in {"mqttport", "mqtttls", "mqttauth", "mqttqos", "mqttretain", "mqttpooldelay",
        "statusled"} : Shown(Get(s)) \in Strings
  BY <1>2, ShownLemma
<1>4. \A c : Bit(c) \in Int
  BY DEF Bit
<1>5. Shown(Bit(Get("mqttcommproto") = 1)) \in Strings
  BY <1>4, ShownLemma
<1>6. UpdateShown \in Int /\ (IF UpdateShown = 1 THEN 1 + Get("swupdatebeta") ELSE 0) \in Int
  BY <1>2 DEF UpdateShown
<1>7. /\ Shown(UpdateShown) \in Strings /\ Shown(0) \in Strings
      /\ Shown(IF UpdateShown = 1 THEN 1 + Get("swupdatebeta") ELSE 0) \in Strings
  BY <1>6, ShownLemma
<1>8. << >> \in Strings
  BY DEF Strings
<1>9. \A name \in Named, text \in Strings : <<name, text>> \in Cells \X Strings
  BY CellsLemma
<1>10. BetaPage \in Fields /\ BetaPage # << >>
  <2>1. \A a, b \in Cells \X Strings : <<a, b>> \in Fields /\ <<a, b>> # << >>
    BY DEF Fields
  <2>2. "updbeta" \in Named /\ "rbt" \in Named
    BY DEF Named
  <2> QED
    BY <1>7, <1>9, <2>1, <2>2 DEF BetaPage
<1>11. MainPage \in Fields /\ MainPage # << >>
  <2> DEFINE cell == Cells \X Strings
  <2>1. Len(MainPage) = 19 /\ DOMAIN MainPage = 1 .. 19
    BY DEF MainPage
  <2>2. {"sid", "wpw", "pro", "svr", "eml", "mqttserver", "mqttport", "mqtttls", "mqttauth",
         "mqttuser", "mqttpasswd", "mqttprefix", "mqttqos", "mqttretain", "mqttpooldelay",
         "swupdateurl", "upd", "led", "rbt"} \subseteq Named
    BY DEF Named
  <2>3. /\ MainPage[1] = <<"sid", TextShown("wifissid")>> /\ MainPage[2] = <<"wpw", << >>>>
        /\ MainPage[3] = <<"pro", Shown(Bit(Get("mqttcommproto") = 1))>>
        /\ MainPage[4] = <<"svr", TextShown("suplaserver")>>
        /\ MainPage[5] = <<"eml", TextShown("email")>>
        /\ MainPage[6] = <<"mqttserver", TextShown("mqttserver")>>
        /\ MainPage[7] = <<"mqttport", Shown(Get("mqttport"))>>
        /\ MainPage[8] = <<"mqtttls", Shown(Get("mqtttls"))>>
        /\ MainPage[9] = <<"mqttauth", Shown(Get("mqttauth"))>>
        /\ MainPage[10] = <<"mqttuser", TextShown("mqttuser")>>
    BY DEF MainPage
  <2>4. /\ MainPage[11] = <<"mqttpasswd", << >>>>
        /\ MainPage[12] = <<"mqttprefix", TextShown("mqttprefix")>>
        /\ MainPage[13] = <<"mqttqos", Shown(Get("mqttqos"))>>
        /\ MainPage[14] = <<"mqttretain", Shown(Get("mqttretain"))>>
        /\ MainPage[15] = <<"mqttpooldelay", Shown(Get("mqttpooldelay"))>>
        /\ MainPage[16] = <<"swupdateurl", TextShown("swupdateurl")>>
        /\ MainPage[17] = <<"upd", Shown(UpdateShown)>>
        /\ MainPage[18] = <<"led", Shown(Get("statusled"))>>
        /\ MainPage[19] = <<"rbt", Shown(0)>>
    BY DEF MainPage
  <2>5. /\ MainPage[1] \in cell /\ MainPage[4] \in cell /\ MainPage[5] \in cell
        /\ MainPage[6] \in cell /\ MainPage[10] \in cell /\ MainPage[12] \in cell
        /\ MainPage[16] \in cell /\ MainPage[2] \in cell /\ MainPage[11] \in cell
    <3> HIDE DEF cell
    <3> QED
      BY <1>1, <1>8, <1>9, <2>2, <2>3, <2>4 DEF cell
  <2>6. /\ MainPage[7] \in cell /\ MainPage[8] \in cell /\ MainPage[9] \in cell
        /\ MainPage[13] \in cell /\ MainPage[14] \in cell /\ MainPage[15] \in cell
        /\ MainPage[18] \in cell
    <3> HIDE DEF cell
    <3> QED
      BY <1>3, <1>9, <2>2, <2>3, <2>4 DEF cell
  <2>7. MainPage[3] \in cell /\ MainPage[17] \in cell /\ MainPage[19] \in cell
    <3> HIDE DEF cell
    <3> QED
      BY <1>5, <1>7, <1>9, <2>2, <2>3, <2>4 DEF cell
  <2> HIDE DEF cell
  <2>8. \A i \in 1 .. 19 : MainPage[i] \in cell
    BY <2>5, <2>6, <2>7
  <2>9. MainPage = [i \in 1 .. 19 |-> MainPage[i]]
    BY <2>1 DEF MainPage
  <2>10. MainPage \in Seq(cell) /\ MainPage # << >>
    BY <2>1, <2>8, <2>9
  <2> QED
    BY <2>10 DEF Fields, cell
<1> QED
  BY <1>10, <1>11 DEF PageOf

LEMMA FormLemma ==
  ASSUME ConfigInv, NEW edit \in Edits
  PROVE  FormOf(edit) \in Fields /\ FormOf(edit) # << >>
<1> DEFINE page == PageOf(edit.page)
<1>1. page \in Fields /\ page # << >>
  BY PagesLemma
<1>2. \A name \in DOMAIN edit.fields : edit.fields[name] \in Strings
  BY WebAssumption, CellsLemma
<1>3. FormOf(edit) = [i \in DOMAIN page |-> <<page[i][1], IF page[i][1] \in DOMAIN edit.fields
                                              THEN edit.fields[page[i][1]] ELSE page[i][2]>>]
  BY DEF FormOf
<1> HIDE DEF page
<1>4. /\ Len(page) \in Nat \ {0} /\ DOMAIN page = 1 .. Len(page)
      /\ \A i \in 1 .. Len(page) : page[i][1] \in Cells /\ page[i][2] \in Strings
  BY <1>1 DEF Fields
<1>5. \A i \in 1 .. Len(page) :
        <<page[i][1], IF page[i][1] \in DOMAIN edit.fields
                        THEN edit.fields[page[i][1]] ELSE page[i][2]>> \in Cells \X Strings
  BY <1>2, <1>4
<1> QED
  BY <1>3, <1>4, <1>5 DEF Fields

\* A piece behind half a key or half a value.
LEMMA JoinedLemma ==
  ASSUME NEW half \in Strings, NEW p \in Parsers, NEW piece \in Strings, NEW limit \in Nat
  PROVE  Joined(half, p, piece, limit) \in Strings
<1>1. CASE Len(half) < p.partialSize
  BY <1>1 DEF Joined
<1>2. CASE ~(Len(half) < p.partialSize)
  <2> DEFINE n == p.partialSize
             m == Least(Len(piece), limit - 1 - n)
  <2>1. half \in Seq(Cells) /\ piece \in Seq(Cells) /\ n \in Nat
    BY DEF Strings, Parsers
  <2>2. Len(half) \in Nat /\ Len(piece) \in Nat /\ n <= Len(half)
    BY <1>2, <2>1
  <2>3. m \in Int /\ m <= Len(piece)
    BY <2>1, <2>2 DEF Least
  <2>4. Joined(half, p, piece, limit) = SubSeq(half, 1, n) \o SubSeq(piece, 1, m)
    BY <1>2 DEF Joined
  <2> HIDE DEF n, m
  <2>5. SubSeq(half, 1, n) \in Seq(Cells) /\ SubSeq(piece, 1, m) \in Seq(Cells)
    BY <2>1, <2>2, <2>3, SubSeqLemma
  <2> QED
    BY <2>4, <2>5, ConcatProperties DEF Strings
<1> QED
  BY <1>1, <1>2

\* A separator, or the end of the chunk.
LEMMA CellLemma ==
  ASSUME NEW p \in Parsers, NEW content \in Strings, NEW i \in 1 .. Len(content) + 1,
         NEW lastChunk \in BOOLEAN
  PROVE  ParseCell(p, content, i, lastChunk) \in Parsers
<1> DEFINE cell == IF i > Len(content) THEN "" ELSE content[i]
           piece == SubSeq(content, p.since, i - 1)
           key == Joined(p.key, p, piece, KeyLength)
           value == Joined(p.value, p, piece, ValueLength)
           size == IF cell = "=" THEN PartialAfterKey(p, Len(key) - p.partialSize) ELSE Len(key)
           field == <<NameOf(p.key), Decoded(value)>>
<1>1. /\ p.key \in Strings /\ p.value \in Strings /\ p.keyFound \in BOOLEAN /\ p.partialSize \in Nat
      /\ p.since \in Nat \ {0} /\ p.fields \in Fields /\ p.at \in Nat
      /\ p = [key |-> p.key, value |-> p.value, keyFound |-> p.keyFound,
              partialSize |-> p.partialSize, since |-> p.since, fields |-> p.fields, at |-> p.at]
  BY DEF Parsers
<1>2. i \in Nat /\ Len(content) \in Nat /\ i + 1 \in Nat \ {0}
  BY DEF Strings
<1>3. piece \in Strings
  <2>1. i - 1 \in Int /\ i - 1 <= Len(content)
    BY <1>2
  <2> QED
    BY <1>1, <2>1, SubSeqLemma DEF Strings
<1> HIDE DEF piece
<1>4. key \in Strings /\ value \in Strings
  BY <1>1, <1>3, JoinedLemma, WebAssumption DEF KeyLength
<1> HIDE DEF key, value
<1>5. size \in Nat /\ Len(value) \in Nat
  BY <1>4 DEF PartialAfterKey, Strings
<1>6. field \in Cells \X Strings
  <2>1. NameOf(p.key) \in Cells
    <3>1. "" \in Cells
      BY CellsLemma DEF Named
    <3>2. Len(p.key) = 2 => p.key[1] \in Cells
      BY <1>1 DEF Strings
    <3> QED
      BY <3>1, <3>2 DEF NameOf
  <2> QED
    BY <1>4, <2>1, DecodedLemma
<1>7. Append(p.fields, field) \in Fields
  <2> HIDE DEF field
  <2> QED
    BY <1>1, <1>6 DEF Fields
<1>8. << >> \in Strings
  BY DEF Strings
<1>9. ParseCell(p, content, i, lastChunk) =
        CASE ~p.keyFound /\ (cell = "=" \/ cell = "") ->
               [p EXCEPT !.key = key, !.since = i + 1, !.keyFound = (cell = "="), !.partialSize = size]
          [] p.keyFound /\ (cell = "&" \/ (cell = "" /\ lastChunk)) ->
               [p EXCEPT !.fields = Append(@, field), !.since = i + 1, !.keyFound = FALSE,
                  !.partialSize = 0, !.key = << >>, !.value = << >>]
          [] p.keyFound /\ cell = "" /\ ~lastChunk ->
               [p EXCEPT !.value = value, !.since = i + 1, !.partialSize = Len(value)]
          [] OTHER -> p
  BY DEF ParseCell, piece, key, value
<1> HIDE DEF cell, size, field
<1>10. CASE ~p.keyFound /\ (cell = "=" \/ cell = "")
  <2> DEFINE found == cell = "="
  <2>1. ParseCell(p, content, i, lastChunk) =
          [p EXCEPT !.key = key, !.since = i + 1, !.keyFound = found, !.partialSize = size]
    BY <1>9, <1>10
  <2>2. found \in BOOLEAN
    OBVIOUS
  <2> HIDE DEF found
  <2> QED
    BY <1>1, <1>2, <1>4, <1>5, <2>1, <2>2 DEF Parsers
<1>11. CASE p.keyFound /\ (cell = "&" \/ (cell = "" /\ lastChunk))
  <2>1. ParseCell(p, content, i, lastChunk) =
          [p EXCEPT !.fields = Append(@, field), !.since = i + 1, !.keyFound = FALSE,
                    !.partialSize = 0, !.key = << >>, !.value = << >>]
    BY <1>9, <1>11
  <2>2. ParseCell(p, content, i, lastChunk) =
          [key |-> << >>, value |-> << >>, keyFound |-> FALSE, partialSize |-> 0,
           since |-> i + 1, fields |-> Append(p.fields, field), at |-> p.at]
    BY <1>1, <2>1
  <2> QED
    BY <1>1, <1>2, <1>7, <1>8, <2>2 DEF Parsers
<1>12. CASE p.keyFound /\ cell = "" /\ ~lastChunk
  <2>1. ParseCell(p, content, i, lastChunk) =
          [p EXCEPT !.value = value, !.since = i + 1, !.partialSize = Len(value)]
    BY <1>9, <1>12
  <2> QED
    BY <1>1, <1>2, <1>4, <1>5, <2>1 DEF Parsers
<1>13. CASE (p.keyFound /\ cell # "&" /\ cell # "") \/ (~p.keyFound /\ cell # "=" /\ cell # "")
  BY <1>9, <1>13
<1> QED
  BY <1>10, <1>11, <1>12, <1>13

\* The next separator, or the end.
LEMMA NextMarkLemma ==
  ASSUME NEW content \in Strings, NEW marks, marks \subseteq DOMAIN content, NEW at \in Nat
  PROVE  NextMark(marks, content, at) \in 1 .. Len(content) + 1
<1> DEFINE ahead == {i \in marks : i > at} \cup {Len(content) + 1}
<1>1. Len(content) \in Nat /\ DOMAIN content = 1 .. Len(content)
  BY DEF Strings
<1>2. ahead \subseteq 1 .. Len(content) + 1 /\ ahead # {}
  BY <1>1
<1>3. NextMark(marks, content, at) = CHOOSE x \in ahead : \A y \in ahead : x <= y
  BY DEF NextMark, Min
<1> HIDE DEF ahead
<1>4. ahead \subseteq Nat
  BY <1>1, <1>2
<1>5. \E x \in ahead : \A y \in ahead : x <= y
  BY <1>2, <1>4, LeastLemma
<1>6. NextMark(marks, content, at) \in ahead
  BY <1>3, <1>5
<1> QED
  BY <1>2, <1>6

\* What a request's parser is before a chunk and after it.
Requests ==
  [form : Fields, body : Strings, key : Strings, value : Strings, keyFound : BOOLEAN,
   partialSize : Nat, before : Seq(Entries)]

LEMMA ParseLemma ==
  ASSUME NEW r \in Requests, NEW content \in Strings, NEW lastChunk \in BOOLEAN
  PROVE  ParsePost(r, content, lastChunk) \in Parsers
<1> DEFINE marks == {i \in DOMAIN content : content[i] \in {"=", "&"}}
           L == Cardinality(marks) + 1
           base == [key |-> r.key, value |-> r.value, keyFound |-> r.keyFound,
                    partialSize |-> r.partialSize, since |-> 1, fields |-> << >>, at |-> 0]
           Ahead(p) == NextMark(marks, content, p.at)
           After(p) == [ParseCell(p, content, Ahead(p), lastChunk) EXCEPT !.at = Ahead(p)]
           f == CHOOSE g : g = [k \in 0 .. L |-> IF k = 0 THEN base ELSE After(g[k - 1])]
<1>1. marks \subseteq DOMAIN content /\ L \in Nat
  <2>1. Len(content) \in Nat /\ DOMAIN content = 1 .. Len(content)
    BY DEF Strings
  <2>2. \A a, b \in Int : IsFiniteSet(a .. b)
    BY FS_Interval, Zenon
  <2>3. IsFiniteSet(1 .. Len(content))
    BY <2>1, <2>2
  <2>4. marks \subseteq 1 .. Len(content)
    BY <2>1
  <2> HIDE DEF marks
  <2>5. IsFiniteSet(marks)
    BY <2>3, <2>4, FS_Subset, Zenon
  <2>6. Cardinality(marks) \in Nat
    BY <2>5, FS_CardinalityType, Zenon
  <2> QED
    BY <2>1, <2>4, <2>6
<1>2. base \in Parsers
  <2>1. << >> \in Fields
    BY DEF Fields
  <2> QED
    BY <2>1 DEF Requests, Parsers
<1>3. ParsePost(r, content, lastChunk) = f[L]
  BY DEF ParsePost
<1> HIDE DEF marks, L, base
<1>4. ASSUME NEW p \in Parsers PROVE After(p) \in Parsers
  <2>1. Ahead(p) \in 1 .. Len(content) + 1
    <3>1. p.at \in Nat
      BY DEF Parsers
    <3> QED
      BY <1>1, <3>1, NextMarkLemma
  <2>2. Ahead(p) \in Nat
    BY <2>1 DEF Strings
  <2> DEFINE next == ParseCell(p, content, Ahead(p), lastChunk)
  <2>3. next \in Parsers
    BY <2>1, CellLemma
  <2> HIDE DEF next
  <2>4. [next EXCEPT !.at = Ahead(p)] \in Parsers
    BY <2>2, <2>3 DEF Parsers
  <2> QED
    BY <2>4 DEF next
<1> HIDE DEF Ahead, After
<1>5. f = [k \in 0 .. L |-> IF k = 0 THEN base ELSE After(f[k - 1])]
  <2> DEFINE step == [k \in 1 .. L |-> [p \in Parsers |-> After(p)]]
  <2>1. step \in [1 .. L -> [Parsers -> Parsers]]
    BY <1>4
  <2>2. PICK h : Recursion(h, L, Parsers, base, step)
    <3> HIDE DEF step
    <3> QED
      BY <1>1, <1>2, <2>1, RecursionLemma
  <2>3. h = [k \in 0 .. L |-> IF k = 0 THEN base ELSE After(h[k - 1])]
    <3>1. ASSUME NEW k \in 1 .. L PROVE h[k] = After(h[k - 1])
      <4>1. k - 1 \in 0 .. L
        BY <1>1
      <4>2. h[k] = step[k][h[k - 1]] /\ h[k - 1] \in Parsers
        <5> HIDE DEF step
        <5> QED
          BY <2>2, <4>1 DEF Recursion
      <4> QED
        BY <4>2
    <3>2. h[0] = base /\ h \in [0 .. L -> Parsers]
      BY <2>2 DEF Recursion
    <3> QED
      BY <1>1, <3>1, <3>2
  <2> QED
    BY <2>3
<1> HIDE DEF f
<1>6. f[0] = base /\ \A k \in 1 .. L : f[k] = After(f[k - 1])
  BY <1>1, <1>5
<1> DEFINE T == {k \in 0 .. L : f[k] \in Parsers}
<1>7. 0 \in T /\ \A k \in 1 .. L : k - 1 \in T => k \in T
  BY <1>1, <1>2, <1>4, <1>6
<1>8. \A k \in 0 .. L : k \in T
  <2> HIDE DEF T
  <2> QED
    BY <1>1, <1>7, UpToLemma
<1> QED
  BY <1>1, <1>3, <1>8

-----------------------------------------------------------------------------
(***************************************************************************)
(* The configuration while forms are posted.                               *)
(***************************************************************************)
\* The configuration is kept while a form is posted, and the request is well formed.
WebInv ==
  /\ ConfigInv
  /\ platform \in {"arduino", "espidf"} /\ posts \in 0 .. MostPosts /\ dataSaved \in BOOLEAN
  /\ post \in Requests
  /\ Posting => running /\ platform = "espidf" /\ post.body # << >> /\ ~dataSaved

\* No request.
LEMMA NoPostLemma == NoPost \in Requests /\ NoPost.body = << >>
<1>1. << >> \in Fields /\ << >> \in Strings
  BY DEF Fields, Strings
<1>2. << >> \in Seq(Entries)
  OBVIOUS
<1> QED
  BY <1>1, <1>2 DEF NoPost, Requests

\* The platform is not changed by what the configuration does.
LEMMA PlatformStays == ConfigNext => UNCHANGED platform
BY DEF ConfigNext, Begin, PowerFails, SoftRestart, RemoveAll, RestoreIdentity, SwUpdateEnds, SetCustom

\* SetterCalls from a form leave everything else of the configuration.
LEMMA CallsKeepConfig ==
  ASSUME ConfigInv, running, NEW calls \in Seq(SetterCalls), NEW thenCommit,
         Configure(calls, thenCommit), UNCHANGED <<platform, running, resetting, device, made>>
  PROVE  ConfigInv'
<1>1. /\ Lists(store') /\ stored' \in Tellings /\ Agree(store', stored')
      /\ Lists(flash') /\ committed' \in Tellings /\ fits' \in BOOLEAN
      /\ \A s \in DOMAIN Settings : GetFrom(flash', s) \in committed'[s] \cup Holes(fits', s)
  BY ConfigureLemma
<1> QED
  BY <1>1 DEF ConfigInv

\* A form that is posted.
LEMMA PostStartsLemma ==
  ASSUME WebInv, NEW edit \in Edits, PostStarts(edit)
  PROVE  WebInv'
<1> DEFINE form == FormOf(edit)
           body == BodyOf(form)
           next == [NoPost EXCEPT !.form = form, !.body = body, !.before = store]
<1>1. form \in Fields /\ form # << >>
  BY FormLemma DEF WebInv
<1>2. body \in Strings /\ body # << >>
  <2> HIDE DEF form
  <2> QED
    BY <1>1, BodyLemma
<1>3. /\ running /\ posts < MostPosts /\ ~dataSaved /\ platform = "espidf"
      /\ post' = next /\ posts' = posts + 1 /\ UNCHANGED <<configVars, dataSaved>>
  BY DEF PostStarts, MayPost
<1> HIDE DEF form, body
<1>4. next \in Requests /\ next.body = body
  <2>1. store \in Seq(Entries)
    BY DEF WebInv, ConfigInv, Lists
  <2> HIDE DEF NoPost
  <2> QED
    BY <1>1, <1>2, <2>1, NoPostLemma DEF Requests
<1> HIDE DEF next
<1>5. ConfigInv'
  <2>1. UNCHANGED configVars
    BY <1>3
  <2> QED
    BY <2>1, ConfigNextKeeps DEF WebInv
<1>6. running' = running /\ platform' = platform
  BY <1>3 DEF configVars
<1>7. posts' \in 0 .. MostPosts
  BY <1>3, WebAssumption DEF WebInv
<1> QED
  BY <1>2, <1>3, <1>4, <1>5, <1>6, <1>7 DEF WebInv

\* A chunk of it.
LEMMA ChunkLemma ==
  ASSUME WebInv, NEW most \in RecvSizes, Chunk(most)
  PROVE  WebInv'
<1> DEFINE size == Least(most, Len(post.body))
           lastChunk == size = Len(post.body)
           p == ParsePost(post, SubSeq(post.body, 1, size), lastChunk)
           calls == CallsOfForm(p.fields)
           rest == SubSeq(post.body, size + 1, Len(post.body))
<1>1. /\ Posting /\ Configure(calls, lastChunk)
      /\ post' = IF lastChunk THEN NoPost
                 ELSE [post EXCEPT !.body = rest, !.key = p.key,
                         !.value = p.value, !.keyFound = p.keyFound, !.partialSize = p.partialSize]
      /\ dataSaved' = lastChunk
      /\ UNCHANGED <<platform, running, resetting, device, made, posts>>
  BY DEF Chunk
<1>2. post \in Requests /\ running /\ platform = "espidf" /\ ConfigInv
  BY <1>1 DEF WebInv
<1>3. post.body \in Seq(Cells) /\ Len(post.body) \in Nat /\ size \in Nat /\ size <= Len(post.body)
  <2>1. post.body \in Seq(Cells)
    BY <1>2 DEF Requests, Strings
  <2>2. most \in Nat /\ Len(post.body) \in Nat
    BY <2>1, WebAssumption
  <2> QED
    BY <2>1, <2>2 DEF Least
<1>4. p \in Parsers
  <2>1. SubSeq(post.body, 1, size) \in Strings
    BY <1>3, SubSeqLemma DEF Strings
  <2>2. lastChunk \in BOOLEAN
    OBVIOUS
  <2> HIDE DEF lastChunk, size
  <2> QED
    BY <1>2, <2>1, <2>2, ParseLemma
<1>5. lastChunk \/ (rest \in Strings /\ rest # << >>)
  <2>1. CASE size < Len(post.body)
    <3>1. rest \in Seq(Cells) /\ Len(rest) = Len(post.body) - size
      <4> HIDE DEF size
      <4> QED
        BY <1>3, <2>1, SubSeqProperties
    <3> HIDE DEF rest, size
    <3>2. Len(rest) # 0
      BY <1>3, <2>1, <3>1
    <3> QED
      BY <3>1, <3>2 DEF Strings
  <2>2. CASE size = Len(post.body)
    BY <2>2
  <2> HIDE DEF size
  <2> QED
    BY <1>3, <2>1, <2>2
<1> HIDE DEF size, lastChunk, p, rest
<1>6. calls \in Seq(SetterCalls)
  <2>1. p.fields \in Fields
    BY <1>4 DEF Parsers
  <2> QED
    BY <2>1, CallsLemma
<1> HIDE DEF calls
<1>7. ConfigInv'
  BY <1>1, <1>2, <1>6, CallsKeepConfig
<1>8. post' \in Requests /\ (lastChunk => post' = NoPost) /\ (~lastChunk => post'.body # << >>)
  <2>1. CASE lastChunk
    BY <1>1, <2>1, NoPostLemma
  <2>2. CASE ~lastChunk
    <3>1. post' = [form |-> post.form, body |-> rest, key |-> p.key, value |-> p.value,
                   keyFound |-> p.keyFound, partialSize |-> p.partialSize, before |-> post.before]
      BY <1>1, <1>2, <2>2 DEF Requests
    <3> QED
      BY <1>2, <1>4, <1>5, <2>2, <3>1 DEF Requests, Parsers
  <2> QED
    BY <2>1, <2>2
<1>9. dataSaved' \in BOOLEAN
  BY <1>1 DEF lastChunk
<1> QED
  BY <1>1, <1>2, <1>7, <1>8, <1>9 DEF WebInv, Posting

\* Every step, and what follows for the settings.
LEMMA WebNextKeeps == WebInv /\ [WebNext]_webVars => WebInv'
<1> SUFFICES ASSUME WebInv, [WebNext]_webVars PROVE WebInv'
  OBVIOUS
<1>1. CASE UNCHANGED webVars
  <2>1. UNCHANGED configVars /\ UNCHANGED <<post, dataSaved, posts>>
    BY <1>1 DEF webVars
  <2>2. ConfigInv'
    BY <2>1, ConfigNextKeeps DEF WebInv
  <2> QED
    BY <2>1, <2>2 DEF WebInv, Posting, configVars
<1>2. CASE ~Posting /\ ~dataSaved /\ ConfigNext /\ UNCHANGED <<post, dataSaved, posts>>
  <2>1. ConfigInv' /\ UNCHANGED platform
    BY <1>2, ConfigNextKeeps, PlatformStays DEF WebInv
  <2> QED
    BY <1>2, <2>1 DEF WebInv, Posting
<1>3. CASE /\ PowerFails \/ SoftRestart
           /\ post' = NoPost /\ dataSaved' = FALSE /\ UNCHANGED posts
  <2>1. ConfigNext
    BY <1>3 DEF ConfigNext
  <2>2. ConfigInv' /\ UNCHANGED platform
    BY <2>1, ConfigNextKeeps, PlatformStays DEF WebInv
  <2> QED
    BY <1>3, <2>2, NoPostLemma DEF WebInv, Posting
<1>4. ASSUME NEW edit \in Edits, PostStarts(edit) PROVE WebInv'
  BY <1>4, PostStartsLemma
<1>5. ASSUME NEW edit \in Edits, PostAtOnce(edit) PROVE WebInv'
  <2>1. FormOf(edit) \in Fields
    BY FormLemma DEF WebInv
  <2>2. CallsOfForm(FormOf(edit)) \in Seq(SetterCalls)
    BY <2>1, CallsLemma
  <2>3. /\ running /\ ~Posting /\ posts < MostPosts /\ Configure(CallsOfForm(FormOf(edit)), FALSE)
        /\ dataSaved' = TRUE /\ posts' = posts + 1
        /\ UNCHANGED <<platform, running, resetting, device, made, post>>
    BY <1>5 DEF PostAtOnce, MayPost
  <2>4. ConfigInv'
    BY <2>2, <2>3, CallsKeepConfig DEF WebInv
  <2>5. posts' \in 0 .. MostPosts
    BY <2>3, WebAssumption DEF WebInv
  <2> QED
    BY <2>3, <2>4, <2>5 DEF WebInv, Posting
<1>6. ASSUME NEW most \in RecvSizes, Chunk(most) PROVE WebInv'
  BY <1>6, ChunkLemma
<1>7. CASE RecvFails
  <2>1. post' = NoPost /\ UNCHANGED configVars /\ UNCHANGED <<dataSaved, posts>>
    BY <1>7 DEF RecvFails
  <2>2. ConfigInv'
    BY <2>1, ConfigNextKeeps DEF WebInv
  <2> QED
    BY <2>1, <2>2, NoPostLemma DEF WebInv, Posting, configVars
<1>8. CASE PageIsSent
  <2>1. dataSaved' = FALSE /\ UNCHANGED configVars /\ UNCHANGED <<post, posts>>
    BY <1>8 DEF PageIsSent
  <2>2. ConfigInv'
    BY <2>1, ConfigNextKeeps DEF WebInv
  <2> QED
    BY <2>1, <2>2 DEF WebInv, Posting, configVars
<1> QED
  BY <1>1, <1>2, <1>3, <1>4, <1>5, <1>6, <1>7, <1>8 DEF WebNext

LEMMA WebInitLemma == WebInit => WebInv
<1> SUFFICES ASSUME WebInit PROVE WebInv
  OBVIOUS
<1>1. ConfigInv /\ platform \in {"arduino", "espidf"} /\ post = NoPost /\ dataSaved = FALSE /\ posts = 0
  BY ConfigInitLemma DEF WebInit, ConfigInit
<1>2. posts \in 0 .. MostPosts
  BY <1>1, WebAssumption
<1> QED
  BY <1>1, <1>2, NoPostLemma DEF WebInv, Posting

LEMMA WebImplies == WebInv => SettingsSurvive /\ WebTypeOK
BY ConfigImplies DEF WebInv, WebTypeOK

\* For any forms, cut anywhere, any application's values, power failures and restarts: what a
\* setter accepted its getter gives.
THEOREM SettingsAreStored == WebSpec => []SettingsSurvive
<1>1. WebInit => WebInv
  BY WebInitLemma
<1>2. WebInv /\ [WebNext]_webVars => WebInv'
  BY WebNextKeeps
<1>3. WebInv => SettingsSurvive
  BY WebImplies
<1> QED
  BY <1>1, <1>2, <1>3, PTL DEF WebSpec
=============================================================================
