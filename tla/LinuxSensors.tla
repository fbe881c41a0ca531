----------------------------- MODULE LinuxSensors ----------------------------
(***************************************************************************)
(* The channels of a Linux device: how loadChannels builds them, their     *)
(* parsers and their sources from the configuration file, where a later    *)
(* channel may use what an earlier one has named, and what they show of    *)
(* sources that are late, unreadable or short of a value.                  *)
(*                                                                         *)
(* A source gives lines: to the Simple parser the numbers it reads from    *)
(* them, to the Json parser the values of its keys.                        *)
(***************************************************************************)
EXTENDS Integers, Sequences

CONSTANTS
  ConfigFiles,   \* sequences of channels, see NewSource and the others
  FileNames, Contents,
  MostWrites     \* changes of the files

Absent == [is |-> "absent", name |-> ""]
Use(name) == [is |-> "use", name |-> name]
\* No type, an unknown type, or both "use" and "name".
Wrong == [is |-> "wrong", name |-> ""]
NewSource(name, file, expires) ==
  [is |-> "new", name |-> name, file |-> file, expires |-> expires]
NewParser(name, type) == [is |-> "new", name |-> name, type |-> type]
Channel(type, source, parser, key, multiplier) ==
  [type |-> type, source |-> source, parser |-> parser, key |-> key, multiplier |-> multiplier]
NoKey == -1

NumberTypes == {"ThermometerParsed", "ImpulseCounterParsed"}
MeterParsed == "ElectricityMeterParsed"

\* What a file or the output of a command says.
Lines(numbers) == [text |-> FALSE, numbers |-> numbers]
\* Words: no JSON, and a zero for whoever reads a number from them.
Text == [text |-> TRUE, numbers |-> <<0, 0>>]
NoContent == Lines(<< >>)

ASSUME LinuxSensorsAssumption ==
  /\ \A f \in FileNames, c \in Contents : c.numbers \in Seq(Nat)
  /\ NoContent \in Contents /\ MostWrites \in Nat
  /\ \A cfg \in ConfigFiles :
       /\ cfg \in Seq({cfg[i] : i \in DOMAIN cfg})
       /\ \A i \in DOMAIN cfg :
            /\ cfg[i] = Channel(cfg[i].type, cfg[i].source, cfg[i].parser, cfg[i].key,
                               cfg[i].multiplier)
            /\ {cfg[i].source.is, cfg[i].parser.is} \subseteq {"absent", "wrong", "use", "new"}
            /\ cfg[i].key \in Nat \cup {NoKey} /\ cfg[i].multiplier \in Int

-----------------------------------------------------------------------------
(***************************************************************************)
(* loadChannels                                                            *)
(***************************************************************************)
NoIndex == -1
NothingLoaded ==
  [ok |-> TRUE, sources |-> << >>, sourceNames |-> << >>, sourceCount |-> 0,
   parsers |-> << >>, parserNames |-> << >>, parserCount |-> 0, channels |-> << >>,
   source |-> NoIndex, parser |-> NoIndex]
Failed(l) == [l EXCEPT !.ok = FALSE]

\* A map with one more entry, or a new one for a key that it has.
Entered(map, key, new) == [k \in DOMAIN map \cup {key} |-> IF k = key THEN new ELSE map[k]]
Named(names, entry, index) ==
  IF entry.name = "" THEN names ELSE Entered(names, entry.name, index)

AddSource(l, s) ==
  CASE s.is = "absent" -> [l EXCEPT !.source = NoIndex]
    [] s.is = "wrong" -> Failed(l)
    [] s.is = "use" ->
         IF s.name \in DOMAIN l.sourceNames THEN [l EXCEPT !.source = l.sourceNames[s.name]]
         ELSE Failed(l)
    [] s.is = "new" ->
         [l EXCEPT !.sources = Entered(@, l.sourceCount, [file |-> s.file, expires |-> s.expires]),
                   !.sourceNames = Named(@, s, l.sourceCount),
                   !.sourceCount = @ + 1, !.source = l.sourceCount]

\* A new parser is counted here and once more by parseChannel, a used one only there.
AddParser(l, p) ==
  CASE p.is = "absent" -> [l EXCEPT !.parser = NoIndex]
    [] p.is = "use" ->
         IF p.name \in DOMAIN l.parserNames
         THEN [l EXCEPT !.parser = l.parserNames[p.name], !.parserCount = @ + 1] ELSE Failed(l)
    [] p.is = "wrong" \/ (p.is = "new" /\ l.source = NoIndex) -> Failed(l)
    [] OTHER ->
         [l EXCEPT !.parsers = Entered(@, l.parserCount, [type |-> p.type, source |-> l.source]),
                   !.parserNames = Named(@, p, l.parserCount),
                   !.parserCount = @ + 2, !.parser = l.parserCount]

\* addThermometerParsed, addImpulseCounterParsed
AddParsed(l, ch) ==
  IF l.parser = NoIndex \/ ch.key = NoKey THEN Failed(l)
  ELSE [l EXCEPT !.channels =
                   Append(@, [type |-> ch.type, parser |-> l.parser, key |-> ch.key,
                              multiplier |-> ch.multiplier])]
\* addBinaryParsed does not look for a multiplier.
AddBinary(l, ch) == AddParsed(l, [ch EXCEPT !.multiplier = 1])
\* addElectricityMeterParsed: every parameter may be left out.
AddMeter(l, ch) ==
  IF l.parser = NoIndex THEN Failed(l)
  ELSE [l EXCEPT !.channels = Append(@, [type |-> MeterParsed, parser |-> l.parser, key |-> ch.key,
                                         multiplier |-> ch.multiplier])]
\* addFronius: the address has to be there; here it is the key.
AddFronius(l, ch) ==
  IF ch.key = NoKey THEN Failed(l)
  ELSE [l EXCEPT !.channels = Append(@, [type |-> "Fronius", parser |-> NoIndex])]
AddVirtualRelay(l) ==
  [l EXCEPT !.channels = Append(@, [type |-> "VirtualRelay", parser |-> NoIndex])]
AddChannel(l, ch) ==
  CASE ch.type \in NumberTypes -> AddParsed(l, ch)
    [] ch.type = "BinaryParsed" -> AddBinary(l, ch)
    [] ch.type = MeterParsed -> AddMeter(l, ch)
    [] ch.type = "Fronius" -> AddFronius(l, ch)
    [] ch.type = "VirtualRelay" -> AddVirtualRelay(l)
    [] OTHER -> Failed(l)

ParseChannel(l, ch) ==
  LET withSource == AddSource(l, ch.source)
      withParser == IF withSource.ok THEN AddParser(withSource, ch.parser) ELSE withSource
  IN IF withParser.ok THEN AddChannel(withParser, ch) ELSE withParser

LoadChannels(cfg) ==
  LET Loaded[i \in 0 .. Len(cfg)] ==
        IF i = 0 THEN NothingLoaded
        ELSE LET before == Loaded[i - 1]
             IN IF before.ok THEN ParseChannel(before, cfg[i]) ELSE before
  IN IF cfg = << >> THEN Failed(NothingLoaded) ELSE Loaded[Len(cfg)]

-----------------------------------------------------------------------------
VARIABLES
  cfgFile,
  loaded,     \* what loadChannels made of it
  content,    \* of each file
  tooOld,     \* files that are older than their expiration time
  writes,     \* changes so far, at most MostWrites
  valid, read,\* of each parser: its flag and the numbers it has
  due,        \* parsers not refreshed for refreshTimeMs
  parsedShown,      \* value of each channel
  said        \* by parser: what its source gave when it was last asked

parsedVars == <<cfgFile, loaded, content, tooOld, writes, valid, read, due, parsedShown, said>>

Parsers == DOMAIN loaded.parsers
Parsed == {c \in DOMAIN loaded.channels : loaded.channels[c].parser # NoIndex}
NotAvailable(type) == IF type = "ThermometerParsed" THEN -275 ELSE 0

LinuxTypeOK ==
  /\ loaded = LoadChannels(cfgFile)
  /\ \A f \in FileNames : content[f] \in Contents
  /\ tooOld \subseteq FileNames /\ writes \in 0 .. MostWrites
  /\ valid \in [Parsers -> BOOLEAN] /\ due \subseteq Parsers
  /\ DOMAIN read = Parsers /\ DOMAIN said = Parsers

-----------------------------------------------------------------------------
(***************************************************************************)
(* File and Cmd::getContent, the parsers, and the channels                 *)
(***************************************************************************)
CmdContent(file) == content[file]
FileContent(file) == IF file \in tooOld THEN NoContent ELSE content[file]
GetContent(file, expires) == IF expires THEN FileContent(file) ELSE CmdContent(file)

\* refreshSource: a parser that fails keeps the numbers it had.
RefreshedSimple(p, c) ==
  IF c = NoContent THEN [valid |-> FALSE, read |-> read[p]]
  ELSE [valid |-> TRUE, read |-> c.numbers]
RefreshedJson(p, c) ==
  IF c = NoContent \/ c.text THEN [valid |-> FALSE, read |-> read[p]]
  ELSE [valid |-> TRUE, read |-> c.numbers]
Refreshed(p, c) ==
  IF loaded.parsers[p].type = "Json" THEN RefreshedJson(p, c) ELSE RefreshedSimple(p, c)

\* getValue: a number that is not there makes the whole parser invalid until it is refreshed.
Has(numbers, key) == key + 1 \in DOMAIN numbers

\* The mutant does not ask whether the parser is valid.
TemperatureAlways(value, isValid) == value
Temperature(value, isValid) == IF isValid THEN value ELSE NotAvailable("ThermometerParsed")
Counter(value, isValid) == IF isValid THEN value ELSE NotAvailable("ImpulseCounterParsed")
State(value, isValid) == IF isValid /\ value = 1 THEN 1 ELSE NotAvailable("BinaryParsed")

\* A meter shows what it gets as long as its source was not unreadable just now.
Voltage(value, wasRead) == IF wasRead THEN value ELSE NotAvailable(MeterParsed)

Shown(ch, number, isValid) ==
  CASE ch.type = "ThermometerParsed" -> Temperature(number * ch.multiplier, isValid)
    [] ch.type = "ImpulseCounterParsed" -> Counter(number * ch.multiplier, isValid)
    [] ch.type = "BinaryParsed" -> State(number, isValid)
    [] ch.type = MeterParsed -> Voltage(number * ch.multiplier, isValid)

-----------------------------------------------------------------------------
\* What the file says of channel c, read from the end: its parser is the last one of that
\* name, the source of a parser is the last one of that name before it.
Latest(c, field, name) ==
  CHOOSE i \in 1 .. c : /\ cfgFile[i][field].is = "new" /\ cfgFile[i][field].name = name
                        /\ \A j \in i + 1 .. c : cfgFile[j][field].is # "new"
                                                 \/ cfgFile[j][field].name # name
Definition(c, field) ==
  IF cfgFile[c][field].is = "use" THEN Latest(c, field, cfgFile[c][field].name) ELSE c
FileOf(c) == cfgFile[Definition(Definition(c, "parser"), "source")].source

\* getValue of a channel, and what it shows afterwards.
Poll(c) ==
  /\ loaded.ok /\ c \in Parsed
  /\ LET ch == loaded.channels[c]
         p == ch.parser
         source == loaded.sources[loaded.parsers[p].source]
         now == IF p \in due THEN Refreshed(p, GetContent(source.file, source.expires))
                ELSE [valid |-> valid[p], read |-> read[p]]
         asked == p \notin due \/ now.valid
         isValid == now.valid /\ (asked /\ ch.key # NoKey => Has(now.read, ch.key))
     IN /\ valid' = [valid EXCEPT ![p] = isValid]
        /\ read' = [read EXCEPT ![p] = now.read]
        /\ due' = due \ {p}
        /\ parsedShown' = [parsedShown EXCEPT ![c] =
                       Shown(ch, IF Has(now.read, ch.key) THEN now.read[ch.key + 1] ELSE 0,
                             IF ch.type = MeterParsed THEN asked ELSE isValid)]
        /\ said' = IF p \in due
                   THEN [said EXCEPT ![p] = GetContent(FileOf(c).file, FileOf(c).expires)] ELSE said
  /\ UNCHANGED <<cfgFile, loaded, content, tooOld, writes>>

RefreshTimePasses(p) ==
  /\ p \notin due /\ due' = due \cup {p}
  /\ UNCHANGED <<cfgFile, loaded, content, tooOld, writes, valid, read, parsedShown, said>>

\* Whoever writes the files (or the commands' output), or stops writing them.
Write(f, c) ==
  /\ writes < MostWrites /\ writes' = writes + 1
  /\ content' = [content EXCEPT ![f] = c] /\ tooOld' = tooOld \ {f}
  /\ UNCHANGED <<cfgFile, loaded, valid, read, due, parsedShown, said>>
Expires(f) ==
  /\ tooOld' = tooOld \cup {f}
  /\ UNCHANGED <<cfgFile, loaded, content, writes, valid, read, due, parsedShown, said>>

ParsedInit ==
  /\ cfgFile \in ConfigFiles /\ loaded = LoadChannels(cfgFile)
  /\ content = [f \in FileNames |-> NoContent] /\ tooOld = {} /\ writes = 0
  /\ valid = [p \in Parsers |-> FALSE] /\ read = [p \in Parsers |-> << >>]
  /\ due = Parsers /\ said = [p \in Parsers |-> NoContent]
  /\ parsedShown = [c \in DOMAIN loaded.channels |-> NotAvailable(loaded.channels[c].type)]

ParsedNext ==
  \/ \E c \in Parsed : Poll(c)
  \/ \E p \in Parsers : RefreshTimePasses(p)
  \/ \E f \in FileNames : Expires(f) \/ \E c \in Contents : Write(f, c)

-----------------------------------------------------------------------------
\* A channel that was read shows what the source the configuration names for it said when it
\* was last asked, or that there is no value: never what an earlier answer said, what another
\* source says, or a value that is not in the answer.  It shows the value if the answer has
\* all that the channels of its parser ask for.
Understood(p, c) == c # NoContent /\ ~(loaded.parsers[p].type = "Json" /\ c.text)
SaidTo(c, isSaid) ==
  LET ch == loaded.channels[c]
  IN IF Understood(ch.parser, isSaid[ch.parser]) /\ Has(isSaid[ch.parser].numbers, ch.key)
     THEN Shown(ch, isSaid[ch.parser].numbers[ch.key + 1], TRUE) ELSE NotAvailable(ch.type)
IsComplete(p, isSaid) ==
  \A d \in Parsed :
    loaded.channels[d].parser = p /\ loaded.channels[d].key # NoKey =>
      Has(isSaid[p].numbers, loaded.channels[d].key)

\* A meter does so only at the polls that ask its source.
PolledIsSaid(c) ==
  loaded.channels[c].type # MeterParsed \/ loaded.channels[c].parser \in due =>
    /\ parsedShown'[c] \in {SaidTo(c, said'), NotAvailable(loaded.channels[c].type)}
    /\ IsComplete(loaded.channels[c].parser, said') => parsedShown'[c] = SaidTo(c, said')

ParsedIsSaid == [][\A c \in Parsed : Poll(c) => PolledIsSaid(c)]_parsedVars
=============================================================================
