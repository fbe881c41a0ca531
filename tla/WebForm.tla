------------------------------ MODULE WebForm ------------------------------
(***************************************************************************)
(* The configuration pages: what they show of the settings, and how a form *)
(* that is posted becomes calls of setters.  On ESP-IDF the body comes in  *)
(* chunks, cut anywhere, and WebServer::parsePost carries half a key or    *)
(* half a value over to the next chunk; on Arduino the library has taken   *)
(* the arguments apart.                                                    *)
(*                                                                         *)
(* A form is a sequence of <<name, text>>.  A name is sent as two cells, a *)
(* text as one cell for a character, three for one that is escaped.        *)
(***************************************************************************)
EXTENDS ConfigStore

CONSTANTS
  MostPosts,     \* bound: forms posted
  Edits,         \* [page, fields]: what a user writes into the fields of a page before saving it
  ValueLength,   \* HTML_VAL_LENGTH
  RecvSizes      \* what httpd_req_recv may return, bounded by its buffer

ASSUME WebAssumption ==
  /\ MostPosts \in Nat /\ ValueLength \in Nat \ {0} /\ RecvSizes \subseteq Nat \ {0}
  /\ \A edit \in Edits : \A name \in DOMAIN edit.fields : edit.fields[name] \in Seq(STRING)

KeyLength == 3   \* HTML_KEY_LENGTH, in cells: every name the pages use fits

VARIABLES
  post,       \* the request handlePost is working on
  dataSaved,  \* the next page says "Data saved"
  posts       \* forms posted
webVars == <<configVars, post, dataSaved, posts>>

Least(a, b) == IF a <= b THEN a ELSE b

NoPost == [form |-> << >>, body |-> << >>, key |-> << >>, value |-> << >>,
           keyFound |-> FALSE, partialSize |-> 0, before |-> << >>]

-----------------------------------------------------------------------------
(***************************************************************************)
(* The form's encoding by the browser, and tools.cpp.                      *)
(***************************************************************************)
Digits == <<"0", "1", "2", "3", "4", "5", "6", "7", "8", "9">>
Digit == [d \in Range(Digits) |-> CHOOSE n \in 0..9 : Digits[n + 1] = d]

Quote == "quote"    \* the character that ends an attribute
Escapes == {"&", "=", ";", "<", Quote}    \* of all but letters, digits and -_.~
EscapeOf(c) ==
  CASE c = "&" -> <<"%", "2", "6">>
    [] c = "=" -> <<"%", "3", "D">>
    [] c = ";" -> <<"%", "3", "B">>
    [] c = "<" -> <<"%", "3", "C">>
    [] OTHER -> <<"%", "2", "2">>
Encoded(text) ==
  FlattenSeq([i \in DOMAIN text |->
                CASE text[i] = " " -> <<"+">>
                  [] text[i] \in Escapes -> EscapeOf(text[i])
                  [] OTHER -> <<text[i]>>])

NameCells(name) == <<name, "..">>
BodyOf(form) ==
  FlattenSeq([i \in DOMAIN form |->
     (IF i = 1 THEN << >> ELSE <<"&">>) \o NameCells(form[i][1]) \o <<"=">> \o Encoded(form[i][2])])

\* urlDecodeInplace of a value that was cut to its buffer: "%" at its end is dropped, half an
\* escape is another character.
InEscape(cells, i) == \E j \in {i - 1, i - 2} : j >= 1 /\ cells[j] = "%"
Character(cells, i) ==
  LET meant == {c \in Escapes : EscapeOf(c) = SubSeq(cells, i, Least(i + 2, Len(cells)))}
  IN  CASE cells[i] = "+" -> " "
        [] cells[i] = "%" -> IF meant = {} THEN "?" ELSE CHOOSE c \in meant : TRUE
        [] OTHER -> cells[i]
Decoded(cells) ==
  FlattenSeq([i \in DOMAIN cells |->
                IF InEscape(cells, i) \/ (i = Len(cells) /\ cells[i] = "%") THEN << >>
                ELSE <<Character(cells, i)>>])

\* stringToUInt, and a number as the page shows it.
NumberIn(text) ==
  IF \E i \in DOMAIN text : text[i] \notin DOMAIN Digit THEN 0
  ELSE LET f[i \in 0..Len(text)] == IF i = 0 THEN 0 ELSE 10 * f[i - 1] + Digit[text[i]]
       IN  f[Len(text)]
Powers == <<1, 10, 100, 1000, 10000>>
Shown(n) ==
  LET long == Cardinality({k \in DOMAIN Powers : k = 1 \/ n >= Powers[k]})
  IN  [i \in 1..long |-> Digits[((n \div Powers[long - i + 1]) % 10) + 1]]

-----------------------------------------------------------------------------
(***************************************************************************)
(* The elements of the pages (html/).  handleResponse gives the calls that *)
(* a name and its value make; send what the page shows.                    *)
(***************************************************************************)
Bit(condition) == IF condition THEN 1 ELSE 0

TextFields ==
  [sid |-> "wifissid", svr |-> "suplaserver", eml |-> "email", mqttserver |-> "mqttserver",
   mqttuser |-> "mqttuser", mqttprefix |-> "mqttprefix"]
FieldsKeptWhenEmpty == [wpw |-> "wifipasswd", mqttpasswd |-> "mqttpasswd", swupdateurl |-> "swupdateurl"]
FlagFields == [mqtttls |-> "mqtttls", mqttauth |-> "mqttauth", mqttretain |-> "mqttretain"]
NumberFields == [mqttport |-> "mqttport", mqttqos |-> "mqttqos", mqttpooldelay |-> "mqttpooldelay"]

\* mutant: an empty password is a password
EmptyIsStored(name, text) == <<<<FieldsKeptWhenEmpty[name], text>>>>
CallsUnlessEmpty(name, text) ==
  IF text = << >> THEN << >> ELSE <<<<FieldsKeptWhenEmpty[name], text>>>>

ProtocolCalls(n) ==
  <<<<"suplacommproto", Bit(n # 1)>>, <<"mqttcommproto", Bit(n = 1)>>>>
UpdateCalls(n) == <<<<"devicemode", IF n = 1 THEN 4 ELSE 2>>, <<"swupdatebeta", 0>>>>
BetaUpdateCalls(n) ==
  <<<<"devicemode", IF n \in {1, 2} THEN 4 ELSE 2>>, <<"swupdatebeta", Bit(n = 2)>>>>
StatusLedCalls(n) == <<<<"statusled", IF n \in {1, 2} THEN n ELSE 0>>>>

\* Nothing happens with a name that no element knows, "rbt" among them: it schedules a restart,
\* which is HandleWebRequest of SuplaDevice.
HandleResponse(name, text) ==
  CASE name \in DOMAIN TextFields -> <<<<TextFields[name], text>>>>
    [] name \in DOMAIN FieldsKeptWhenEmpty -> CallsUnlessEmpty(name, text)
    [] name \in DOMAIN FlagFields -> <<<<FlagFields[name], Bit(NumberIn(text) = 1)>>>>
    [] name \in DOMAIN NumberFields -> <<<<NumberFields[name], NumberIn(text)>>>>
    [] name = "pro" -> ProtocolCalls(NumberIn(text))
    [] name = "upd" -> UpdateCalls(NumberIn(text))
    [] name = "updbeta" -> BetaUpdateCalls(NumberIn(text))
    [] name = "led" -> StatusLedCalls(NumberIn(text))
    [] OTHER -> << >>

CallsOfForm(form) == FlattenSeq([i \in DOMAIN form |-> HandleResponse(form[i][1], form[i][2])])

\* A text is sent as it is between the quotes of value="...": for the browser the first quote in
\* it ends the value (what follows is no value of this field), and a character reference stands
\* for its character.  "&lt;" stands for all of them.
Reference == <<"&", "l", "t", ";">>
StartsReference(cells, i) == SubSeq(cells, i, Least(i + 3, Len(cells))) = Reference
InReference(cells, i) == \E j \in {i - 3, i - 2, i - 1} : j >= 1 /\ StartsReference(cells, j)
Before(cells, c) ==
  SubSeq(cells, 1, Min({i \in DOMAIN cells : cells[i] = c} \cup {Len(cells) + 1}) - 1)
ReadFromAttribute(text) ==
  LET cells == Before(text, Quote)
  IN  FlattenSeq([i \in DOMAIN cells |->
                    IF StartsReference(cells, i) THEN <<"<">>
                    ELSE IF InReference(cells, i) THEN << >> ELSE <<cells[i]>>])

\* What send() of every element puts into the form, as the browser reads it.  A select of which
\* no option is selected shows its first one; passwords are not shown.
TextShown(s) == IF Get(s) = NotSet THEN << >> ELSE ReadFromAttribute(Get(s))
UpdateShown == IF Get("devicemode") = 4 THEN 1 ELSE 0
MainPage ==
  <<<<"sid", TextShown("wifissid")>>, <<"wpw", << >>>>,
    <<"pro", Shown(Bit(Get("mqttcommproto") = 1))>>,
    <<"svr", TextShown("suplaserver")>>, <<"eml", TextShown("email")>>,
    <<"mqttserver", TextShown("mqttserver")>>, <<"mqttport", Shown(Get("mqttport"))>>,
    <<"mqtttls", Shown(Get("mqtttls"))>>, <<"mqttauth", Shown(Get("mqttauth"))>>,
    <<"mqttuser", TextShown("mqttuser")>>, <<"mqttpasswd", << >>>>,
    <<"mqttprefix", TextShown("mqttprefix")>>, <<"mqttqos", Shown(Get("mqttqos"))>>,
    <<"mqttretain", Shown(Get("mqttretain"))>>,
    <<"mqttpooldelay", Shown(Get("mqttpooldelay"))>>,
    <<"swupdateurl", TextShown("swupdateurl")>>, <<"upd", Shown(UpdateShown)>>,
    <<"led", Shown(Get("statusled"))>>, <<"rbt", Shown(0)>>>>
BetaPage ==
  <<<<"updbeta", Shown(IF UpdateShown = 1 THEN 1 + Get("swupdatebeta") ELSE 0)>>, <<"rbt", Shown(0)>>>>
PageOf(page) == IF page = "main" THEN MainPage ELSE BetaPage

-----------------------------------------------------------------------------
(***************************************************************************)
(* WebServer::parsePost of one chunk.  content[size] is 0 and is gone      *)
(* through as well; "" stands for it.                                      *)
(***************************************************************************)
\* mutant: the size of the first half is kept when a key ends
PartialKept(p, more) == p.partialSize + more
PartialAfterKey(p, more) == 0

\* memcpy to where the first half ends; what lies behind a 0 does not count.
Joined(half, p, piece, limit) ==
  IF Len(half) < p.partialSize THEN half
  ELSE SubSeq(half, 1, p.partialSize) \o SubSeq(piece, 1, Least(Len(piece), limit - 1 - p.partialSize))
NameOf(key) == IF Len(key) = 2 THEN key[1] ELSE ""

\* p: the parser, since: where startPtr is, at: the cell gone through last, fields: what
\* handleResponse is called with.
ParseCell(p, content, i, lastChunk) ==
  LET cell == IF i > Len(content) THEN "" ELSE content[i]
      piece == SubSeq(content, p.since, i - 1)
      key == Joined(p.key, p, piece, KeyLength)
      value == Joined(p.value, p, piece, ValueLength)
  IN  CASE ~p.keyFound /\ (cell = "=" \/ cell = "") ->
             [p EXCEPT !.key = key, !.since = i + 1, !.keyFound = (cell = "="),
                !.partialSize = IF cell = "=" THEN PartialAfterKey(p, Len(key) - p.partialSize)
                                ELSE Len(key)]
        [] p.keyFound /\ (cell = "&" \/ (cell = "" /\ lastChunk)) ->
             [p EXCEPT !.fields = Append(@, <<NameOf(p.key), Decoded(value)>>),
                !.since = i + 1, !.keyFound = FALSE, !.partialSize = 0,
                !.key = << >>, !.value = << >>]
        [] p.keyFound /\ cell = "" /\ ~lastChunk ->
             [p EXCEPT !.value = value, !.since = i + 1, !.partialSize = Len(value)]
        [] OTHER -> p

\* Only separators and the end of the chunk change anything.
NextMark(marks, content, at) == Min({i \in marks : i > at} \cup {Len(content) + 1})
ParsePost(p, content, lastChunk) ==
  LET marks == {i \in DOMAIN content : content[i] \in {"=", "&"}}
      f[k \in 0..Cardinality(marks) + 1] ==
        IF k = 0 THEN [key |-> p.key, value |-> p.value, keyFound |-> p.keyFound,
                       partialSize |-> p.partialSize, since |-> 1, fields |-> << >>, at |-> 0]
        ELSE LET before == f[k - 1]
                 at == NextMark(marks, content, before.at)
             IN  [ParseCell(before, content, at, lastChunk) EXCEPT !.at = at]
  IN  f[Cardinality(marks) + 1]

-----------------------------------------------------------------------------
Posting == post # NoPost
MayPost == running /\ ~resetting /\ ~Posting /\ ~dataSaved /\ posts < MostPosts

\* The form of a page with what the user wrote into it.
FormOf(edit) ==
  LET page == PageOf(edit.page)
  IN  [i \in DOMAIN page |-> <<page[i][1], IF page[i][1] \in DOMAIN edit.fields
                                             THEN edit.fields[page[i][1]] ELSE page[i][2]>>]

\* handlePost of ESP-IDF resets the parser.
PostStarts(edit) ==
  /\ MayPost /\ platform = "espidf"
  /\ post' = [NoPost EXCEPT !.form = FormOf(edit), !.body = BodyOf(FormOf(edit)), !.before = store]
  /\ posts' = posts + 1 /\ UNCHANGED <<configVars, dataSaved>>

\* httpd_req_recv gives the next part, parsePost handles it; the last one commits.
Chunk(most) ==
  LET size == Least(most, Len(post.body))
      lastChunk == size = Len(post.body)
      p == ParsePost(post, SubSeq(post.body, 1, size), lastChunk)
  IN  /\ Posting
      /\ Configure(CallsOfForm(p.fields), lastChunk)
      /\ post' = IF lastChunk THEN NoPost
                 ELSE [post EXCEPT !.body = SubSeq(@, size + 1, Len(@)), !.key = p.key,
                         !.value = p.value, !.keyFound = p.keyFound, !.partialSize = p.partialSize]
      /\ dataSaved' = lastChunk
      /\ UNCHANGED <<platform, running, resetting, device, made, posts>>

\* httpd_req_recv fails: what was handled stays, without a commit.
RecvFails == Posting /\ post' = NoPost /\ UNCHANGED <<configVars, dataSaved, posts>>

\* handlePost of Arduino, which does not commit.
PostAtOnce(edit) ==
  /\ MayPost /\ platform = "arduino"
  /\ Configure(CallsOfForm(FormOf(edit)), FALSE) /\ dataSaved' = TRUE /\ posts' = posts + 1
  /\ UNCHANGED <<platform, running, resetting, device, made, post>>

\* getHandler.
PageIsSent == dataSaved /\ dataSaved' = FALSE /\ UNCHANGED <<configVars, post, posts>>

WebInit == ConfigInit /\ post = NoPost /\ dataSaved = FALSE /\ posts = 0
WebNext ==
  \/ ~Posting /\ ~dataSaved /\ ConfigNext /\ UNCHANGED <<post, dataSaved, posts>>
  \/ (Posting \/ dataSaved) /\ (PowerFails \/ SoftRestart)
     /\ post' = NoPost /\ dataSaved' = FALSE /\ UNCHANGED posts
  \/ \E edit \in Edits : PostStarts(edit) \/ PostAtOnce(edit)
  \/ \E most \in RecvSizes : Chunk(most)
  \/ RecvFails \/ PageIsSent
WebSpec == WebInit /\ [][WebNext]_webVars

WebTypeOK ==
  ConfigTypeOK /\ posts \in 0..MostPosts
  /\ (Posting => running /\ platform = "espidf" /\ post.body # << >> /\ ~dataSaved)
-----------------------------------------------------------------------------
\* When the page says that a form is saved, every setting has what the form's fields make of
\* it, decoded, however the body was cut: in a name, in a value, in an escape, beside a
\* separator.  A text too long for the parser's buffer when it is encoded is not in it.
FitsItsBuffer(form) == \A i \in DOMAIN form : Len(Encoded(form[i][2])) < ValueLength
FormIsStored ==
  [][Posting /\ dataSaved' /\ FitsItsBuffer(post.form)
     => LET list == SetAll([list |-> post.before, told |-> stored], CallsOfForm(post.form)).list
        IN  \A s \in DOMAIN Settings : GetFrom(store', s) = GetFrom(list, s)]_webVars

\* A page as it is shown, saved again, leaves the settings as they are: every value shown is
\* one that its setter takes back, and the passwords, which are not shown, are kept.  The pages
\* do not escape the texts they show, so a text with a double quote or a character reference is
\* changed by it; no other one is, nor a password with one.  Only a device that was in no mode
\* or another one gets into the normal mode.  (After a configuration did not fit, both
\* protocols may be on; the page turns one of them off.)
NothingIsEmpty(value) == IF value = NotSet THEN << >> ELSE value
IsPlain(text) == \A i \in DOMAIN text : text[i] # Quote /\ ~StartsReference(text, i)
SettingsShown == Range(TextFields) \cup {"swupdateurl"}
Misread == {s \in SettingsShown : Get(s) # NotSet /\ ~IsPlain(Get(s))}
KeepsSettings(page, changed) ==
  LET list == SetAll([list |-> store, told |-> stored], CallsOfForm(page)).list
  IN  /\ \A s \in DOMAIN Settings \ changed :
            NothingIsEmpty(GetFrom(list, s)) = NothingIsEmpty(Get(s))
      /\ GetFrom(list, "devicemode") = IF Get("devicemode") = 4 THEN 4 ELSE 2
PageKeepsSettings ==
  running /\ ~Posting /\ Get("suplacommproto") # Get("mqttcommproto") =>
    /\ KeepsSettings(MainPage, {"devicemode", "swupdatebeta"} \cup Misread)
    /\ KeepsSettings(BetaPage, {"devicemode"} \cup
                                 IF Get("devicemode") = 4 THEN {} ELSE {"swupdatebeta"})
=============================================================================
