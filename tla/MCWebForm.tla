----------------------------- MODULE MCWebForm -----------------------------
(***************************************************************************)
(* What users write into the pages, and what applications store.           *)
(***************************************************************************)
EXTENDS WebForm

\* Texts at, under and over their limits, escapes, texts that a page does not show as they are,
\* numbers out of range and malformed.
Times(n, c) == [i \in 1..n |-> c]
MCEdits ==
  { [page |-> "main",
     fields |-> [sid |-> <<"a", " ", "&">>, eml |-> <<"c", Quote, "=">>, pro |-> <<"0">>,
                 svr |-> Times(12, "b"), mqttuser |-> Times(23, "v"), mqttport |-> <<"x">>,
                 mqttpooldelay |-> <<"9", "9", "9", "9">>]],
    [page |-> "main",
     fields |-> [pro |-> <<"1">>, mqttuser |-> Times(22, "u"), mqttqos |-> <<"5">>,
                 mqttport |-> <<"7", "0", "0", "0", "0">>, wpw |-> <<"=", "=">>,
                 mqttpasswd |-> <<Quote>>, mqttprefix |-> <<"d">> \o Reference,
                 led |-> <<"2">>, upd |-> <<"1">>]] }
\* An application that uses the key of a setting for a value of another type.
MCCustom == {<<"int8", 1>>}
=============================================================================
