------------------------------ MODULE MCPhone -------------------------------
(***************************************************************************)
(* One listed symbol, one company of the table, one filler word that looks *)
(* like a ticker; the sentences in which two patterns compete.  A day      *)
(* takes one order, and so does a window, which spans midnight.            *)
(***************************************************************************)
EXTENDS Phone

MCCompanies == <<"tesla">>
MCTickerOf  == [c \in {"tesla"} |-> "TSLA"]

MCMessages ==
  {<<"close", "everything">>, <<"close", "my", "TSLA">>, <<"close", "tesla">>,
   <<"show", "pending">>, <<"clear", "halt">>, <<"reset">>,
   <<"buy", "my", "5">>, <<"buy", "tesla">>}

MCAsked ==
  {[cmd |-> c] : c \in {"flatten", "halt", "status"}}
  \cup {[cmd |-> "close", sym |-> "TSLA"]}
  \cup {[cmd |-> "buy", sym |-> "TSLA", qty |-> 0], [cmd |-> "buy", sym |-> NoSym, qty |-> 1]}
=============================================================================
