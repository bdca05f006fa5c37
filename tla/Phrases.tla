------------------------------ MODULE Phrases -------------------------------
(***************************************************************************)
(* What the listener takes a free text for when no model answers: a        *)
(* cascade of patterns, the first that matches wins.  A text is a sequence *)
(* of words, and one word stands for the alternatives of a pattern.        *)
(***************************************************************************)
EXTENDS Integers, Sequences, FiniteSets, FiniteSetsExt, Functions

CONSTANTS
  Tickers,    \* words of one to five letters that are symbols and no company
  Fillers,    \* short words no pattern knows: "my", "me", "out"
  Companies,  \* names of the company table, the longest first
  TickerOf    \* the table

KeyWords == {"close", "everything", "show", "pending", "help", "halt", "clear",
             "reset", "decide", "buy"}

Words   == KeyWords \cup Tickers \cup Fillers \cup Range(Companies) \cup {"5"}
Texts   == UNION {[1..n -> Words] : n \in 1..3}
Symbols == (Words \ {"everything", "pending", "decide", "5"}) \ Range(Companies)
NoSym   == "none"

Commands == [cmd : {"flatten", "status", "pending", "help", "halt", "reset", "run", "unknown"}]
       \cup [cmd : {"close"}, sym : Symbols \cup {NoSym}]
       \cup [cmd : {"buy"}, sym : Symbols \cup {NoSym}, qty : 0..1]

ASSUME PhrasesAssumption ==
  /\ Companies \in Seq(STRING)
  /\ TickerOf \in [Range(Companies) -> Tickers]
  /\ Tickers \cap Range(Companies) = {}
  /\ (Tickers \cup Fillers \cup Range(Companies)) \cap (KeyWords \cup {"5", NoSym}) = {}

Has(t, w) == w \in Range(t)

Adjacent(t, v, w) == \E i \in 1..Len(t) - 1 : t[i] = v /\ t[i + 1] = w

\* The longest company name in the words, or else the first of them, but for
\* those of the pattern, that could be a ticker: five letters at most, whatever
\* it means.
Resolved(t, pattern) ==
  LET named  == {i \in DOMAIN Companies : Has(t, Companies[i])}
      shaped == {i \in DOMAIN t : t[i] \in Symbols \ pattern}
  IN  IF named # {} THEN TickerOf[Companies[Min(named)]]
      ELSE IF shaped # {} THEN t[Min(shaped)]
      ELSE NoSym

\* What follows the first "close" that is followed by letters up to the end.
Closable(t) == {i \in 1..Len(t) - 1 :
                  t[i] = "close" /\ \A j \in i + 1..Len(t) : t[j] # "5"}
CloseRest(t) == IF Closable(t) = {} THEN <<>> ELSE SubSeq(t, Min(Closable(t)) + 1, Len(t))

Matches(t, p) ==
  CASE p = "flatten" -> Adjacent(t, "close", "everything")
    [] p = "close"   -> Resolved(CloseRest(t), {}) # NoSym
    [] p = "status"  -> Has(t, "show")
    [] p = "reset"   -> Has(t, "reset") \/ Adjacent(t, "clear", "halt")
    [] p = "run"     -> Has(t, "decide")
    [] OTHER         -> Has(t, p)

Patterns == <<"flatten", "close", "status", "pending", "help", "halt", "reset", "run", "buy">>

\* What is bought: the words that are no part of the pattern itself.
Bought(t) == Resolved(t, {"buy"})

ParseNL(t) ==
  LET found == {i \in DOMAIN Patterns : Matches(t, Patterns[i])}
      cmd   == IF found = {} THEN "unknown" ELSE Patterns[Min(found)]
  IN  CASE cmd = "close" -> [cmd |-> "close", sym |-> Resolved(CloseRest(t), {})]
        [] cmd = "buy"   -> IF Has(t, "5") THEN [cmd |-> "buy", sym |-> Bought(t), qty |-> 1]
                            ELSE [cmd |-> "unknown"]
        [] OTHER         -> [cmd |-> cmd]
=============================================================================
