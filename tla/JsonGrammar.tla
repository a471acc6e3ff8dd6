----------------------------- MODULE JsonGrammar -----------------------------
(***************************************************************************)
(* GrammarState of inference/grammar.rs in its JSON modes: which tokens it *)
(* allows and where it takes the output for complete, while a language     *)
(* model writes a JSON document token by token.  What a valid document is  *)
(* decides serde_json, which is external: Documents are generated from the *)
(* grammar of JSON.  The mode for regular expressions allows everything    *)
(* and is left out.                                                        *)
(***************************************************************************)
EXTENDS Integers, Sequences, FiniteSets, SequencesExt

CONSTANTS
  Nesting,    \* how deep the documents are nested
  MaxToken    \* characters of a token

GrammarAssumption == Nesting \in Nat \ {0} /\ MaxToken \in Nat \ {0}

VARIABLES
  document,    \* what the language model is about to write
  outputSoFar,
  depth, inString, escaped

grammarVars == <<document, outputSoFar, depth, inString, escaped>>

-----------------------------------------------------------------------------
\* "word" stands for what numbers and literals are made of, "other" for a character that
\* JSON has in strings only.
Q == "quote"
B == "backslash"
Outside == {"lbrace", "rbrace", "lbracket", "rbracket", Q, B, "comma", "colon", "word", "blank"}

\* Strings with brackets, quotes and backslashes in them.
Strings == {<<Q, Q>>, <<Q, "lbrace", Q>>, <<Q, "other", Q>>, <<Q, B, Q, Q>>, <<Q, B, B, Q>>}

Enclosed(open, text, close) == <<open>> \o text \o <<close>>

\* Arrays and objects of these values; of two elements the second is a string.
Around(V) ==
  {Enclosed("lbracket", <<>>, "rbracket"), Enclosed("lbrace", <<>>, "rbrace")}
    \cup {Enclosed("lbracket", v, "rbracket") : v \in V}
    \cup {Enclosed("lbracket", v \o <<"comma">> \o s, "rbracket") : v \in V, s \in Strings}
    \cup {Enclosed("lbrace", s \o <<"colon">> \o v, "rbrace") : v \in V, s \in Strings}

\* The values up to a nesting.
Values[n \in 0..Nesting] ==
  IF n = 0 THEN Strings \cup {<<"word">>} ELSE Values[n - 1] \cup Around(Values[n - 1])

\* A number or a literal cannot start an output; spaces may surround it.
Documents ==
  {space \o v \o space : v \in Values[Nesting] \ {<<"word">>}, space \in {<<>>, <<"blank">>}}

GrammarInit ==
  /\ document \in Documents
  /\ outputSoFar = <<>> /\ depth = 0 /\ inString = FALSE /\ escaped = FALSE

Blank(s) == \A i \in DOMAIN s : s[i] = "blank"

\* The first character of a text without its spaces.
FirstOf(s) == s[CHOOSE i \in DOMAIN s : s[i] # "blank" /\ \A j \in 1..(i - 1) : s[j] = "blank"]

-----------------------------------------------------------------------------
\* The state of the tracker after one more character.
Tracked(s, c) ==
  IF s.inString
  THEN [s EXCEPT !.escaped = ~s.escaped /\ c = B,
                 !.inString = ~(~s.escaped /\ c = Q)]
  ELSE [s EXCEPT !.inString = (c = Q),
                 !.depth = CASE c \in {"lbrace", "lbracket"} -> @ + 1
                             [] c \in {"rbrace", "rbracket"} -> @ - 1
                             [] OTHER -> @]

\* The states of the tracker along a text.
Run(s, text) ==
  LET at[i \in 0..Len(text)] == IF i = 0 THEN s ELSE Tracked(at[i - 1], text[i])
  IN  at

\* Of a token that starts the output only the first character is looked at, and of
\* one that starts in a string none.
is_token_allowed(token) ==
  ~inString /\ ~Blank(token) =>
    IF Blank(outputSoFar) THEN FirstOf(token) \in {"lbrace", "lbracket", Q}
    ELSE ToSet(token) \subseteq Outside

Tracker == [depth |-> depth, inString |-> inString, escaped |-> escaped]

is_complete == ~inString /\ depth = 0 /\ ~Blank(outputSoFar)

Rest == SubSeq(document, Len(outputSoFar) + 1, Len(document))

\* The tokens the language model may write next.
NextTokens == {SubSeq(Rest, 1, n) : n \in {m \in 1..MaxToken : m <= Len(Rest)}}

advance ==
  \E token \in NextTokens :
    /\ is_token_allowed(token)
    /\ outputSoFar' = outputSoFar \o token
    /\ LET s == Run(Tracker, token)[Len(token)]
       IN  depth' = s.depth /\ inString' = s.inString /\ escaped' = s.escaped
    /\ UNCHANGED document

GrammarNext == advance

GrammarSpec == GrammarInit /\ [][GrammarNext]_grammarVars

-----------------------------------------------------------------------------
GrammarTypeOK ==
  /\ document \in Seq(Outside \cup {"other"})
  /\ outputSoFar = SubSeq(document, 1, Len(outputSoFar))
  /\ depth \in Int /\ inString \in BOOLEAN /\ escaped \in BOOLEAN

\* Every document can be written: its next character is allowed wherever tokens
\* begin, and a longer token is refused only when it holds a character that it
\* brings into a string it opens itself.
NeverStuck ==
  \A token \in NextTokens :
    is_token_allowed(token) \/ (Len(token) > 1 /\ ~inString /\ "other" \in ToSet(token))

\* And it is taken for complete when all of it is there, however it was cut into
\* tokens, and not before.
CompleteWhenWhole ==
  is_complete <=> ~Blank(outputSoFar) /\ Blank(Rest)

GrammarSound == NeverStuck /\ CompleteWhenWhole
=============================================================================
