----------------------------- MODULE Qualification -----------------------------
(***************************************************************************)
(* Qualifications of AR System (services/forms/qualification.py): text in   *)
(* which 'x' names the field x and "x" is a value, and a delimiter inside   *)
(* either is doubled.  A text is a sequence of names, delimiters and        *)
(* whatever else there is; a name stands for all its characters.  Between   *)
(* single quotes AR takes the ID of a field, too: a name like the others.   *)
(***************************************************************************)
EXTENDS Integers, Sequences

CONSTANT Names   \* field names, and IDs in their place

FieldQuote == "'"
ValueQuote == "\""
Backslash == "\\"
Delimiters == {FieldQuote, ValueQuote}
Unterminated == <<>>

ASSUME QualificationAssumption == Names \cap (Delimiters \cup {Backslash}) = {}

(***************************************************************************)
(* How the gateway reads a text                                            *)
(***************************************************************************)

\* A token with one more character in front.
Prepend(x, token) ==
  IF token = Unterminated THEN Unterminated ELSE <<<<x>> \o token[1], token[2]>>

\* For a token that was opened with d: what it holds from each position on, and
\* where the text goes on after it.
Tokens(text, d) ==
  LET from[i \in 1..Len(text) + 1] ==
        IF i > Len(text) THEN Unterminated
        ELSE IF text[i] # d THEN Prepend(text[i], from[i + 1])
        ELSE IF i < Len(text) /\ text[i + 1] = d THEN Prepend(d, from[i + 2])
        ELSE <<<<>>, i + 1>>
  IN  from

ReadQuotedToken(text, start) == Tokens(text, text[start])[start + 1]

\* The fields the text refers to from each position on, as texts; none where
\* the quoting is invalid.
SyntaxError == {<<>>}
References(text) ==
  LET from[i \in 1..Len(text) + 1] ==
        IF i > Len(text) THEN {}
        ELSE IF text[i] \notin Delimiters THEN from[i + 1]
        ELSE LET token == ReadQuotedToken(text, i) IN
             IF \/ token = Unterminated
                \/ text[i] = FieldQuote /\ token[1] = <<>>
                \/ from[token[2]] = SyntaxError
             THEN SyntaxError
             ELSE from[token[2]]
                    \cup (IF text[i] = FieldQuote THEN {token[1]} ELSE {})
  IN  from

ReferencedFields(text) == References(text)[1]

(***************************************************************************)
(* How AR System reads it                                                  *)
(***************************************************************************)

Outside == "outside"

\* The delimiter that is open after i characters.
Open(text) ==
  LET after[i \in 0..Len(text)] ==
        IF i = 0 THEN Outside
        ELSE IF text[i] \notin Delimiters THEN after[i - 1]
        ELSE IF after[i - 1] = Outside THEN text[i]
        ELSE IF after[i - 1] = text[i] THEN Outside
        ELSE after[i - 1]
  IN  after

\* Names between two single quotes that are no part of a longer token.
Quoted(text) ==
  {n \in Names : \E i \in 1..Len(text) - 2 :
     /\ Open(text)[i - 1] = Outside
     /\ SubSeq(text, i, i + 2) = <<FieldQuote, n, FieldQuote>>
     /\ i > 1 => text[i - 1] # FieldQuote
     /\ i + 3 <= Len(text) => text[i + 3] # FieldQuote}

\* The fields it consults.  The bridge escapes quotes with a backslash when it
\* writes a qualification itself (matchAllQualification), the gateway does not
\* know of that: where one stands, AR may read anything.
Escaped(text) == \E i \in DOMAIN text : text[i] = Backslash
Consulted(text) == IF Escaped(text) THEN Names ELSE Quoted(text)
================================================================================
