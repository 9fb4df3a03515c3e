------------------------------ MODULE WikiText ------------------------------
(***************************************************************************)
(* WikiModel's split of an extract into the sentences offered for choice.  *)
(* A text is a sequence of tokens.  What matters of a token is whether     *)
(* NSLinguisticTagger takes it for a sentence terminator; line breaks and  *)
(* the white space around a sentence are left out.                         *)
(***************************************************************************)
EXTENDS Naturals, FiniteSets, SequencesExt

CONSTANTS Words, Stops

ASSUME TokensAssumption == Words \cap Stops = {}

Texts == Seq(Words \cup Stops)

Terminators(text) == {i \in DOMAIN text : text[i] \in Stops}

\* ixs[n]: the terminator that is the n-th of the text.
Ixs(text, n) ==
    CHOOSE i \in Terminators(text) : Cardinality({j \in Terminators(text) : j <= i}) = n

\* Wrong: prev is left at the terminator.
SentencesFromStop(text) ==
    LET prev(n) == IF n = 1 THEN 1 ELSE Ixs(text, n - 1)
    IN  [n \in 1 .. Cardinality(Terminators(text)) |-> SubSeq(text, prev(n), Ixs(text, n))]

\* linguisticTag: a sentence for each terminator, from behind the previous one.
Sentences(text) ==
    LET prev(n) == IF n = 1 THEN 1 ELSE Ixs(text, n - 1) + 1
    IN  [n \in 1 .. Cardinality(Terminators(text)) |-> SubSeq(text, prev(n), Ixs(text, n))]
=============================================================================
