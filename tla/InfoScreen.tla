----------------------------- MODULE InfoScreen -----------------------------
(***************************************************************************)
(* InfoController: the sentences of the landmark's Wikipedia extract in a  *)
(* collection view whose cells are used again for other rows, the choice   *)
(* of a few of them by tapping, and the Save and Cancel buttons.           *)
(*                                                                         *)
(* viewDidLoad calls testData, not setupModel: the extract asked for is    *)
(* always the same one and landmarkName stays nil.                         *)
(***************************************************************************)
EXTENDS WikiText

CONSTANTS
    Cells,          \* the collection view's cells
    MaxChosen,      \* 5 in handleCellTap
    Extracts,       \* extracts Wikipedia may answer with
    NoDescription   \* the text offered when the page has none

ASSUME MaxChosenAssumption == MaxChosen \in Nat
ASSUME ExtractsAssumption ==
    Extracts \subseteq Texts /\ NoDescription \in Texts /\ Terminators(NoDescription) = {}

VARIABLES
    guest,     \* User.session.isAnonymous
    request,   \* WikiModel.parse: "out" until it is answered
    answer,    \* the text it called back with
    main,      \* getWikiContent's blocks on the main queue
    wiki,      \* infoModel.wikiModel
    rowOf,     \* the row a cell on screen shows and didCellTap handles
    coloured,  \* cells painted as chosen
    selected,  \* rows chosen
    screen     \* "open", "closed", or "trapped" on nil

collection == <<rowOf, coloured>>
vars == <<guest, request, answer, main, wiki, collection, selected, screen>>

NoRow == 0   \* the cell waits to be used again
Rows  == DOMAIN wiki

\* Only rows there are can be shown or chosen.
TypeOK ==
    /\ guest \in BOOLEAN
    /\ request \in {"out", "answered", "lost"}
    /\ answer \in Texts
    /\ main \in Seq(Seq(Texts))
    /\ wiki \in Seq(Texts)
    /\ rowOf \in [Cells -> Rows \cup {NoRow}]
    /\ coloured \in [Cells -> BOOLEAN]
    /\ selected \in SUBSET Rows
    /\ screen \in {"open", "closed", "trapped"}

Init ==
    /\ guest \in BOOLEAN
    /\ request = "out" /\ answer = <<>> /\ main = <<>> /\ wiki = <<>>
    /\ rowOf = [c \in Cells |-> NoRow]
    /\ coloured = [c \in Cells |-> FALSE]
    /\ selected = {}
    /\ screen = "open"

-----------------------------------------------------------------------------
(***************************************************************************)
(* WikiModel, off the main queue.                                          *)
(***************************************************************************)
\* The first page only, with or without an extract.
Answered ==
    /\ request = "out" /\ screen # "trapped"
    /\ request' = "answered"
    /\ \E text \in Extracts \cup {NoDescription} :
           /\ answer' = text
           /\ main' = Append(main, Sentences(text))
    /\ UNCHANGED <<guest, wiki, collection, selected, screen>>

\* No address, no data, no JSON or no page: nobody is called back.
Lost ==
    /\ request = "out" /\ screen # "trapped"
    /\ request' = "lost"
    /\ UNCHANGED <<guest, answer, main, wiki, collection, selected, screen>>

\* The block sets the model and reloads: every cell goes back.
SetModel ==
    /\ main # <<>> /\ screen # "trapped"
    /\ wiki' = Head(main)
    /\ main' = Tail(main)
    /\ rowOf' = [c \in Cells |-> NoRow]
    /\ UNCHANGED <<guest, request, answer, coloured, selected, screen>>

-----------------------------------------------------------------------------
(***************************************************************************)
(* The collection view.                                                    *)
(***************************************************************************)
\* Wrong: only a chosen row's colour is set.
CellForItemAtPainting(c, row) ==
    /\ screen = "open"
    /\ rowOf[c] = NoRow /\ \A d \in Cells : rowOf[d] # row
    /\ rowOf' = [rowOf EXCEPT ![c] = row]
    /\ coloured' = IF row \in selected THEN [coloured EXCEPT ![c] = TRUE] ELSE coloured
    /\ UNCHANGED <<guest, request, answer, main, wiki, selected, screen>>

CellForItemAt(c, row) ==
    /\ screen = "open"
    /\ rowOf[c] = NoRow /\ \A d \in Cells : rowOf[d] # row
    /\ rowOf' = [rowOf EXCEPT ![c] = row]
    /\ coloured' = [coloured EXCEPT ![c] = (row \in selected)]
    /\ UNCHANGED <<guest, request, answer, main, wiki, selected, screen>>

\* A row is scrolled away; its cell keeps its colour.
ScrollAway(c) ==
    /\ screen = "open" /\ rowOf[c] # NoRow
    /\ rowOf' = [rowOf EXCEPT ![c] = NoRow]
    /\ UNCHANGED <<guest, request, answer, main, wiki, coloured, selected, screen>>

\* Wrong: one too many.
ChooseOneMore(c) ==
    /\ screen = "open" /\ rowOf[c] \in Rows \ selected
    /\ Cardinality(selected) <= MaxChosen
    /\ coloured' = [coloured EXCEPT ![c] = TRUE]
    /\ selected' = selected \cup {rowOf[c]}
    /\ UNCHANGED <<guest, request, answer, main, wiki, rowOf, screen>>

\* Wrong: rows counted from the one after.
ChooseNext(c) ==
    /\ screen = "open" /\ rowOf[c] \in Rows \ selected
    /\ Cardinality(selected) < MaxChosen
    /\ coloured' = [coloured EXCEPT ![c] = TRUE]
    /\ selected' = selected \cup {rowOf[c] + 1}
    /\ UNCHANGED <<guest, request, answer, main, wiki, rowOf, screen>>

\* handleCellTap on a row that is not chosen; with MaxChosen there is an alert.
Choose(c) ==
    /\ screen = "open" /\ rowOf[c] \in Rows \ selected
    /\ Cardinality(selected) < MaxChosen
    /\ coloured' = [coloured EXCEPT ![c] = TRUE]
    /\ selected' = selected \cup {rowOf[c]}
    /\ UNCHANGED <<guest, request, answer, main, wiki, rowOf, screen>>

Unchoose(c) ==
    /\ screen = "open" /\ rowOf[c] \in selected
    /\ coloured' = [coloured EXCEPT ![c] = FALSE]
    /\ selected' = selected \ {rowOf[c]}
    /\ UNCHANGED <<guest, request, answer, main, wiki, rowOf, screen>>

-----------------------------------------------------------------------------
\* saveHandler for an account: landmarkName is nil where a String is needed.
Save ==
    /\ screen = "open" /\ ~guest
    /\ screen' = "trapped"
    /\ UNCHANGED <<guest, request, answer, main, wiki, collection, selected>>

CancelHandler ==
    /\ screen = "open"
    /\ screen' = "closed"
    /\ UNCHANGED <<guest, request, answer, main, wiki, collection, selected>>

Next ==
    \/ Answered \/ Lost \/ SetModel \/ Save \/ CancelHandler
    \/ \E c \in Cells :
           \/ ScrollAway(c) \/ Choose(c) \/ Unchoose(c)
           \/ \E row \in Rows : CellForItemAt(c, row)

Spec == Init /\ [][Next]_vars

-----------------------------------------------------------------------------
(***************************************************************************)
(* At most MaxChosen sentences are chosen, whatever is tapped, scrolled    *)
(* and used again in between (InfoCollectionViewDelegate.swift:57-76).     *)
(***************************************************************************)
AtMostChosen == Cardinality(selected) <= MaxChosen

(***************************************************************************)
(* A cell on screen is painted if and only if the row it shows now is      *)
(* chosen, though cells are used again for other rows                      *)
(* (InfoCollectionViewDelegate.swift:26-33, :63, :72).                     *)
(***************************************************************************)
ColourIsChoice ==
    \A c \in Cells : rowOf[c] # NoRow => (coloured[c] <=> rowOf[c] \in selected)

(***************************************************************************)
(* The sentences offered, one after the other, are the answer up to its    *)
(* last terminator: nothing is doubled or lost before it, and what follows *)
(* it (all of "No Description") is offered nowhere                         *)
(* (InfoModel.swift:129-148).                                              *)
(***************************************************************************)
SentencesCoverAnswer ==
    request = "answered" /\ main = <<>> =>
        LET upTo == Cardinality({i \in DOMAIN answer :
                        \E j \in Terminators(answer) : i <= j})
        IN  FlattenSeq(wiki) = SubSeq(answer, 1, upTo)
=============================================================================
