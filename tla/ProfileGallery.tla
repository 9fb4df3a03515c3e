--------------------------- MODULE ProfileGallery ---------------------------
(***************************************************************************)
(* The profile screen of an account on one device: ProfileController's     *)
(* grid of saved pictures and its profile picture, the DetailController    *)
(* opened on one of them, and what CapDatabase asks of Firebase for both.  *)
(*                                                                         *)
(* Every viewWillAppear empties userImageObjects and adds another observer *)
(* of childAdded; none is ever removed, and no removal is observed.  An    *)
(* observer is told of every child the client has when it joins and of     *)
(* every child that is new to the client afterwards, one block on the main *)
(* queue each.  Other devices add and delete entries of the same account.  *)
(***************************************************************************)
EXTENDS Integers, FiniteSets, SequencesExt

CONSTANTS
    Preset,      \* entries there are at first: 1 .. Preset
    MaxEntry,    \* bound on the entries ever made
    Pictures,    \* profile pictures the user can choose
    NoPicture,
    Budget       \* bound on each input of the environment

Idle   == "idle"
Asked  == "asked"
Inputs == {"profile", "modal", "delete", "fail"}
Entries == 1 .. MaxEntry

ASSUME SizesAssumption   == Preset \in Nat /\ MaxEntry \in Nat /\ Preset <= MaxEntry
ASSUME PictureAssumption == {NoPicture, Idle, Asked} \cap Pictures = {}
ASSUME BudgetAssumption  == Budget \in [Inputs -> Nat]

VARIABLES
    images,      \* users/<key>/images on the server
    last,        \* the newest entry ever made
    listen,      \* the listen at users/<key>/images: "none", "asked" or "on"
    up, down,    \* removals on their way to the server; its messages
    known,       \* the client's copy of images
    removing,    \* removals laid over it until they are confirmed
    main,        \* blocks on the main queue
    screen,      \* what is in front
    observers,   \* childAdded observers that fill this controller's array
    grid,        \* userImageObjects
    dirty,       \* reloadData has been called since the last layout
    detail,      \* DetailController's userImage
    profileUrl,  \* users/<key>/profileUrl
    fetch,       \* getName: "asked", or the picture being downloaded
    shown,       \* the picture in profileView.imageView
    uploads,     \* pictures being uploaded
    trapped,     \* an index was out of range
    deleted,     \* entries deleted here
    hurried,     \* the user did not wait for the profile picture
    spent        \* inputs used up

database == <<images, last>>
client   == <<listen, up, down, known, removing>>
gallery  == <<observers, grid, dirty, detail>>
picture  == <<profileUrl, fetch, shown, uploads>>
ghosts   == <<deleted, hurried>>
vars == <<database, client, main, screen, gallery, picture, trapped, ghosts, spent>>

NoEntry == 0
Screens == {"home", "profile", "detail", "picker"}

Blocks ==
    [type : {"observe", "getName"}]
        \cup [type : {"added"}, entry : Entries]
        \cup [type : {"cells"}, rows : Nat]
        \cup [type : {"upload"}, picture : Pictures]

Messages ==
    [type : {"all"}, entries : SUBSET Entries]
        \cup [type : {"added", "removed", "ack"}, entry : Entries]

\* A detail is on screen exactly while its entry is open.
TypeOK ==
    /\ images \in SUBSET Entries /\ last \in 0 .. MaxEntry
    /\ listen \in {"none", "asked", "on"}
    /\ up \in Seq(Entries) /\ down \in Seq(Messages)
    /\ known \in SUBSET Entries /\ removing \in SUBSET Entries
    /\ main \in Seq(Blocks)
    /\ screen \in Screens
    /\ observers \in Nat /\ grid \in Seq(Entries) /\ dirty \in BOOLEAN
    /\ detail \in IF screen = "detail" THEN Entries ELSE {NoEntry}
    /\ {profileUrl, shown} \subseteq Pictures \cup {NoPicture}
    /\ fetch \in Pictures \cup {NoPicture, Asked, Idle}
    /\ uploads \in SUBSET Pictures
    /\ trapped \in BOOLEAN
    /\ deleted \in SUBSET Entries /\ hurried \in BOOLEAN
    /\ spent \in [Inputs -> Nat]

Init ==
    /\ images = 1 .. Preset /\ last = Preset
    /\ listen = "none" /\ up = <<>> /\ down = <<>>
    /\ known = {} /\ removing = {}
    /\ main = <<>> /\ screen = "home"
    /\ observers = 0 /\ grid = <<>> /\ dirty = FALSE /\ detail = NoEntry
    /\ profileUrl = NoPicture /\ fetch = Idle /\ shown = NoPicture /\ uploads = {}
    /\ trapped = FALSE /\ deleted = {} /\ hurried = FALSE
    /\ spent = [i \in Inputs |-> 0]

Block(t)    == [type |-> t]
Added(e)    == [type |-> "added", entry |-> e]
Cells(n)    == [type |-> "cells", rows |-> n]
Upload(p)   == [type |-> "upload", picture |-> p]
Message(t, e) == [type |-> t, entry |-> e]

Spend(i) == /\ spent[i] < Budget[i]
            /\ spent' = [spent EXCEPT ![i] = @ + 1]

Next1(t) == main # <<>> /\ Head(main).type = t /\ ~trapped

\* What the view at users/<key>/images holds: the removals laid over the copy.
View == known \ removing

\* The entry of new that has k - 1 before it in the order of the keys.
Nth(new, k) == CHOOSE e \in new : Cardinality({d \in new : d <= e}) = k

\* One block for every entry, in that order, and every observer.
Events(new, n) ==
    [i \in 1 .. Cardinality(new) * n |-> Added(Nth(new, 1 + (i - 1) \div n))]

(***************************************************************************)
(* The user.  A modal or a pop takes longer than what the main queue holds *)
(* when it begins; those blocks only append, so it may as well begin after *)
(* them.  What is queued during it may still be there when it ends.        *)
(***************************************************************************)
Quiet == main = <<>> /\ ~dirty /\ ~trapped

PictureSettled == fetch = Idle /\ uploads = {}

Hurry == hurried' = (hurried \/ ~PictureSettled)

\* viewDidLoad's getName and viewWillAppear of a new ProfileController.
ShowProfile ==
    /\ Quiet /\ screen = "home" /\ Spend("profile")
    /\ screen' = "profile"
    /\ observers' = 0 /\ grid' = <<>> /\ dirty' = TRUE
    /\ shown' = NoPicture
    /\ main' = <<Block("getName"), Block("observe")>>
    /\ UNCHANGED <<database, client, detail, profileUrl, fetch, uploads, trapped, ghosts>>

\* The controller goes; its observers stay, and fill an array nobody sees.
LeaveProfile ==
    /\ Quiet /\ screen = "profile" /\ Hurry
    /\ screen' = "home"
    /\ observers' = 0 /\ grid' = <<>>
    /\ fetch' = Idle
    /\ UNCHANGED <<database, client, main, dirty, detail, profileUrl, shown, uploads,
                   trapped, deleted, spent>>

OpenDetail ==
    /\ Quiet /\ screen = "profile" /\ Spend("modal")
    /\ \E row \in DOMAIN grid : detail' = grid[row]
    /\ screen' = "detail"
    /\ UNCHANGED <<database, client, main, observers, grid, dirty, picture, trapped, ghosts>>

HandleProfileTap ==
    /\ Quiet /\ screen = "profile" /\ Hurry /\ Spend("modal")
    /\ screen' = "picker"
    /\ UNCHANGED <<database, client, main, gallery, picture, trapped, deleted>>

\* Wrong: getImages only when the controller loads.
AppearOnce(blocks) ==
    /\ screen' = "profile"
    /\ grid' = <<>> /\ dirty' = TRUE
    /\ main' = main \o blocks
    /\ detail' = NoEntry

\* viewWillAppear: removeAll, getImages' block, reloadData.
Appear(blocks) ==
    /\ screen' = "profile"
    /\ grid' = <<>> /\ dirty' = TRUE
    /\ main' = main \o <<Block("observe")>> \o blocks
    /\ detail' = NoEntry

Dismiss ==
    /\ screen \in {"detail", "picker"} /\ ~trapped
    /\ Appear(<<>>)
    /\ UNCHANGED <<database, client, observers, picture, trapped, ghosts, spent>>

\* Wrong: the removal is seen when the server has made it.
DeleteAtServer ==
    /\ screen = "detail" /\ ~trapped
    /\ up' = Append(up, detail)
    /\ deleted' = deleted \cup {detail}
    /\ Appear(<<>>)
    /\ UNCHANGED <<database, listen, down, known, removing, observers, picture, trapped,
                   hurried, spent>>

\* DetailController's trash: the removal is seen here before the dismissal.
DeleteUserImage ==
    /\ screen = "detail" /\ ~trapped
    /\ removing' = removing \cup {detail}
    /\ up' = Append(up, detail)
    /\ deleted' = deleted \cup {detail}
    /\ Appear(<<>>)
    /\ UNCHANGED <<database, listen, down, known, observers, picture, trapped, hurried, spent>>

\* Wrong: without the guard for a picture that was not edited.
ChooseNothing ==
    /\ screen = "picker" /\ ~trapped
    /\ Appear(<<Upload(NoPicture)>>)
    /\ UNCHANGED <<database, client, observers, picture, trapped, ghosts, spent>>

\* A picture that is stored or on its way is not chosen once more.
Choose ==
    /\ screen = "picker" /\ ~trapped
    /\ \E p \in Pictures \ (uploads \cup {profileUrl}) : Appear(<<Upload(p)>>)
    /\ UNCHANGED <<database, client, observers, picture, trapped, ghosts, spent>>

-----------------------------------------------------------------------------
(***************************************************************************)
(* The main queue and the layout of the grid.                              *)
(***************************************************************************)
\* Wrong: an observer is told of new entries only.
RunObserveNewOnly ==
    /\ Next1("observe")
    /\ observers' = observers + 1
    /\ listen' = IF listen = "none" THEN "asked" ELSE listen
    /\ main' = Tail(main)
    /\ UNCHANGED <<database, up, down, known, removing, screen, grid, dirty, detail,
                   picture, trapped, ghosts, spent>>

RunObserve ==
    /\ Next1("observe")
    /\ observers' = observers + 1
    /\ listen' = IF listen = "none" THEN "asked" ELSE listen
    /\ main' = Tail(main) \o Events(View, 1)
    /\ UNCHANGED <<database, up, down, known, removing, screen, grid, dirty, detail,
                   picture, trapped, ghosts, spent>>

RunAdded ==
    /\ Next1("added")
    /\ grid' = Append(grid, Head(main).entry)
    /\ dirty' = TRUE
    /\ main' = Tail(main)
    /\ UNCHANGED <<database, client, screen, observers, detail, picture, trapped, ghosts, spent>>

\* cellForItemAt leaves a block for every row, which reads the array again.
Layout ==
    /\ dirty /\ screen = "profile" /\ ~trapped
    /\ dirty' = FALSE
    /\ main' = IF grid = <<>> THEN main ELSE Append(main, Cells(Len(grid)))
    /\ UNCHANGED <<database, client, screen, observers, grid, detail, picture, trapped,
                   ghosts, spent>>

RunCells ==
    /\ Next1("cells")
    /\ trapped' = (Head(main).rows > Len(grid))
    /\ main' = Tail(main)
    /\ UNCHANGED <<database, client, screen, gallery, picture, ghosts, spent>>

RunGetName ==
    /\ Next1("getName")
    /\ fetch' = Asked
    /\ main' = Tail(main)
    /\ UNCHANGED <<database, client, screen, gallery, profileUrl, shown, uploads, trapped,
                   ghosts, spent>>

RunUpload ==
    /\ Next1("upload")
    /\ uploads' = uploads \cup {Head(main).picture}
    /\ shown' = Head(main).picture
    /\ main' = Tail(main)
    /\ UNCHANGED <<database, client, screen, gallery, profileUrl, fetch, trapped, ghosts, spent>>

-----------------------------------------------------------------------------
(***************************************************************************)
(* The profile picture: getName's answer, the download, the upload.        *)
(***************************************************************************)
GetNameCallback ==
    /\ fetch = Asked
    /\ fetch' = IF profileUrl = NoPicture THEN Idle ELSE profileUrl
    /\ UNCHANGED <<database, client, main, screen, gallery, profileUrl, shown, uploads,
                   trapped, ghosts, spent>>

Downloaded ==
    /\ fetch \in Pictures
    /\ shown' = fetch
    /\ fetch' = Idle
    /\ UNCHANGED <<database, client, main, screen, gallery, profileUrl, uploads, trapped,
                   ghosts, spent>>

\* Wrong: the address is not stored.
UploadedOnly(p) ==
    /\ p \in uploads
    /\ uploads' = uploads \ {p}
    /\ UNCHANGED <<database, client, main, screen, gallery, profileUrl, fetch, shown, trapped,
                   ghosts, spent>>

Uploaded(p) ==
    /\ p \in uploads
    /\ uploads' = uploads \ {p}
    /\ profileUrl' = p
    /\ UNCHANGED <<database, client, main, screen, gallery, fetch, shown, trapped, ghosts, spent>>

\* The upload fails or has no URL: nobody is told.
UploadFails(p) ==
    /\ p \in uploads /\ Spend("fail")
    /\ uploads' = uploads \ {p}
    /\ UNCHANGED <<database, client, main, screen, gallery, profileUrl, fetch, shown, trapped,
                   ghosts>>

-----------------------------------------------------------------------------
(***************************************************************************)
(* The database and what its client makes of its messages.                 *)
(***************************************************************************)
Told(messages) == down' = IF listen = "on" THEN down \o messages ELSE down

ServeListen ==
    /\ listen = "asked"
    /\ listen' = "on"
    /\ down' = Append(down, [type |-> "all", entries |-> images])
    /\ UNCHANGED <<database, up, known, removing, main, screen, gallery, picture, trapped,
                   ghosts, spent>>

\* The other listeners' push comes before the confirmation.
ServeRemoval ==
    /\ up # <<>>
    /\ images' = images \ {Head(up)}
    /\ up' = Tail(up)
    /\ Told((IF Head(up) \in images THEN <<Message("removed", Head(up))>> ELSE <<>>)
               \o <<Message("ack", Head(up))>>)
    /\ UNCHANGED <<last, listen, known, removing, main, screen, gallery, picture, trapped,
                   ghosts, spent>>

OtherSaves ==
    /\ last < MaxEntry
    /\ last' = last + 1
    /\ images' = images \cup {last + 1}
    /\ Told(<<Message("added", last + 1)>>)
    /\ UNCHANGED <<listen, up, known, removing, main, screen, gallery, picture, trapped,
                   ghosts, spent>>

OtherDeletes(e) ==
    /\ e \in images /\ Spend("delete")
    /\ images' = images \ {e}
    /\ Told(<<Message("removed", e)>>)
    /\ UNCHANGED <<last, listen, up, known, removing, main, screen, gallery, picture, trapped,
                   ghosts>>

Received(m) ==
    CASE m.type = "all"     -> m.entries
      [] m.type = "added"   -> known \cup {m.entry}
      [] m.type = "removed" -> known \ {m.entry}
      [] m.type = "ack"     -> known

\* Wrong: every entry of the view is an event.
ArriveWhole ==
    /\ down # <<>> /\ ~trapped
    /\ known' = Received(Head(down))
    /\ removing' = IF Head(down).type = "ack" THEN removing \ {Head(down).entry} ELSE removing
    /\ down' = Tail(down)
    /\ main' = main \o Events(View', observers)
    /\ UNCHANGED <<database, listen, up, screen, gallery, picture, trapped, ghosts, spent>>

\* Wrong: a removal is taken out of the array at once.
ArriveShrinking ==
    /\ down # <<>> /\ ~trapped
    /\ known' = Received(Head(down))
    /\ removing' = IF Head(down).type = "ack" THEN removing \ {Head(down).entry} ELSE removing
    /\ down' = Tail(down)
    /\ main' = main \o Events(View' \ View, observers)
    /\ grid' = SelectSeq(grid, LAMBDA e : e \in View')
    /\ UNCHANGED <<database, listen, up, screen, observers, dirty, detail, picture, trapped,
                   ghosts, spent>>

\* Only what is new in the view is an event, for every observer.
Arrive ==
    /\ down # <<>> /\ ~trapped
    /\ known' = Received(Head(down))
    /\ removing' = IF Head(down).type = "ack" THEN removing \ {Head(down).entry} ELSE removing
    /\ down' = Tail(down)
    /\ main' = main \o Events(View' \ View, observers)
    /\ UNCHANGED <<database, listen, up, screen, gallery, picture, trapped, ghosts, spent>>

-----------------------------------------------------------------------------
User ==
    ShowProfile \/ LeaveProfile \/ OpenDetail \/ HandleProfileTap
        \/ Dismiss \/ DeleteUserImage \/ Choose

MainQueue ==
    RunObserve \/ RunAdded \/ Layout \/ RunCells \/ RunGetName \/ RunUpload

Pictured == GetNameCallback \/ Downloaded

Database == ServeListen \/ ServeRemoval \/ Arrive

Next ==
    \/ User \/ MainQueue \/ Pictured \/ Database \/ OtherSaves
    \/ \E p \in Pictures : Uploaded(p) \/ UploadFails(p)
    \/ \E e \in Entries : OtherDeletes(e)

Spec == Init /\ [][Next]_vars

\* The main queue is served, the server answers and its messages arrive.
FairSpec == Spec /\ WF_vars(MainQueue) /\ WF_vars(Database)

-----------------------------------------------------------------------------
Times(s, x) == Cardinality({i \in DOMAIN s : s[i] = x})

(***************************************************************************)
(* A cell's block never reads a row the array no longer has, although the  *)
(* array is emptied between the layout and a later layout                  *)
(* (ProfileController.swift:99, :114).                                     *)
(***************************************************************************)
RowsInRange == ~trapped

(***************************************************************************)
(* An entry is in the grid at most once for every observer the controller  *)
(* has added: once on its first appearance; after n appearances an entry   *)
(* can be there n times (ProfileController.swift:70-78).                   *)
(***************************************************************************)
CopiesBounded == \A e \in Entries : Times(grid, e) + Times(main, Added(e)) <= observers

(***************************************************************************)
(* When nothing is queued the grid has every entry the client has, however *)
(* often it was emptied, refilled and told of new entries.                 *)
(***************************************************************************)
NothingMissed ==
    screen = "profile" /\ main = <<>> => View \subseteq ToSet(grid)

(***************************************************************************)
(* A picture deleted on this device is not in the grid the user comes back *)
(* to, nor ever after, confirmed or not (DetailController.swift:99-105).   *)
(***************************************************************************)
DeletedGone == screen # "detail" => deleted \cap ToSet(grid) = {}

(***************************************************************************)
(* Once getName's download and the uploads are over, the profile picture   *)
(* on screen is the stored one, if the user waited for each and no upload  *)
(* failed (ProfileController.swift:79-90, :161-174).                       *)
(***************************************************************************)
PictureStored ==
    /\ screen = "profile" /\ main = <<>>
    /\ PictureSettled /\ ~hurried /\ spent["fail"] = 0
    => shown = profileUrl

(***************************************************************************)
(* Whoever stays on the profile sees every stored entry in the end.        *)
(***************************************************************************)
AllShown ==
    \A e \in Entries :
        (e \in images /\ screen = "profile")
            ~> (e \in ToSet(grid) \/ e \notin images \/ screen # "profile" \/ e \in removing)
=============================================================================
