----------------------------- MODULE UserSession -----------------------------
(***************************************************************************)
(* Who the app takes its user for.  User.session keeps four values in      *)
(* UserDefaults, which outlive the process; the buttons of PageController  *)
(* start requests to Firebase Auth, whose answers come back as blocks on   *)
(* the main queue, some of which queue another block; AppDelegate and      *)
(* ConnectionController choose the screen to start with.                   *)
(*                                                                         *)
(* nav holds the navigation controllers, the one presented last on top,    *)
(* each with its screens; it is empty while the process does not run.  An  *)
(* alert and an error change nothing here and are left out.                *)
(***************************************************************************)
EXTENDS Naturals, Sequences, FiniteSets

CONSTANTS
    Emails,       \* uids of accounts made with an e-mail address
    Facebooks,    \* uids of accounts by way of Facebook
    Guests,       \* uids of anonymous accounts
    None,         \* no uid: nil, and the "None" of currentUserID
    Budget        \* bound on each input of the environment

Inputs  == {"ask", "signOut", "kill", "network"}
Users   == Emails \cup Facebooks
Uids    == Users \cup Guests
Screens == {"connection", "page", "home", "profile"}

ASSUME UidsAssumption ==
    /\ Emails \cap Facebooks = {} /\ Users \cap Guests = {}
    /\ None \notin Uids
ASSUME BudgetAssumption == Budget \in [Inputs -> Nat]

VARIABLES
    isSignedIn, isAnonymous, currentUserID, anonymousUserID,   \* User.session
    auth,         \* Auth.currentUser: its uid, and isEmailVerified as last told
    accounts,     \* accounts there are
    verified,     \* those that opened the link in the e-mail
    known,        \* users with a record in the database
    setups,       \* users whose setupUser has not got there yet
    requests,     \* requests Firebase Auth works on
    main,         \* blocks on the main queue
    nav,
    appearing,    \* times ConnectionController has still to look for the network
    reachable,    \* Reachability.isConnectedToNetwork
    spent,        \* inputs used up
    lost,         \* users whose setupUser ended with the process, or was not reached
    overlapped    \* a button was used before the previous one's work was done

session == <<isSignedIn, isAnonymous, currentUserID, anonymousUserID>>
service == <<auth, accounts, verified>>
records == <<known, setups>>
world   == <<reachable, spent, lost, overlapped>>
vars    == <<session, service, records, requests, main, nav, appearing, world>>

\* level: the navigation controller of the PageController that asks.
RequestOf(T, U) == [type : T, user : U, level : Nat, id : Nat]
Requests ==
    RequestOf({"signIn", "register"}, Emails) \cup RequestOf({"facebook"}, Facebooks)
        \cup RequestOf({"guest"}, Guests \cup {None})
        \cup RequestOf({"verify"}, Uids \cup {None})

BlockOf(T, U) == [type : T, user : U, level : Nat, checked : BOOLEAN]
Blocks ==
    BlockOf({"signedIn", "registered"}, Emails) \cup BlockOf({"facebook"}, Facebooks)
        \cup BlockOf({"guest"}, Guests)
        \cup BlockOf({"sent", "enter", "enterGuest"}, Uids \cup {None})

Block(t, u, n) == [type |-> t, user |-> u, level |-> n, checked |-> FALSE]

TypeOK ==
    /\ isSignedIn \in BOOLEAN /\ isAnonymous \in BOOLEAN
    /\ currentUserID \in Users \cup {None}
    /\ anonymousUserID \in Guests \cup {None}
    /\ auth \in [user : Uids \cup {None}, verified : BOOLEAN]
    /\ accounts \subseteq Uids /\ verified \subseteq Emails
    /\ known \subseteq Uids /\ setups \subseteq Uids /\ lost \subseteq Uids
    /\ requests \subseteq Requests
    /\ main \in Seq(Blocks)
    /\ nav \in Seq(Seq(Screens))
    /\ appearing \in 0..2
    /\ reachable \in BOOLEAN
    /\ spent \in [Inputs -> Nat]
    /\ overlapped \in BOOLEAN

Init ==
    /\ isSignedIn = FALSE /\ isAnonymous = FALSE
    /\ currentUserID = None /\ anonymousUserID = None
    /\ auth = [user |-> None, verified |-> FALSE]
    /\ accounts \in SUBSET Users /\ verified = accounts \cap Emails
    /\ known = accounts /\ setups = {} /\ lost = {}
    /\ requests = {} /\ main = <<>>
    /\ nav = <<>> /\ appearing = 0
    /\ reachable \in BOOLEAN
    /\ spent = [i \in Inputs |-> 0]
    /\ overlapped = FALSE

-----------------------------------------------------------------------------
Running == nav # <<>> /\ appearing = 0
Top     == nav[Len(nav)]
Visible == Top[Len(Top)]
Spend(i) == spent[i] < Budget[i] /\ spent' = [spent EXCEPT ![i] = @ + 1]
\* History: whether this button came before the work of the last one was done.
Press    == overlapped' = (overlapped \/ requests # {} \/ main # <<>>)

\* The key under users/ that PhotoController and InfoController use.
DatabaseKey == IF isAnonymous THEN anonymousUserID ELSE currentUserID

(* Launch: AppDelegate, and ConnectionController, which looks for the      *)
(* network when it loads and when it appears and never after.              *)

FirstScreen == IF isSignedIn THEN "home" ELSE "page"

Launch ==
    /\ nav = <<>>
    /\ nav' = <<<<IF reachable THEN FirstScreen ELSE "connection">>>>
    /\ appearing' = IF reachable THEN 0 ELSE 2
    /\ UNCHANGED <<session, service, records, requests, main, world>>

\* Whether the controller still appears when its first look pushed another is
\* UIKit's choice.
ListenForConnection ==
    /\ appearing > 0
    /\ IF reachable
       THEN /\ nav' = [nav EXCEPT ![1] = Append(@, FirstScreen)]
            /\ appearing' \in {appearing - 1, 0}
       ELSE UNCHANGED nav /\ appearing' = appearing - 1
    /\ UNCHANGED <<session, service, records, requests, main, world>>

-----------------------------------------------------------------------------
(* Buttons.                                                                *)

Ask(t, u) ==
    /\ Running /\ Visible = "page" /\ Press /\ Spend("ask")
    /\ requests' = requests \cup
         {[type |-> t, user |-> u, level |-> Len(nav), id |-> spent["ask"]]}
    /\ UNCHANGED <<session, service, records, main, nav, appearing, reachable, lost>>

SignInBtn(u)   == Ask("signIn", u)
RegisterBtn(u) == Ask("register", u)
FacebookBtn(u) == Ask("facebook", u)

\* The guest there was is taken again; without one Firebase Auth is asked,
\* which answers with its own user if that one is anonymous.
SkipBtn ==
    IF anonymousUserID = None
    THEN Ask("guest", IF auth.user \in Guests THEN auth.user ELSE None)
    ELSE /\ Running /\ Visible = "page" /\ Press /\ Spend("ask")
         /\ main' = Append(main, Block("enterGuest", None, Len(nav)))
         /\ UNCHANGED <<session, service, records, requests, nav, appearing,
                        reachable, lost>>

\* navigateToProfile, and back again.
ShowProfile ==
    /\ Running /\ Visible = "home" /\ ~isAnonymous
    /\ nav' = [nav EXCEPT ![Len(nav)] = Append(@, "profile")]
    /\ UNCHANGED <<session, service, records, requests, main, appearing, world>>

LeaveProfile ==
    /\ Running /\ Visible = "profile" /\ Len(Top) > 1
    /\ nav' = [nav EXCEPT ![Len(nav)] = SubSeq(@, 1, Len(@) - 1)]
    /\ UNCHANGED <<session, service, records, requests, main, appearing, world>>

\* A wrong sign-out, which only shows the sign-in pages.
SignOutShown ==
    /\ Running /\ Visible \in {"home", "profile"} /\ Spend("signOut")
    /\ nav' = Append(nav, <<"page">>)
    /\ UNCHANGED <<session, service, records, requests, main, appearing, reachable, lost,
                   overlapped>>

\* handleMoreButton and handleSignOut: Firebase Auth is not told.
SignOut ==
    /\ Running /\ Visible \in {"home", "profile"} /\ Spend("signOut")
    /\ isSignedIn' = FALSE
    /\ nav' = Append(nav, <<"page">>)
    /\ UNCHANGED <<isAnonymous, currentUserID, anonymousUserID, service, records,
                   requests, main, appearing, reachable, lost, overlapped>>

-----------------------------------------------------------------------------
(* Answers of Firebase Auth: the signed-in user is its current user before *)
(* the completion block runs.                                              *)

Complete(r, t, u) ==
    /\ requests' = requests \ {r}
    /\ auth' = [user |-> u, verified |-> u \in verified]
    /\ accounts' = accounts \cup {u}
    /\ main' = Append(main, [type |-> t, user |-> u, level |-> r.level,
                             checked |-> u \in verified])
    /\ UNCHANGED <<session, verified, records, nav, appearing, world>>

SignedInAnswer(r) ==
    r.type = "signIn" /\ r.user \in accounts /\ Complete(r, "signedIn", r.user)

RegisteredAnswer(r) ==
    r.type = "register" /\ r.user \notin accounts /\ Complete(r, "registered", r.user)

FacebookAnswer(r) ==
    r.type = "facebook" /\ Complete(r, "facebook", r.user)

GuestAnswer(r) ==
    /\ r.type = "guest"
    /\ \E g \in IF r.user = None THEN Guests \ accounts ELSE {r.user} :
         Complete(r, "guest", g)

\* The e-mail is on its way to the user; the link may be opened any time.
VerifyAnswer(r) ==
    /\ r.type = "verify"
    /\ requests' = requests \ {r}
    /\ main' = Append(main, Block("sent", r.user, r.level))
    /\ UNCHANGED <<session, service, records, nav, appearing, world>>

Answer(r) ==
    /\ reachable
    /\ \/ SignedInAnswer(r) \/ RegisteredAnswer(r) \/ FacebookAnswer(r)
       \/ GuestAnswer(r) \/ VerifyAnswer(r)

\* Accounts that requests of R have made although their answer is lost.
Unheard(R) == {r.user : r \in {q \in R : q.type = "register"}} \ accounts

\* An error, which the loss of an answer is too.
Refuse(r) ==
    /\ requests' = requests \ {r}
    /\ \E made \in SUBSET Unheard({r}) :
         accounts' = accounts \cup made /\ lost' = lost \cup made
    /\ UNCHANGED <<session, auth, verified, records, main, nav, appearing,
                   reachable, spent, overlapped>>

OpenLink(u) ==
    /\ u \in (accounts \cap Emails) \ verified
    /\ verified' = verified \cup {u}
    /\ UNCHANGED <<session, auth, accounts, records, requests, main, nav, appearing, world>>

-----------------------------------------------------------------------------
(* Blocks on the main queue.                                               *)

Runs(t) == Running /\ main # <<>> /\ Head(main).type = t
First == Head(main)
Enter(t) == Append(Tail(main), Block(t, None, First.level))

\* The completion of signIn: only a verified e-mail lets the user in.
SignedIn ==
    /\ Runs("signedIn")
    /\ IF First.checked
       THEN /\ currentUserID' = First.user /\ isAnonymous' = FALSE
            /\ main' = Enter("enter")
       ELSE UNCHANGED <<currentUserID, isAnonymous>> /\ main' = Tail(main)
    /\ UNCHANGED <<isSignedIn, anonymousUserID, service, records, requests, nav,
                   appearing, world>>

\* The completion of createUser, which ends with another request for the
\* current user of then.
Registered ==
    /\ Runs("registered")
    /\ isAnonymous' = FALSE
    /\ setups' = setups \cup {First.user}
    /\ requests' = requests \cup
         {[type |-> "verify", user |-> auth.user, level |-> First.level, id |-> spent["ask"]]}
    /\ main' = Tail(main)
    /\ UNCHANGED <<isSignedIn, currentUserID, anonymousUserID, service, known, nav,
                   appearing, world>>

\* A wrong completion of sendEmailVerification, which lets anyone in.
VerificationUnchecked ==
    /\ Runs("sent")
    /\ main' = Enter("enter")
    /\ UNCHANGED <<session, service, records, requests, nav, appearing, world>>

\* The completion of sendEmailVerification asks the current user of now.
VerificationSent ==
    /\ Runs("sent")
    /\ main' = IF auth.verified THEN Enter("enter") ELSE Tail(main)
    /\ UNCHANGED <<session, service, records, requests, nav, appearing, world>>

\* A wrong Facebook login, which does not set up the user.
FacebookOnly ==
    /\ Runs("facebook")
    /\ currentUserID' = First.user /\ isAnonymous' = FALSE
    /\ main' = Enter("enter")
    /\ UNCHANGED <<isSignedIn, anonymousUserID, service, records, requests, nav,
                   appearing, world>>

Facebook ==
    /\ Runs("facebook")
    /\ currentUserID' = First.user /\ isAnonymous' = FALSE
    /\ setups' = setups \cup {First.user}
    /\ main' = Enter("enter")
    /\ UNCHANGED <<isSignedIn, anonymousUserID, service, known, requests, nav,
                   appearing, world>>

\* A wrong completion of signInAnonymously, which takes the guest for an account.
GuestAsAccount ==
    /\ Runs("guest")
    /\ currentUserID' = First.user
    /\ setups' = setups \cup {First.user}
    /\ main' = Enter("enterGuest")
    /\ UNCHANGED <<isSignedIn, isAnonymous, anonymousUserID, service, known, requests,
                   nav, appearing, world>>

Guest ==
    /\ Runs("guest")
    /\ anonymousUserID' = First.user
    /\ setups' = setups \cup {First.user}
    /\ main' = Enter("enterGuest")
    /\ UNCHANGED <<isSignedIn, isAnonymous, currentUserID, service, known, requests,
                   nav, appearing, world>>

\* nextController: on the navigation controller of the page that asked.
NextController == nav' = [nav EXCEPT ![First.level] = Append(@, "home")]

EnterAccount ==
    /\ Runs("enter")
    /\ isSignedIn' = TRUE
    /\ NextController
    /\ main' = Tail(main)
    /\ UNCHANGED <<isAnonymous, currentUserID, anonymousUserID, service, records,
                   requests, appearing, world>>

EnterGuest ==
    /\ Runs("enterGuest")
    /\ isSignedIn' = TRUE /\ isAnonymous' = TRUE
    /\ NextController
    /\ main' = Tail(main)
    /\ UNCHANGED <<currentUserID, anonymousUserID, service, records, requests,
                   appearing, world>>

-----------------------------------------------------------------------------
(* The database, the network and the end of the process.                   *)

\* setupUser's record reaches the database (see PhotoQuota).
StoreRecord(u) ==
    /\ reachable /\ u \in setups
    /\ setups' = setups \ {u}
    /\ known' = known \cup {u}
    /\ UNCHANGED <<session, service, requests, main, nav, appearing, world>>

NetworkChange ==
    /\ Spend("network")
    /\ reachable' = ~reachable
    /\ UNCHANGED <<session, service, records, requests, main, nav, appearing, lost,
                   overlapped>>

\* New accounts whose completion has still to call setupUser.
Unset == {main[i].user : i \in {j \in DOMAIN main : main[j].type = "registered"}}

Kill ==
    /\ nav # <<>> /\ Spend("kill")
    /\ nav' = <<>> /\ appearing' = 0
    /\ requests' = {} /\ main' = <<>> /\ setups' = {}
    /\ \E made \in SUBSET Unheard(requests) :
         /\ accounts' = accounts \cup made
         /\ lost' = lost \cup setups \cup Unset \cup made
    /\ UNCHANGED <<session, auth, verified, known, reachable, overlapped>>

-----------------------------------------------------------------------------
Start   == Launch \/ ListenForConnection
Button  == \/ \E u \in Emails : SignInBtn(u) \/ RegisterBtn(u)
           \/ \E u \in Facebooks : FacebookBtn(u)
           \/ SkipBtn \/ ShowProfile \/ LeaveProfile \/ SignOut
Reply   == \E r \in requests : Answer(r) \/ Refuse(r)
OnMain  == \/ SignedIn \/ Registered \/ VerificationSent \/ Facebook
           \/ Guest \/ EnterAccount \/ EnterGuest
Outside == \/ \E u \in Emails : OpenLink(u)
           \/ \E u \in Uids : StoreRecord(u)
           \/ NetworkChange \/ Kill

Next == Start \/ Button \/ Reply \/ OnMain \/ Outside

Spec == Init /\ [][Next]_vars

-----------------------------------------------------------------------------
(* Properties.                                                             *)

\* A guest session has the guest's key, so that processHandler's database is
\* there: no completion, relaunch or sign-out in any order takes it away.
GuestHasID == isAnonymous => anonymousUserID # None

\* Its inductive form: the block that enters as a guest runs after the key is kept.
GuestEnters == \A i \in DOMAIN main :
    main[i].type = "enterGuest" => anonymousUserID # None
GuestKept == TypeOK /\ GuestHasID /\ GuestEnters

\* Whoever the session names has a record in the database or one on its way
\* there, unless the end of the process or a lost answer took setupUser with
\* it; a sign-in that overtakes the registration's work does not.
RecordUnlessLost ==
    {currentUserID, anonymousUserID} \ {None} \subseteq known \cup setups \cup lost

\* isSignedIn, which chooses the next launch's screen, is set while a home
\* screen is in front, in whatever order completions, their second blocks and
\* sign-outs come; and it is not set on the page of someone who waits.
SignedInIsShown ==
    Running /\ Visible # "connection" =>
        /\ Visible \in {"home", "profile"} => isSignedIn
        /\ isSignedIn => overlapped \/ Visible \in {"home", "profile"}

\* An account in session is the one Firebase Auth has signed in, as long as
\* each button waited for the work of the one before.
AccountIsAuth ==
    isSignedIn /\ ~isAnonymous /\ ~overlapped =>
        currentUserID # None /\ currentUserID = auth.user

\* Who is in has a key: CapDatabase's paths are never those of a user "None".
SignedInHasKey == isSignedIn => DatabaseKey # None
=============================================================================
