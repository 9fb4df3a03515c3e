-------------------------- MODULE UserSessionProofs --------------------------
(***************************************************************************)
(* Proofs about UserSession, for any accounts, guests and bounds. Buttons  *)
(* are tapped at any time; what is said of those who wait for the work of  *)
(* the button before has overlapped as the other possibility.              *)
(***************************************************************************)
EXTENDS UserSession, SequenceTheorems, TLAPS

\* The block at the head of the main queue, and the queue without it.
LEMMA HeadOfMain ==
    ASSUME TypeOK, main # <<>>
    PROVE  Head(main) \in Blocks /\ Tail(main) \in Seq(Blocks)
<1>1. main \in Seq(Blocks)  BY DEF TypeOK
<1> QED  BY <1>1

\* The completion blocks carry the uid their kind of request gives.
LEMMA BlockUsers ==
    ASSUME NEW b \in Blocks
    PROVE  /\ b.type \in {"signedIn", "registered"} => b.user \in Emails
           /\ b.type = "facebook" => b.user \in Facebooks
           /\ b.type = "guest" => b.user \in Guests
           /\ b.user \in Uids \cup {None} /\ b.level \in Nat
BY DEF Blocks, BlockOf, Uids, Users

\* The blocks that let the user in are blocks.
LEMMA EnterBlocks ==
    ASSUME NEW n \in Nat, NEW u \in Uids \cup {None}, NEW t \in {"sent", "enter", "enterGuest"}
    PROVE  Block(t, u, n) \in Blocks
BY DEF Block, Blocks, BlockOf

\* Queueing a block that is no "enterGuest", or one when the guest's key is kept.
LEMMA Queue ==
    ASSUME NEW ms \in Seq(Blocks), NEW b \in Blocks, main' = Append(ms, b),
           \A i \in DOMAIN ms : ms[i].type = "enterGuest" => anonymousUserID' # None,
           b.type = "enterGuest" => anonymousUserID' # None
    PROVE  main' \in Seq(Blocks) /\ GuestEnters'
<1>1. main' \in Seq(Blocks)  OBVIOUS
<1>2. ASSUME NEW i \in DOMAIN main'
      PROVE  main'[i].type = "enterGuest" => anonymousUserID' # None
  <2>1. CASE i = Len(ms) + 1  BY <2>1
  <2>2. CASE i \in DOMAIN ms  BY <2>2
  <2> QED  BY <1>2, <2>1, <2>2
<1> QED  BY <1>1, <1>2 DEF GuestEnters

\* Taking the first block off the queue.
LEMMA Dequeue ==
    ASSUME TypeOK, GuestEnters, main # <<>>
    PROVE  \A i \in DOMAIN Tail(main) :
               Tail(main)[i].type = "enterGuest" => anonymousUserID # None
<1>1. main \in Seq(Blocks)  BY DEF TypeOK
<1>2. ASSUME NEW i \in DOMAIN Tail(main)
      PROVE  Tail(main)[i] = main[i + 1] /\ i + 1 \in DOMAIN main
  BY <1>1, <1>2
<1> QED  BY <1>2 DEF GuestEnters

\* Pushing a screen on a navigation controller, or on one that is not there.
LEMMA PushIn ==
    ASSUME NEW ns \in Seq(Seq(Screens)), NEW n \in Nat, NEW x \in Screens
    PROVE  [ns EXCEPT ![n] = Append(@, x)] \in Seq(Seq(Screens))
<1>1. CASE n \in DOMAIN ns
  <2>1. ns[n] \in Seq(Screens)  BY <1>1
  <2>2. Append(ns[n], x) \in Seq(Screens)  BY <2>1
  <2> QED  BY <1>1, <2>2, ExceptSeq
<1>2. CASE n \notin DOMAIN ns
  <2>1. [ns EXCEPT ![n] = Append(@, x)] = ns  BY <1>2
  <2> QED  BY <2>1
<1> QED  BY <1>1, <1>2

-----------------------------------------------------------------------------
(* Every action keeps the inductive invariant.                             *)

\* What is kept when the session and the queue stay.
LEMMA SameSession ==
    ASSUME GuestKept, UNCHANGED <<session, main>>
    PROVE  GuestHasID' /\ GuestEnters' /\ main' \in Seq(Blocks)
BY DEF GuestKept, TypeOK, GuestHasID, GuestEnters, session

\* Starting the app shows a screen and nothing else.
LEMMA StartKept == ASSUME GuestKept, Start  PROVE GuestKept'
<1> USE DEF GuestKept
<1>1. FirstScreen \in Screens  BY DEF FirstScreen, Screens
<1>2. CASE Launch
  <2>1. nav' \in Seq(Seq(Screens))  BY <1>1, <1>2 DEF Launch, Screens
  <2> QED  BY <1>2, <2>1, SameSession DEF Launch, TypeOK, session, service, records, world
<1>3. CASE ListenForConnection
  <2>1. nav' \in Seq(Seq(Screens))
    <3>1. nav \in Seq(Seq(Screens))  BY DEF TypeOK
    <3>2. nav' = nav \/ nav' = [nav EXCEPT ![1] = Append(nav[1], FirstScreen)]
      BY <1>3 DEF ListenForConnection
    <3>3. [nav EXCEPT ![1] = Append(nav[1], FirstScreen)] \in Seq(Seq(Screens))
      BY <1>1, <3>1, PushIn
    <3> QED  BY <3>1, <3>2, <3>3
  <2>2. appearing' \in 0..2  BY <1>3 DEF ListenForConnection, TypeOK
  <2> QED  BY <1>3, <2>1, <2>2, SameSession
             DEF ListenForConnection, TypeOK, session, service, records, world
<1> QED  BY <1>2, <1>3 DEF Start

\* The bounds keep their type.
LEMMA SpendKept ==
    ASSUME TypeOK, NEW i \in Inputs, Spend(i)
    PROVE  spent' \in [Inputs -> Nat] /\ spent["ask"] \in Nat
BY DEF TypeOK, Spend, Inputs

\* A tap that asks Firebase Auth.
LEMMA AskKept ==
    ASSUME GuestKept, NEW t, NEW u, Ask(t, u),
           \A n, k \in Nat : [type |-> t, user |-> u, level |-> n, id |-> k] \in Requests
    PROVE  GuestKept'
<1> USE DEF GuestKept
<1>1. Len(nav) \in Nat  BY DEF TypeOK
<1>2. spent' \in [Inputs -> Nat] /\ spent["ask"] \in Nat  BY SpendKept DEF Ask, Inputs
<1>3. requests' \subseteq Requests  BY <1>1, <1>2 DEF Ask, TypeOK
<1> QED  BY <1>2, <1>3, SameSession DEF Ask, Press, TypeOK, session, service, records

\* Every button.
LEMMA ButtonKept == ASSUME GuestKept, Button  PROVE GuestKept'
<1> USE DEF GuestKept
<1>1. ASSUME NEW u \in Emails, SignInBtn(u) \/ RegisterBtn(u)  PROVE GuestKept'
  <2>1. \A t \in {"signIn", "register"}, n, k \in Nat :
           [type |-> t, user |-> u, level |-> n, id |-> k] \in Requests
    BY <1>1 DEF Requests, RequestOf
  <2> QED  BY <1>1, <2>1, AskKept DEF SignInBtn, RegisterBtn
<1>2. ASSUME NEW u \in Facebooks, FacebookBtn(u)  PROVE GuestKept'
  <2>1. \A n, k \in Nat : [type |-> "facebook", user |-> u, level |-> n, id |-> k] \in Requests
    BY <1>2 DEF Requests, RequestOf
  <2> QED  BY <1>2, <2>1, AskKept DEF FacebookBtn
<1>3. CASE SkipBtn
  <2>1. CASE anonymousUserID = None
    <3> DEFINE u == IF auth.user \in Guests THEN auth.user ELSE None
    <3>1. \A n, k \in Nat : [type |-> "guest", user |-> u, level |-> n, id |-> k] \in Requests
      BY DEF Requests, RequestOf
    <3> QED  BY <1>3, <2>1, <3>1, AskKept DEF SkipBtn
  <2>2. CASE anonymousUserID # None
    <3>1. main' = Append(main, Block("enterGuest", None, Len(nav)))
            /\ UNCHANGED <<session, service, records, requests, nav, appearing,
                           reachable, lost>>
            /\ Spend("ask") /\ overlapped' \in BOOLEAN
      BY <1>3, <2>2 DEF SkipBtn, Press, TypeOK
    <3>2. Block("enterGuest", None, Len(nav)) \in Blocks
      BY EnterBlocks, Len(nav) \in Nat DEF TypeOK
    <3>3. Block("enterGuest", None, Len(nav)).type = "enterGuest"  BY DEF Block
    <3>4. main \in Seq(Blocks) /\ anonymousUserID' = anonymousUserID
      BY <3>1 DEF TypeOK, session
    <3>5. main' \in Seq(Blocks) /\ GuestEnters'
      BY <2>2, <3>1, <3>2, <3>4, Queue
    <3>6. spent' \in [Inputs -> Nat]  BY <3>1, SpendKept DEF Inputs
    <3> QED  BY <3>1, <3>5, <3>6 DEF TypeOK, GuestHasID, session, service, records
  <2> QED  BY <2>1, <2>2
<1>4. CASE ShowProfile \/ LeaveProfile
  <2>1. nav' \in Seq(Seq(Screens))
    <3>1. nav \in Seq(Seq(Screens)) /\ nav # <<>>
      BY <1>4 DEF ShowProfile, LeaveProfile, Running, TypeOK
    <3>2. Top \in Seq(Screens) /\ Len(nav) \in DOMAIN nav  BY <3>1 DEF Top
    <3>3. CASE ShowProfile
      <4>1. Append(Top, "profile") \in Seq(Screens)  BY <3>2 DEF Screens
      <4> QED  BY <3>1, <3>2, <3>3, <4>1 DEF ShowProfile, Top
    <3>4. CASE LeaveProfile
      <4>1. SubSeq(Top, 1, Len(Top) - 1) \in Seq(Screens)
        BY <3>2, <3>4 DEF LeaveProfile
      <4> QED  BY <3>1, <3>2, <3>4, <4>1 DEF LeaveProfile, Top
    <3> QED  BY <1>4, <3>3, <3>4
  <2> QED  BY <1>4, <2>1, SameSession
             DEF ShowProfile, LeaveProfile, TypeOK, session, service, records, world
<1>5. CASE SignOut
  <2>1. <<"page">> \in Seq(Screens)  BY DEF Screens
  <2>2. nav' \in Seq(Seq(Screens))  BY <1>5, <2>1 DEF SignOut, TypeOK
  <2>3. spent' \in [Inputs -> Nat]  BY <1>5, SpendKept DEF SignOut, Inputs
  <2> QED  BY <1>5, <2>2, <2>3
             DEF SignOut, TypeOK, GuestHasID, GuestEnters, service, records
<1> QED  BY <1>1, <1>2, <1>3, <1>4, <1>5 DEF Button

\* A request that is answered leaves a completion block, and no "enterGuest".
LEMMA CompleteKept ==
    ASSUME GuestKept, NEW r \in requests, NEW t, NEW u \in Uids, Complete(r, t, u),
           t # "enterGuest",
           [type |-> t, user |-> u, level |-> r.level, checked |-> u \in verified] \in Blocks
    PROVE  GuestKept'
<1> USE DEF GuestKept
<1> DEFINE b == [type |-> t, user |-> u, level |-> r.level, checked |-> u \in verified]
<1>1. main' = Append(main, b) /\ UNCHANGED session  BY DEF Complete
<1>2. main \in Seq(Blocks) /\ anonymousUserID' = anonymousUserID
  BY <1>1 DEF TypeOK, session
<1>3. b \in Blocks /\ b.type # "enterGuest"  OBVIOUS
<1>4. main' \in Seq(Blocks) /\ GuestEnters'
  BY <1>1, <1>2, <1>3, Queue DEF GuestEnters
<1>5. auth' \in [user : Uids \cup {None}, verified : BOOLEAN]  BY DEF Complete
<1> QED  BY <1>4, <1>5 DEF Complete, TypeOK, GuestHasID, session, records, world

\* Every answer and every refusal.
LEMMA ReplyKept == ASSUME GuestKept, Reply  PROVE GuestKept'
<1> USE DEF GuestKept
<1> PICK r \in requests : Answer(r) \/ Refuse(r)  BY DEF Reply
<1>1. r \in Requests  BY DEF TypeOK
<1>2. r.level \in Nat  BY <1>1 DEF Requests, RequestOf
<1>3. CASE SignedInAnswer(r) \/ RegisteredAnswer(r)
  <2>1. r.user \in Emails
    BY <1>1, <1>3 DEF SignedInAnswer, RegisteredAnswer, Requests, RequestOf
  <2>2. r.user \in Uids  BY <2>1 DEF Uids, Users
  <2>3. ASSUME NEW t \in {"signedIn", "registered"}
        PROVE  [type |-> t, user |-> r.user, level |-> r.level,
                checked |-> r.user \in verified] \in Blocks
    BY <1>2, <2>1 DEF Blocks, BlockOf
  <2> QED  BY <1>3, <2>2, <2>3, CompleteKept DEF SignedInAnswer, RegisteredAnswer
<1>4. CASE FacebookAnswer(r)
  <2>1. r.user \in Facebooks
    BY <1>1, <1>4 DEF FacebookAnswer, Requests, RequestOf
  <2>2. r.user \in Uids  BY <2>1 DEF Uids, Users
  <2>3. [type |-> "facebook", user |-> r.user, level |-> r.level,
         checked |-> r.user \in verified] \in Blocks
    BY <1>2, <2>1 DEF Blocks, BlockOf
  <2> QED  BY <1>4, <2>2, <2>3, CompleteKept DEF FacebookAnswer
<1>5. CASE GuestAnswer(r)
  <2>1. r.user \in Guests \cup {None}
    BY <1>1, <1>5 DEF GuestAnswer, Requests, RequestOf
  <2>2. PICK g \in Guests : Complete(r, "guest", g)
    BY <1>5, <2>1 DEF GuestAnswer
  <2>3. g \in Uids  BY DEF Uids
  <2>4. [type |-> "guest", user |-> g, level |-> r.level,
         checked |-> g \in verified] \in Blocks
    BY <1>2 DEF Blocks, BlockOf
  <2> QED  BY <2>2, <2>3, <2>4, CompleteKept
<1>6. CASE VerifyAnswer(r)
  <2> DEFINE b == Block("sent", r.user, r.level)
  <2>1. main' = Append(main, b) /\ UNCHANGED session  BY <1>6 DEF VerifyAnswer
  <2>2. r.user \in Uids \cup {None}
    BY <1>1, <1>6 DEF VerifyAnswer, Requests, RequestOf
  <2>3. b \in Blocks  BY <1>2, <2>2, EnterBlocks
  <2>4. b.type # "enterGuest"  BY DEF Block
  <2>5. main \in Seq(Blocks) /\ anonymousUserID' = anonymousUserID
    BY <2>1 DEF TypeOK, session
  <2>6. main' \in Seq(Blocks) /\ GuestEnters'
    <3> HIDE DEF b
    <3> QED  BY <2>1, <2>3, <2>4, <2>5, Queue DEF GuestEnters
  <2> QED  BY <1>6, <2>6
             DEF VerifyAnswer, TypeOK, GuestHasID, session, service, records, world
<1>7. CASE Refuse(r)
  <2>1. Unheard({r}) \subseteq Uids
    BY <1>1 DEF Unheard, Requests, RequestOf, Uids, Users
  <2>2. accounts' \subseteq Uids /\ lost' \subseteq Uids
    BY <1>7, <2>1 DEF Refuse, TypeOK
  <2> QED  BY <1>7, <2>2, SameSession DEF Refuse, TypeOK, session, records
<1> QED  BY <1>3, <1>4, <1>5, <1>6, <1>7 DEF Answer

\* A block that queues another, or none, in its place.
LEMMA BlockKept ==
    ASSUME GuestKept, main # <<>>, NEW t \in {"enter", "enterGuest"},
           main' = Tail(main) \/ main' = Enter(t),
           anonymousUserID # None => anonymousUserID' # None,
           t = "enterGuest" => anonymousUserID' # None
    PROVE  main' \in Seq(Blocks) /\ GuestEnters'
<1> USE DEF GuestKept
<1>1. First \in Blocks /\ Tail(main) \in Seq(Blocks)  BY HeadOfMain DEF First
<1>2. \A i \in DOMAIN Tail(main) :
         Tail(main)[i].type = "enterGuest" => anonymousUserID' # None
  BY Dequeue
<1>3. CASE main' = Tail(main)  BY <1>1, <1>2, <1>3 DEF GuestEnters
<1>4. CASE main' = Enter(t)
  <2>1. Block(t, None, First.level) \in Blocks
    BY <1>1, BlockUsers, EnterBlocks
  <2>2. Block(t, None, First.level).type = t  BY DEF Block
  <2>3. main' = Append(Tail(main), Block(t, None, First.level))  BY <1>4 DEF Enter
  <2> QED  BY <1>1, <1>2, <2>1, <2>2, <2>3, Queue
<1> QED  BY <1>3, <1>4

\* Every block of the main queue.
LEMMA OnMainKept == ASSUME GuestKept, OnMain  PROVE GuestKept'
<1> USE DEF GuestKept
<1>1. main # <<>>
  BY DEF OnMain, SignedIn, Registered, VerificationSent, Facebook, Guest,
         EnterAccount, EnterGuest, Runs
<1>2. First \in Blocks /\ First.level \in Nat /\ First.user \in Uids \cup {None}
  BY <1>1, HeadOfMain, BlockUsers DEF First
<1>3. CASE SignedIn
  <2>1. First.type = "signedIn"  BY <1>3 DEF SignedIn, Runs, First
  <2>2. First.user \in Emails  BY <1>2, <2>1, BlockUsers
  <2>3. main' = Tail(main) \/ main' = Enter("enter")  BY <1>3 DEF SignedIn
  <2>4. main' \in Seq(Blocks) /\ GuestEnters'
    BY <1>1, <1>3, <2>3, BlockKept DEF SignedIn
  <2>5. currentUserID' \in Users \cup {None} /\ isAnonymous' \in BOOLEAN
    BY <1>3, <2>2 DEF SignedIn, TypeOK, Users
  <2> QED  BY <1>3, <2>4, <2>5
             DEF SignedIn, TypeOK, GuestHasID, service, records, world
<1>4. CASE Registered
  <2>1. First.type = "registered"  BY <1>4 DEF Registered, Runs, First
  <2>2. First.user \in Uids  BY <1>2, <2>1, BlockUsers DEF Uids, Users
  <2>3. main' \in Seq(Blocks) /\ GuestEnters'
    BY <1>1, <1>4, BlockKept DEF Registered
  <2>4. requests' \subseteq Requests
    <3>1. [type |-> "verify", user |-> auth.user, level |-> First.level,
           id |-> spent["ask"]] \in Requests
      BY <1>2 DEF TypeOK, Requests, RequestOf, Inputs
    <3> QED  BY <1>4, <3>1 DEF Registered, TypeOK
  <2> QED  BY <1>4, <2>2, <2>3, <2>4
             DEF Registered, TypeOK, GuestHasID, service, world
<1>5. CASE VerificationSent
  <2>1. main' = Tail(main) \/ main' = Enter("enter")  BY <1>5 DEF VerificationSent
  <2>2. main' \in Seq(Blocks) /\ GuestEnters'
    BY <1>1, <1>5, <2>1, BlockKept DEF VerificationSent, session
  <2> QED  BY <1>5, <2>2
             DEF VerificationSent, TypeOK, GuestHasID, session, service, records, world
<1>6. CASE Facebook
  <2>1. First.type = "facebook"  BY <1>6 DEF Facebook, Runs, First
  <2>2. First.user \in Users /\ First.user \in Uids
    BY <1>2, <2>1, BlockUsers DEF Uids, Users
  <2>3. main' \in Seq(Blocks) /\ GuestEnters'
    BY <1>1, <1>6, BlockKept DEF Facebook
  <2> QED  BY <1>6, <2>2, <2>3
             DEF Facebook, TypeOK, GuestHasID, service, world
<1>7. CASE Guest
  <2>1. First.type = "guest"  BY <1>7 DEF Guest, Runs, First
  <2>2. First.user \in Guests /\ First.user \in Uids /\ First.user # None
    BY <1>2, <2>1, BlockUsers, UidsAssumption DEF Uids
  <2>3. main' \in Seq(Blocks) /\ GuestEnters'
    BY <1>1, <1>7, <2>2, BlockKept DEF Guest
  <2>4. GuestHasID'  BY <1>7, <2>2 DEF Guest, GuestHasID
  <2>5. TypeOK'  BY <1>7, <2>2, <2>3 DEF Guest, TypeOK, service, world
  <2> QED  BY <2>3, <2>4, <2>5
<1>8. CASE EnterAccount \/ EnterGuest
  <2>1. main' \in Seq(Blocks) /\ GuestEnters'
    BY <1>1, <1>8, BlockKept DEF EnterAccount, EnterGuest
  <2>2. nav' \in Seq(Seq(Screens))
    <3>1. nav' = [nav EXCEPT ![First.level] = Append(@, "home")]
      BY <1>8 DEF EnterAccount, EnterGuest, NextController
    <3>2. "home" \in Screens /\ nav \in Seq(Seq(Screens))  BY DEF Screens, TypeOK
    <3> QED  BY <1>2, <3>1, <3>2, PushIn
  <2>3. EnterGuest => anonymousUserID # None
    <3>1. main \in Seq(Blocks)  BY DEF TypeOK
    <3>2. 1 \in DOMAIN main /\ Head(main) = main[1]  BY <1>1, <3>1
    <3> QED  BY <3>2 DEF EnterGuest, Runs, GuestEnters
  <2>4. /\ isSignedIn' = TRUE
        /\ UNCHANGED <<currentUserID, anonymousUserID, service, records, requests,
                       appearing, world>>
        /\ isAnonymous' = isAnonymous \/ (isAnonymous' = TRUE /\ EnterGuest)
    BY <1>8 DEF EnterAccount, EnterGuest
  <2>5. GuestHasID'  BY <2>3, <2>4 DEF GuestHasID
  <2>6. TypeOK'
    BY <2>1, <2>2, <2>4 DEF TypeOK, service, records, world
  <2> QED  BY <2>1, <2>5, <2>6
<1> QED  BY <1>3, <1>4, <1>5, <1>6, <1>7, <1>8 DEF OnMain

\* The links in e-mails, the database, the network and the end of the process.
LEMMA OutsideKept == ASSUME GuestKept, Outside  PROVE GuestKept'
<1> USE DEF GuestKept
<1>1. ASSUME NEW u \in Emails, OpenLink(u)  PROVE GuestKept'
  BY <1>1, SameSession DEF OpenLink, TypeOK, session, records, world
<1>2. ASSUME NEW u \in Uids, StoreRecord(u)  PROVE GuestKept'
  BY <1>2, SameSession DEF StoreRecord, TypeOK, session, service, world
<1>3. CASE NetworkChange
  <2>1. spent' \in [Inputs -> Nat]  BY <1>3, SpendKept DEF NetworkChange, Inputs
  <2>2. reachable' \in BOOLEAN  BY <1>3 DEF NetworkChange
  <2>3. UNCHANGED <<session, service, records, requests, main, nav, appearing, lost,
                    overlapped>>
    BY <1>3 DEF NetworkChange
  <2>4. GuestHasID' /\ GuestEnters'
    BY <2>3 DEF GuestHasID, GuestEnters, session
  <2>5. TypeOK'
    BY <2>1, <2>2, <2>3 DEF TypeOK, session, service, records
  <2> QED  BY <2>4, <2>5 DEF GuestKept
<1>4. CASE Kill
  <2>1. Unheard(requests) \subseteq Uids
    BY DEF Unheard, TypeOK, Requests, RequestOf, Uids, Users
  <2>2. Unset \subseteq Uids
    <3>1. ASSUME NEW i \in DOMAIN main, main[i].type = "registered"
          PROVE  main[i].user \in Uids
      <4>1. main[i] \in Blocks  BY <3>1 DEF TypeOK
      <4> QED  BY <3>1, <4>1, BlockUsers DEF Uids, Users
    <3> QED  BY <3>1 DEF Unset
  <2>3. accounts' \subseteq Uids /\ lost' \subseteq Uids
    BY <1>4, <2>1, <2>2 DEF Kill, TypeOK
  <2>4. spent' \in [Inputs -> Nat]  BY <1>4, SpendKept DEF Kill, Inputs
  <2>5. main' = <<>> /\ nav' = <<>>  BY <1>4 DEF Kill
  <2>6. main' \in Seq(Blocks) /\ nav' \in Seq(Seq(Screens)) /\ GuestEnters'
    BY <2>5 DEF GuestEnters
  <2> QED  BY <1>4, <2>3, <2>4, <2>6 DEF Kill, TypeOK, GuestHasID, session
<1> QED  BY <1>1, <1>2, <1>3, <1>4 DEF Outside

\* The invariant holds at first and in every reachable state.
LEMMA AlwaysKept == Spec => []GuestKept
<1>1. ASSUME Init  PROVE GuestKept
  <2> USE <1>1 DEF Init
  <2>1. main \in Seq(Blocks) /\ nav \in Seq(Seq(Screens)) /\ GuestEnters
    BY DEF GuestEnters
  <2>2. accounts \subseteq Uids /\ known \subseteq Uids /\ verified \subseteq Emails
    BY DEF Uids, Users
  <2>3. spent \in [Inputs -> Nat]
    OBVIOUS
  <2>4. auth \in [user : Uids \cup {None}, verified : BOOLEAN]
    OBVIOUS
  <2>5. requests \subseteq Requests /\ setups \subseteq Uids /\ lost \subseteq Uids
    OBVIOUS
  <2>6. GuestHasID
    BY DEF GuestHasID
  <2>7. appearing \in 0..2
    OBVIOUS
  <2>8. /\ isSignedIn \in BOOLEAN /\ isAnonymous \in BOOLEAN /\ reachable \in BOOLEAN
        /\ overlapped \in BOOLEAN
        /\ currentUserID \in Users \cup {None} /\ anonymousUserID \in Guests \cup {None}
    OBVIOUS
  <2> HIDE <1>1 DEF Init
  <2> QED  BY <2>1, <2>2, <2>3, <2>4, <2>5, <2>6, <2>7, <2>8 DEF GuestKept, TypeOK
<1>2. GuestKept /\ [Next]_vars => GuestKept'
  <2>1. ASSUME GuestKept, Next  PROVE GuestKept'
    BY <2>1, StartKept, ButtonKept, ReplyKept, OnMainKept, OutsideKept DEF Next
  <2>2. ASSUME GuestKept, UNCHANGED vars  PROVE GuestKept'
    BY <2>2 DEF GuestKept, TypeOK, GuestHasID, GuestEnters, vars, session, service,
                records, world
  <2> QED  BY <2>1, <2>2
<1> QED  BY <1>1, <1>2, PTL DEF Spec

\* UserSession is well typed: above all, a uid is kept as an account's or a
\* guest's only if it is one.
THEOREM SessionTyped == Spec => []TypeOK
<1>1. GuestKept => TypeOK  BY DEF GuestKept
<1> QED  BY <1>1, AlwaysKept, PTL

\* A guest session has a key, whatever requests overlap and whenever the
\* process ends: processHandler never meets its missing database.
THEOREM GuestAlwaysHasID == Spec => []GuestHasID
<1>1. GuestKept => GuestHasID  BY DEF GuestKept
<1> QED  BY <1>1, AlwaysKept, PTL

-----------------------------------------------------------------------------
(***************************************************************************)
(* Records: whoever has an account, or a uid in User.session, has a record *)
(* in the database or one on its way there, or lost it.                    *)
(***************************************************************************)

Recorded == known \cup setups \cup lost \cup Unset

RecordsKept ==
    /\ verified \subseteq accounts
    /\ accounts \cap Emails \subseteq Recorded
    /\ {anonymousUserID, currentUserID} \subseteq Recorded \cup {None}
    /\ \A i \in DOMAIN main : main[i].type = "signedIn" => main[i].user \in accounts

\* Who is in the queue after a block was taken off its head.
LEMMA UnsetTail ==
    ASSUME TypeOK, main # <<>>
    PROVE  /\ Unset \subseteq {Tail(main)[i].user : i \in
                  {j \in DOMAIN Tail(main) : Tail(main)[j].type = "registered"}}
                  \cup (IF First.type = "registered" THEN {First.user} ELSE {})
           /\ \A i \in DOMAIN Tail(main) :
                  i + 1 \in DOMAIN main /\ Tail(main)[i] = main[i + 1]
           /\ 1 \in DOMAIN main /\ First = main[1]
<1>1. main \in Seq(Blocks) /\ Len(main) > 0  BY DEF TypeOK
<1>2. ASSUME NEW i \in DOMAIN main, i # 1
      PROVE  i - 1 \in DOMAIN Tail(main) /\ Tail(main)[i - 1] = main[i]
  BY <1>1, <1>2
<1>3. 1 \in DOMAIN main /\ First = main[1]  BY <1>1 DEF First
<1>4. \A i \in DOMAIN Tail(main) : i + 1 \in DOMAIN main /\ Tail(main)[i] = main[i + 1]
  BY <1>1
<1>5. ASSUME NEW i \in DOMAIN main, main[i].type = "registered"
      PROVE  \/ main[i].user \in {Tail(main)[k].user : k \in
                  {j \in DOMAIN Tail(main) : Tail(main)[j].type = "registered"}}
             \/ First.type = "registered" /\ main[i].user = First.user
  <2>1. CASE i = 1  BY <1>3, <1>5, <2>1
  <2>2. CASE i # 1  BY <1>2, <1>5, <2>2
  <2> QED  BY <2>1, <2>2
<1> QED  BY <1>3, <1>4, <1>5 DEF Unset

\* A block queued behind keeps the others.
LEMMA UnsetAppend ==
    ASSUME NEW ms \in Seq(Blocks), NEW b \in Blocks, main' = Append(ms, b)
    PROVE  /\ {ms[i].user : i \in {j \in DOMAIN ms : ms[j].type = "registered"}}
                 \subseteq Unset'
           /\ b.type = "registered" => b.user \in Unset'
           /\ \A i \in DOMAIN main' : main'[i] = b \/ (i \in DOMAIN ms /\ main'[i] = ms[i])
<1>1. Len(ms) + 1 \in DOMAIN main' /\ main'[Len(ms) + 1] = b  OBVIOUS
<1>2. \A i \in DOMAIN ms : i \in DOMAIN main' /\ main'[i] = ms[i]  OBVIOUS
<1>3. \A i \in DOMAIN main' : main'[i] = b \/ (i \in DOMAIN ms /\ main'[i] = ms[i])
  OBVIOUS
<1>4. {ms[i].user : i \in {j \in DOMAIN ms : ms[j].type = "registered"}} \subseteq Unset'
  BY <1>2 DEF Unset
<1>5. b.type = "registered" => b.user \in Unset'  BY <1>1 DEF Unset
<1> QED  BY <1>3, <1>4, <1>5

\* A block that runs hands on who waits behind it, and may queue one more.
LEMMA RunRecorded ==
    ASSUME TypeOK, RecordsKept, main # <<>>, NEW b \in Blocks, b.type \notin {"registered", "signedIn"},
           main' = Tail(main) \/ main' = Append(Tail(main), b),
           known \cup lost \subseteq known' \cup lost', setups \subseteq setups',
           First.type = "registered" => First.user \in setups',
           accounts' = accounts
    PROVE  /\ Recorded \subseteq Recorded'
           /\ \A i \in DOMAIN main' :
                  main'[i].type = "signedIn" => main'[i].user \in accounts'
<1> DEFINE behind == {Tail(main)[i].user : i \in
                         {j \in DOMAIN Tail(main) : Tail(main)[j].type = "registered"}}
<1>1. Tail(main) \in Seq(Blocks)  BY HeadOfMain
<1>2. Unset \subseteq behind \cup (IF First.type = "registered" THEN {First.user} ELSE {})
  BY UnsetTail
<1>3. \A i \in DOMAIN Tail(main) :
         Tail(main)[i].type = "signedIn" => Tail(main)[i].user \in accounts
  BY UnsetTail DEF RecordsKept
<1>4. CASE main' = Tail(main)
  <2>1. behind = Unset'  BY <1>4 DEF Unset
  <2> HIDE DEF behind
  <2> QED  BY <1>2, <1>3, <1>4, <2>1 DEF Recorded
<1>5. CASE main' = Append(Tail(main), b)
  <2>1. behind \subseteq Unset'  BY <1>1, <1>5, UnsetAppend
  <2>2. \A i \in DOMAIN main' :
           main'[i] = b \/ (i \in DOMAIN Tail(main) /\ main'[i] = Tail(main)[i])
    BY <1>1, <1>5, UnsetAppend
  <2> HIDE DEF behind
  <2> QED  BY <1>2, <1>3, <2>1, <2>2 DEF Recorded
<1> QED  BY <1>4, <1>5

\* When the queue stays, or something else than a registration joins it.
LEMMA JoinRecorded ==
    ASSUME TypeOK, RecordsKept, NEW b \in Blocks, b.type = "signedIn" => b.user \in accounts',
           main' = main \/ main' = Append(main, b),
           known \cup lost \cup setups \subseteq known' \cup lost' \cup setups',
           accounts \subseteq accounts'
    PROVE  /\ Recorded \subseteq Recorded'
           /\ \A i \in DOMAIN main' :
                  main'[i].type = "signedIn" => main'[i].user \in accounts'
<1>1. main \in Seq(Blocks)  BY DEF TypeOK
<1>2. CASE main' = main  BY <1>2 DEF Recorded, Unset, RecordsKept
<1>3. CASE main' = Append(main, b)
  <2>1. Unset \subseteq Unset'  BY <1>1, <1>3, UnsetAppend DEF Unset
  <2>2. \A i \in DOMAIN main' : main'[i] = b \/ (i \in DOMAIN main /\ main'[i] = main[i])
    BY <1>1, <1>3, UnsetAppend
  <2> QED  BY <2>1, <2>2 DEF Recorded, RecordsKept
<1> QED  BY <1>2, <1>3

\* What the other steps change nothing of.
LEMMA SameRecorded ==
    ASSUME RecordsKept, UNCHANGED <<verified, accounts, anonymousUserID, currentUserID, main>>,
           known \cup lost \cup setups \subseteq known' \cup lost' \cup setups'
    PROVE  RecordsKept'
BY DEF RecordsKept, Recorded, Unset

\* Answers and refusals: a new account has its completion in the queue.
LEMMA ReplyRecorded == ASSUME TypeOK, RecordsKept, Reply  PROVE RecordsKept'
<1> PICK r \in requests : Answer(r) \/ Refuse(r)  BY DEF Reply
<1>0. r \in Requests  BY DEF TypeOK
<1>1. ASSUME NEW t, NEW u, Complete(r, t, u),
             [type |-> t, user |-> u, level |-> r.level, checked |-> u \in verified] \in Blocks,
             u \in Emails => t = "registered" \/ u \in accounts
      PROVE  RecordsKept'
  <2> DEFINE b == [type |-> t, user |-> u, level |-> r.level, checked |-> u \in verified]
  <2>1. /\ main' = Append(main, b) /\ accounts' = accounts \cup {u}
        /\ UNCHANGED <<verified, known, setups, lost, anonymousUserID, currentUserID>>
    BY <1>1 DEF Complete, session, records, world
  <2>2. b \in Blocks /\ b.type = t /\ b.user = u  BY <1>1
  <2> HIDE DEF b
  <2>3. /\ Recorded \subseteq Recorded'
        /\ \A i \in DOMAIN main' :
               main'[i].type = "signedIn" => main'[i].user \in accounts'
    BY <2>1, <2>2, JoinRecorded
  <2>4. t = "registered" => u \in Recorded'
    <3>1. main \in Seq(Blocks)  BY DEF TypeOK
    <3> QED  BY <2>1, <2>2, <3>1, UnsetAppend DEF Recorded
  <2>5. accounts' \cap Emails \subseteq Recorded'
    BY <1>1, <2>1, <2>3, <2>4 DEF RecordsKept
  <2> QED  BY <2>1, <2>3, <2>5 DEF RecordsKept
<1>2. CASE SignedInAnswer(r) \/ RegisteredAnswer(r)
  <2>1. r.user \in Emails /\ r.level \in Nat
    BY <1>0, <1>2 DEF SignedInAnswer, RegisteredAnswer, Requests, RequestOf
  <2>2. ASSUME NEW t \in {"signedIn", "registered"}
        PROVE  [type |-> t, user |-> r.user, level |-> r.level,
                checked |-> r.user \in verified] \in Blocks
    BY <2>1 DEF Blocks, BlockOf
  <2> QED  BY <1>1, <1>2, <2>2 DEF SignedInAnswer, RegisteredAnswer
<1>3. CASE FacebookAnswer(r)
  <2>1. r.user \in Facebooks /\ r.level \in Nat
    BY <1>0, <1>3 DEF FacebookAnswer, Requests, RequestOf
  <2>2. [type |-> "facebook", user |-> r.user, level |-> r.level,
         checked |-> r.user \in verified] \in Blocks
    BY <2>1 DEF Blocks, BlockOf
  <2> QED  BY <1>1, <1>3, <2>1, <2>2, UidsAssumption DEF FacebookAnswer
<1>4. CASE GuestAnswer(r)
  <2>1. r.user \in Guests \cup {None} /\ r.level \in Nat
    BY <1>0, <1>4 DEF GuestAnswer, Requests, RequestOf
  <2>2. PICK g \in Guests : Complete(r, "guest", g)
    BY <1>4, <2>1 DEF GuestAnswer
  <2>3. [type |-> "guest", user |-> g, level |-> r.level,
         checked |-> g \in verified] \in Blocks
    BY <2>1 DEF Blocks, BlockOf
  <2>4. g \notin Emails  BY UidsAssumption DEF Users
  <2> QED  BY <1>1, <2>2, <2>3, <2>4
<1>5. CASE VerifyAnswer(r)
  <2> DEFINE b == Block("sent", r.user, r.level)
  <2>1. /\ main' = Append(main, b)
        /\ UNCHANGED <<verified, accounts, known, setups, lost, anonymousUserID, currentUserID>>
    BY <1>5 DEF VerifyAnswer, session, service, records, world
  <2>2. b \in Blocks /\ b.type = "sent"
    BY <1>0, <1>5, EnterBlocks DEF VerifyAnswer, Requests, RequestOf, Block
  <2> HIDE DEF b
  <2> QED  BY <2>1, <2>2, JoinRecorded DEF RecordsKept
<1>6. CASE Refuse(r)
  <2>1. PICK made \in SUBSET Unheard({r}) :
           accounts' = accounts \cup made /\ lost' = lost \cup made
    BY <1>6 DEF Refuse
  <2>2. UNCHANGED <<verified, known, setups, anonymousUserID, currentUserID, main>>
    BY <1>6 DEF Refuse, session, records
  <2> QED  BY <2>1, <2>2 DEF RecordsKept, Recorded, Unset
<1> QED  BY <1>2, <1>3, <1>4, <1>5, <1>6 DEF Answer

\* The completions: each keeps a uid together with its record.
LEMMA OnMainRecorded == ASSUME TypeOK, RecordsKept, OnMain  PROVE RecordsKept'
<1>1. main # <<>>
  BY DEF OnMain, SignedIn, Registered, VerificationSent, Facebook, Guest,
         EnterAccount, EnterGuest, Runs
<1>2. First \in Blocks /\ First.level \in Nat /\ First.user \in Uids \cup {None}
  BY <1>1, HeadOfMain, BlockUsers DEF First
<1>3. \A t \in {"enter", "enterGuest"} :
         /\ Block(t, None, First.level) \in Blocks
         /\ Block(t, None, First.level).type \notin {"registered", "signedIn"}
         /\ Enter(t) = Append(Tail(main), Block(t, None, First.level))
  <2>1. \A t \in {"enter", "enterGuest"} : Block(t, None, First.level) \in Blocks
    BY <1>2, EnterBlocks
  <2> QED  BY <2>1 DEF Enter, Block
<1>4. ASSUME known \cup lost \subseteq known' \cup lost', setups \subseteq setups',
             First.type = "registered" => First.user \in setups',
             UNCHANGED <<accounts, verified>>,
             {anonymousUserID', currentUserID'} \subseteq
                 Recorded \cup setups' \cup {None},
             NEW t \in {"enter", "enterGuest"},
             main' = Tail(main) \/ main' = Enter(t)
      PROVE  RecordsKept'
  <2>1. /\ Recorded \subseteq Recorded'
        /\ \A i \in DOMAIN main' :
               main'[i].type = "signedIn" => main'[i].user \in accounts'
    BY <1>1, <1>3, <1>4, RunRecorded
  <2>2. setups' \subseteq Recorded'  BY DEF Recorded
  <2> QED  BY <1>4, <2>1, <2>2 DEF RecordsKept
<1>5. CASE SignedIn
  <2>1. First.type = "signedIn"  BY <1>5 DEF SignedIn, Runs, First
  <2>2. First.user \in Emails \cap accounts
    <3>1. 1 \in DOMAIN main /\ First = main[1]  BY <1>1, UnsetTail
    <3> QED  BY <1>2, <2>1, <3>1, BlockUsers DEF RecordsKept
  <2>3. First.user \in Recorded  BY <2>2 DEF RecordsKept
  <2>4. /\ currentUserID' \in {currentUserID, First.user}
        /\ UNCHANGED <<anonymousUserID, accounts, verified, known, setups, lost>>
        /\ main' = Tail(main) \/ main' = Enter("enter")
    BY <1>5 DEF SignedIn, service, records, world
  <2> QED  BY <1>4, <2>1, <2>3, <2>4 DEF RecordsKept
<1>6. CASE Registered
  <2>1. /\ UNCHANGED <<anonymousUserID, currentUserID, accounts, verified, known, lost>>
        /\ setups' = setups \cup {First.user} /\ main' = Tail(main)
    BY <1>6 DEF Registered, service, world
  <2> QED  BY <1>4, <2>1 DEF RecordsKept
<1>7. CASE VerificationSent
  <2>1. /\ UNCHANGED <<anonymousUserID, currentUserID, accounts, verified, known, setups, lost>>
        /\ main' = Tail(main) \/ main' = Enter("enter")
        /\ First.type = "sent"
    BY <1>7 DEF VerificationSent, Runs, First, session, service, records, world
  <2> QED  BY <1>4, <2>1 DEF RecordsKept
<1>8. CASE Facebook
  <2>1. /\ UNCHANGED <<anonymousUserID, accounts, verified, known, lost>>
        /\ currentUserID' = First.user /\ setups' = setups \cup {First.user}
        /\ main' = Enter("enter") /\ First.type = "facebook"
    BY <1>8 DEF Facebook, Runs, First, service, world
  <2> QED  BY <1>4, <2>1 DEF RecordsKept
<1>9. CASE Guest
  <2>1. /\ UNCHANGED <<currentUserID, accounts, verified, known, lost>>
        /\ anonymousUserID' = First.user /\ setups' = setups \cup {First.user}
        /\ main' = Enter("enterGuest") /\ First.type = "guest"
    BY <1>9 DEF Guest, Runs, First, service, world
  <2> QED  BY <1>4, <2>1 DEF RecordsKept
<1>10. CASE EnterAccount \/ EnterGuest
  <2>1. /\ UNCHANGED <<anonymousUserID, currentUserID, accounts, verified, known, setups, lost>>
        /\ main' = Tail(main) /\ First.type \in {"enter", "enterGuest"}
    BY <1>10 DEF EnterAccount, EnterGuest, Runs, First, service, records, world
  <2> QED  BY <1>4, <2>1 DEF RecordsKept
<1> QED  BY <1>5, <1>6, <1>7, <1>8, <1>9, <1>10 DEF OnMain

\* The rest, of which only the end of the process empties the queue.
LEMMA NextRecorded == TypeOK /\ RecordsKept /\ [Next]_vars => RecordsKept'
<1> SUFFICES ASSUME TypeOK, RecordsKept, [Next]_vars  PROVE RecordsKept'
  OBVIOUS
<1>1. CASE \/ Start \/ UNCHANGED vars \/ ShowProfile \/ LeaveProfile \/ SignOut
           \/ NetworkChange \/ \E u \in Uids : StoreRecord(u)
  <2>1. UNCHANGED <<verified, accounts, anonymousUserID, currentUserID, main>>
    BY <1>1 DEF Start, Launch, ListenForConnection, vars, ShowProfile, LeaveProfile, SignOut,
                NetworkChange, StoreRecord, session, service
  <2>2. known \cup lost \cup setups \subseteq known' \cup lost' \cup setups'
    BY <1>1 DEF Start, Launch, ListenForConnection, vars, ShowProfile, LeaveProfile, SignOut,
                NetworkChange, StoreRecord, records, world
  <2> QED  BY <2>1, <2>2, SameRecorded
<1>2. ASSUME NEW t, NEW u, Ask(t, u)  PROVE RecordsKept'
  BY <1>2, SameRecorded DEF Ask, session, service, records
<1>3. CASE SkipBtn
  <2>1. CASE anonymousUserID = None
    BY <1>2, <1>3, <2>1 DEF SkipBtn
  <2>2. CASE anonymousUserID # None
    <3> DEFINE b == Block("enterGuest", None, Len(nav))
    <3>1. /\ main' = Append(main, b)
          /\ UNCHANGED <<verified, accounts, known, setups, lost, anonymousUserID, currentUserID>>
      BY <1>3, <2>2 DEF SkipBtn, session, service, records
    <3>2. b \in Blocks /\ b.type = "enterGuest"
      BY EnterBlocks, Len(nav) \in Nat DEF TypeOK, Block
    <3> HIDE DEF b
    <3> QED  BY <3>1, <3>2, JoinRecorded DEF RecordsKept
  <2> QED  BY <2>1, <2>2
<1>4. CASE Button
  BY <1>1, <1>2, <1>3, <1>4 DEF Button, SignInBtn, RegisterBtn, FacebookBtn
<1>5. ASSUME NEW u \in Emails, OpenLink(u)  PROVE RecordsKept'
  BY <1>5 DEF OpenLink, RecordsKept, Recorded, Unset, session, records, world
<1>6. CASE Kill
  <2>1. PICK made \in SUBSET Unheard(requests) :
           /\ accounts' = accounts \cup made
           /\ lost' = lost \cup setups \cup Unset \cup made
    BY <1>6 DEF Kill
  <2>2. UNCHANGED <<verified, known, anonymousUserID, currentUserID>> /\ main' = <<>>
    BY <1>6 DEF Kill, session
  <2> QED  BY <2>1, <2>2 DEF RecordsKept, Recorded
<1> QED
  BY <1>1, <1>4, <1>5, <1>6, ReplyRecorded, OnMainRecorded DEF Next, Outside

\* However requests overlap and whenever the process ends.
LEMMA AlwaysRecorded == Spec => []RecordsKept
<1>1. Init => RecordsKept
  BY DEF Init, RecordsKept, Recorded
<1>2. GuestKept => TypeOK  BY DEF GuestKept
<1> QED  BY <1>1, <1>2, NextRecorded, AlwaysKept, PTL DEF Spec

-----------------------------------------------------------------------------
(***************************************************************************)
(* One button at a time: while something is under way a page is in front,  *)
(* nobody is signed in, and what it will do to the session is known.       *)
(***************************************************************************)

AtPage == Running /\ Visible = "page"

Single ==
    /\ \A q, r \in requests : q = r
    /\ Len(main) <= 1
    /\ requests = {} \/ main = <<>>
    /\ requests # {} \/ main # <<>> => AtPage

RequestFits(r) ==
    /\ r.level = Len(nav)
    /\ r.type = "guest" => anonymousUserID = None
    /\ r.type = "verify" => ~auth.verified

\* A block that comes from a request for an account, and one that enters as
\* an account, is about the current user of Firebase Auth.
BlockFits(b) ==
    /\ b.level = Len(nav)
    /\ b.type \in {"signedIn", "facebook"} => auth.user = b.user
    /\ b.type \in {"registered", "sent"} => ~auth.verified
    /\ b.type = "guest" => anonymousUserID = None
    /\ b.type = "enter" =>
          ~isAnonymous /\ currentUserID # None /\ currentUserID = auth.user

UnderWay == /\ Single
            /\ \A r \in requests : RequestFits(r)
            /\ \A i \in DOMAIN main : BlockFits(main[i])

\* Under a profile is the home screen it was opened from.
Stacked ==
    /\ appearing > 0 => Len(nav) = 1
    /\ nav # <<>> =>
         /\ Top # <<>>
         /\ \A i \in DOMAIN Top : Top[i] = "profile" => i > 1 /\ Top[i - 1] = "home"
         /\ Visible # "connection" => (isSignedIn <=> Visible \in {"home", "profile"})

AccountFits == isSignedIn /\ ~isAnonymous => currentUserID # None /\ currentUserID = auth.user

Alone == UnderWay /\ Stacked /\ AccountFits

\* Pushing a screen on the controller in front.
LEMMA PushTop ==
    ASSUME TypeOK, nav # <<>>, NEW x \in Screens, NEW n, n = Len(nav),
           nav' = [nav EXCEPT ![n] = Append(@, x)]
    PROVE  /\ nav' # <<>> /\ Len(nav') = Len(nav)
           /\ Top \in Seq(Screens) /\ Top' = Append(Top, x)
           /\ Top' # <<>> /\ Visible' = x
<1>1. nav \in Seq(Seq(Screens)) /\ Len(nav) \in Nat /\ Len(nav) > 0  BY DEF TypeOK
<1>2. n \in DOMAIN nav /\ nav[n] \in Seq(Screens)  BY <1>1
<1>3. nav' \in Seq(Seq(Screens)) /\ Len(nav') = Len(nav) /\ nav'[n] = Append(nav[n], x)
  <2>1. Append(nav[n], x) \in Seq(Screens)  BY <1>2
  <2> QED  BY <1>1, <1>2, <2>1, ExceptSeq
<1>4. Top = nav[n] /\ Top' = nav'[n]  BY <1>3 DEF Top
<1>5. Append(nav[n], x)[Len(Append(nav[n], x))] = x  BY <1>2
<1> QED  BY <1>1, <1>2, <1>3, <1>4, <1>5 DEF Visible

\* A stack stays one when a screen that may lie there is pushed.
LEMMA PushStacked ==
    ASSUME TypeOK, Stacked, nav # <<>>, NEW x \in Screens \ {"connection"}, NEW n, n = Len(nav),
           nav' = [nav EXCEPT ![n] = Append(@, x)],
           x = "profile" => Visible = "home",
           isSignedIn' <=> x \in {"home", "profile"},
           appearing' > 0 => Len(nav) = 1
    PROVE  Stacked'
<1>1. /\ nav' # <<>> /\ Len(nav') = Len(nav)
      /\ Top \in Seq(Screens) /\ Top' = Append(Top, x)
      /\ Top' # <<>> /\ Visible' = x
  BY PushTop
<1>2. Top # <<>> /\ \A i \in DOMAIN Top : Top[i] = "profile" => i > 1 /\ Top[i - 1] = "home"
  BY DEF Stacked
<1>3. ASSUME NEW i \in DOMAIN Top', Top'[i] = "profile"
      PROVE  i > 1 /\ Top'[i - 1] = "home"
  <2>1. CASE i \in DOMAIN Top
    <3>1. Top'[i] = Top[i]  BY <1>1, <2>1
    <3>2. i > 1 /\ Top[i - 1] = "home" /\ i - 1 \in DOMAIN Top  BY <1>1, <1>2, <1>3, <2>1, <3>1
    <3> QED  BY <1>1, <3>2
  <2>2. CASE i \notin DOMAIN Top
    <3>1. i = Len(Top) + 1 /\ Top'[i] = x  BY <1>1, <1>3, <2>2
    <3>2. Len(Top) > 0 /\ Top[Len(Top)] = "home" /\ Len(Top) \in DOMAIN Top
      BY <1>1, <1>2, <1>3, <3>1 DEF Visible
    <3> QED  BY <1>1, <3>1, <3>2
  <2> QED  BY <2>1, <2>2
<1> QED  BY <1>1, <1>3 DEF Stacked

\* Nothing is under way where no button of a page can be tapped.
LEMMA Elsewhere ==
    ASSUME Alone, ~AtPage
    PROVE  requests = {} /\ main = <<>>
BY DEF Alone, UnderWay, Single

\* Nothing is under way.
LEMMA Nothing ==
    ASSUME requests' = {}, main' = <<>>
    PROVE  UnderWay'
BY DEF UnderWay, Single

\* A tap on a page while nothing is under way.
LEMMA AskAlone ==
    ASSUME ~overlapped', TypeOK, Alone, NEW t, NEW u, Ask(t, u),
           t = "guest" => anonymousUserID = None, t # "verify"
    PROVE  Alone'
<1>1. requests = {} /\ main = <<>> /\ AtPage
  BY DEF Ask, Press, AtPage
<1>2. UNCHANGED <<session, service, main, nav, appearing>>
  BY DEF Ask
<1>3. requests' = {[type |-> t, user |-> u, level |-> Len(nav), id |-> spent["ask"]]}
  BY <1>1 DEF Ask
<1>4. AtPage'  BY <1>1, <1>2 DEF AtPage, Running, Visible, Top
<1>5. UnderWay'
  BY <1>1, <1>2, <1>3, <1>4 DEF UnderWay, Single, RequestFits, BlockFits, session
<1>6. Stacked' /\ AccountFits'
  BY <1>2 DEF Alone, Stacked, AccountFits, session, service, Visible, Top
<1> QED  BY <1>5, <1>6 DEF Alone

\* A button that waited asks for one thing, or lets the stored guest in.
LEMMA ButtonAlone == ASSUME ~overlapped', TypeOK, Alone, Button  PROVE Alone'
<1>1. CASE \/ \E u \in Emails : SignInBtn(u) \/ RegisterBtn(u)
           \/ \E u \in Facebooks : FacebookBtn(u)
  BY <1>1, AskAlone DEF SignInBtn, RegisterBtn, FacebookBtn
<1>2. CASE SkipBtn
  <2>1. CASE anonymousUserID = None
    BY <1>2, <2>1, AskAlone DEF SkipBtn
  <2>2. CASE anonymousUserID # None
    <3> DEFINE b == Block("enterGuest", None, Len(nav))
    <3>1. /\ requests = {} /\ main = <<>> /\ AtPage /\ main' = Append(main, b)
          /\ UNCHANGED <<session, service, requests, nav, appearing>>
      BY <1>2, <2>2 DEF SkipBtn, Press, AtPage
    <3>2. b.type = "enterGuest" /\ b.level = Len(nav)  BY DEF Block
    <3> HIDE DEF b
    <3>3. main' = <<b>>  BY <3>1
    <3>4. AtPage'  BY <3>1 DEF AtPage, Running, Visible, Top
    <3>5. UnderWay'
      BY <3>1, <3>2, <3>3, <3>4 DEF UnderWay, Single, RequestFits, BlockFits, session
    <3>6. Stacked' /\ AccountFits'
      BY <3>1 DEF Alone, Stacked, AccountFits, session, service, Visible, Top
    <3> QED  BY <3>5, <3>6 DEF Alone
  <2> QED  BY <2>1, <2>2
<1>3. CASE ShowProfile
  <2>1. requests = {} /\ main = <<>>  BY <1>3, Elsewhere DEF ShowProfile, AtPage
  <2>2. /\ UNCHANGED <<session, service, requests, main, appearing>> /\ nav # <<>>
        /\ nav' = [nav EXCEPT ![Len(nav)] = Append(@, "profile")]
        /\ Visible = "home" /\ appearing = 0
    BY <1>3 DEF ShowProfile, Running
  <2>3. isSignedIn  BY <2>2 DEF Alone, Stacked
  <2>4. Stacked'
    <3>1. isSignedIn'  BY <2>2, <2>3 DEF session
    <3>2. Stacked /\ ~(appearing' > 0) /\ "profile" \in Screens \ {"connection"}
      BY <2>2 DEF Alone, Screens
    <3> QED  BY <2>2, <3>1, <3>2, PushStacked
  <2> QED  BY <2>1, <2>2, <2>4, Nothing DEF Alone, AccountFits, session, service
<1>4. CASE LeaveProfile
  <2>1. requests = {} /\ main = <<>>  BY <1>4, Elsewhere DEF LeaveProfile, AtPage
  <2>2. /\ UNCHANGED <<session, service, requests, main, appearing>> /\ nav # <<>>
        /\ nav' = [nav EXCEPT ![Len(nav)] = SubSeq(@, 1, Len(@) - 1)]
        /\ Visible = "profile" /\ appearing = 0 /\ Len(Top) > 1
    BY <1>4 DEF LeaveProfile, Running
  <2>3. /\ nav \in Seq(Seq(Screens)) /\ Len(nav) \in DOMAIN nav /\ Top \in Seq(Screens)
        /\ Top = nav[Len(nav)]
    BY <2>2 DEF TypeOK, Top
  <2>4. SubSeq(Top, 1, Len(Top) - 1) \in Seq(Screens)  BY <2>2, <2>3
  <2>5. Len(nav') = Len(nav) /\ Top' = SubSeq(Top, 1, Len(Top) - 1) /\ nav' # <<>>
    BY <2>2, <2>3, <2>4, ExceptSeq DEF Top
  <2>6. Len(Top') = Len(Top) - 1 /\ \A i \in DOMAIN Top' : i \in DOMAIN Top /\ Top'[i] = Top[i]
    BY <2>2, <2>3, <2>5
  <2>7. isSignedIn /\ Top[Len(Top) - 1] = "home"
    BY <2>2, <2>3 DEF Alone, Stacked, Visible
  <2>8. Visible' = "home" /\ Top' # <<>>
    <3>1. Len(Top) - 1 \in DOMAIN Top'
      <4>1. Top' \in Seq(Screens) /\ Len(Top') = Len(Top) - 1 /\ Len(Top) \in Nat
        BY <2>3, <2>4, <2>5, <2>6
      <4> QED  BY <2>2, <4>1
    <3>2. Top' # <<>>  BY <3>1
    <3> QED  BY <2>6, <2>7, <3>1, <3>2 DEF Visible
  <2>9. ASSUME NEW i \in DOMAIN Top', Top'[i] = "profile"
        PROVE  i > 1 /\ Top'[i - 1] = "home"
    <3>1. i > 1 /\ Top[i - 1] = "home"  BY <2>2, <2>6, <2>9 DEF Alone, Stacked
    <3>2. i \in 1 .. Len(Top) - 1  BY <2>3, <2>5, <2>9
    <3>3. i - 1 \in DOMAIN Top'  BY <2>3, <2>5, <3>1, <3>2
    <3> QED  BY <2>6, <3>1, <3>3
  <2>10. Stacked'  BY <2>2, <2>5, <2>7, <2>8, <2>9 DEF Stacked, session
  <2> QED  BY <2>1, <2>2, <2>10, Nothing DEF Alone, AccountFits, session, service
<1>5. CASE SignOut
  <2>1. requests = {} /\ main = <<>>  BY <1>5, Elsewhere DEF SignOut, AtPage
  <2>2. /\ UNCHANGED <<requests, main, appearing>> /\ nav' = Append(nav, <<"page">>)
        /\ isSignedIn' = FALSE /\ appearing = 0
    BY <1>5 DEF SignOut, Running
  <2>3. nav \in Seq(Seq(Screens)) /\ <<"page">> \in Seq(Screens)  BY DEF TypeOK, Screens
  <2>4. nav' # <<>> /\ Top' = <<"page">> /\ Visible' = "page"
    BY <2>2, <2>3 DEF Top, Visible
  <2>5. Stacked' /\ AccountFits'  BY <2>2, <2>4 DEF Stacked, AccountFits
  <2> QED  BY <2>1, <2>2, <2>5, Nothing DEF Alone
<1> QED  BY <1>1, <1>2, <1>3, <1>4, <1>5 DEF Button

\* Starting the app, when nothing is under way yet.
LEMMA StartAlone == ASSUME TypeOK, Alone, Start  PROVE Alone'
<1>1. requests = {} /\ main = <<>>
  BY Elsewhere DEF Start, Launch, ListenForConnection, AtPage, Running, TypeOK
<1>2. UNCHANGED <<session, service, requests, main>>
  BY DEF Start, Launch, ListenForConnection
<1>3. UnderWay' /\ AccountFits'
  BY <1>1, <1>2, Nothing DEF Alone, AccountFits, session, service
<1>4. CASE Launch
  <2> DEFINE x == IF reachable THEN FirstScreen ELSE "connection"
  <2>1. nav' = <<<<x>>>> /\ appearing' \in {0, 2}  BY <1>4 DEF Launch
  <2>2. x # "profile" /\ (x # "connection" => (isSignedIn <=> x \in {"home", "profile"}))
    BY DEF FirstScreen
  <2> HIDE DEF x
  <2>3. Len(nav') = 1 /\ Top' = <<x>> /\ Visible' = x  BY <2>1 DEF Top, Visible
  <2>4. Top' # <<>> /\ DOMAIN Top' = {1} /\ Top'[1] = x  BY <2>3
  <2>5. isSignedIn' = isSignedIn  BY <1>2 DEF session
  <2> QED  BY <1>3, <2>2, <2>3, <2>4, <2>5 DEF Alone, Stacked
<1>5. CASE ListenForConnection
  <2>1. Len(nav) = 1 /\ nav # <<>> /\ isSignedIn' = isSignedIn
    BY <1>2, <1>5 DEF Alone, Stacked, ListenForConnection, session
  <2>2. CASE reachable
    <3>1. FirstScreen \in Screens \ {"connection", "profile"}  BY DEF FirstScreen, Screens
    <3>2. isSignedIn' <=> FirstScreen \in {"home", "profile"}  BY <2>1 DEF FirstScreen
    <3>3. nav' = [nav EXCEPT ![1] = Append(@, FirstScreen)]
      BY <1>5, <2>2 DEF ListenForConnection
    <3>4. Stacked'
      <4> HIDE DEF FirstScreen
      <4>1. Stacked /\ FirstScreen # "profile"  BY <3>1 DEF Alone
      <4> QED  BY <2>1, <3>1, <3>2, <3>3, <4>1, PushStacked
    <3> QED  BY <1>3, <3>4 DEF Alone
  <2>3. CASE ~reachable
    <3>1. nav' = nav  BY <1>5, <2>3 DEF ListenForConnection
    <3>2. Stacked'  BY <2>1, <3>1 DEF Alone, Stacked, Top, Visible
    <3> QED  BY <1>3, <3>2 DEF Alone
  <2> QED  BY <2>2, <2>3
<1> QED  BY <1>4, <1>5 DEF Start

\* An answer turns the one request into the one block that fits it.
LEMMA ReplyAlone == ASSUME TypeOK, RecordsKept, Alone, Reply  PROVE Alone'
<1> PICK r \in requests : Answer(r) \/ Refuse(r)  BY DEF Reply
<1>0. r \in Requests  BY DEF TypeOK
<1>1. requests = {r} /\ main = <<>> /\ AtPage /\ RequestFits(r)
  BY DEF Alone, UnderWay, Single
<1>2. ~isSignedIn  BY <1>1 DEF AtPage, Running, Alone, Stacked
<1>3. UNCHANGED <<session, nav, appearing>>
  BY DEF Answer, SignedInAnswer, RegisteredAnswer, FacebookAnswer, GuestAnswer,
         VerifyAnswer, Complete, Refuse
<1>4. Stacked' /\ AccountFits' /\ AtPage'
  BY <1>1, <1>2, <1>3 DEF Alone, Stacked, AccountFits, session, AtPage, Running, Visible, Top
<1>5. ASSUME NEW b, requests' = {}, main' = <<b>>, BlockFits(b)'
      PROVE  UnderWay'
  <2>1. DOMAIN main' = {1} /\ main'[1] = b /\ Len(main') = 1  BY <1>5
  <2> QED  BY <1>4, <1>5, <2>1 DEF UnderWay, Single
<1>6. ASSUME NEW t, NEW u, Complete(r, t, u), t \in {"signedIn", "registered", "facebook", "guest"},
             t = "registered" => u \notin verified,
             t = "guest" => r.type = "guest"
      PROVE  UnderWay'
  <2> PICK b : b = [type |-> t, user |-> u, level |-> r.level, checked |-> u \in verified]
    OBVIOUS
  <2>1. /\ requests' = {} /\ main' = <<b>>
        /\ auth' = [user |-> u, verified |-> u \in verified]
    BY <1>1, <1>6 DEF Complete
  <2>2. b.type = t /\ b.user = u /\ b.level = r.level  OBVIOUS
  <2>3. auth'.user = u /\ (t = "registered" => ~auth'.verified)
    BY <1>6, <2>1
  <2>4. b.type = "guest" => anonymousUserID' = None
    BY <1>1, <1>3, <1>6, <2>2 DEF RequestFits, session
  <2>5. BlockFits(b)'
    BY <1>1, <1>3, <1>6, <2>2, <2>3, <2>4 DEF BlockFits, RequestFits
  <2> QED  BY <1>5, <2>1, <2>5
<1>7. CASE SignedInAnswer(r) \/ RegisteredAnswer(r) \/ FacebookAnswer(r)
  <2>1. r.user \notin accounts => r.user \notin verified  BY DEF RecordsKept
  <2> QED  BY <1>4, <1>6, <1>7, <2>1
           DEF Alone, SignedInAnswer, RegisteredAnswer, FacebookAnswer
<1>8. CASE GuestAnswer(r)
  BY <1>4, <1>6, <1>8 DEF Alone, GuestAnswer
<1>9. CASE VerifyAnswer(r)
  <2> PICK b : b = Block("sent", r.user, r.level)  OBVIOUS
  <2>1. requests' = {} /\ main' = <<b>> /\ auth' = auth
    BY <1>1, <1>9 DEF VerifyAnswer, service
  <2>2. b.type = "sent" /\ b.level = r.level /\ ~auth.verified
    BY <1>1, <1>9 DEF Block, VerifyAnswer, RequestFits
  <2>3. BlockFits(b)'
    BY <1>1, <1>3, <2>1, <2>2 DEF BlockFits, RequestFits
  <2> QED  BY <1>4, <1>5, <2>1, <2>3 DEF Alone
<1>10. CASE Refuse(r)
  BY <1>1, <1>4, <1>10, Nothing DEF Refuse, Alone
<1> QED  BY <1>7, <1>8, <1>9, <1>10 DEF Answer

\* The one block that waits runs, and lets its user in at the end.
LEMMA OnMainAlone == ASSUME TypeOK, Alone, OnMain  PROVE Alone'
<1>1. main # <<>>
  BY DEF OnMain, SignedIn, Registered, VerificationSent, Facebook, Guest,
         EnterAccount, EnterGuest, Runs
<1>2. /\ First \in Blocks /\ First.level \in Nat
      /\ First.type \in {"signedIn", "registered"} => First.user \in Emails
      /\ First.type = "facebook" => First.user \in Facebooks
  BY <1>1, HeadOfMain, BlockUsers DEF First
<1>3. /\ requests = {} /\ Len(main) = 1 /\ AtPage /\ BlockFits(First) /\ ~isSignedIn
      /\ Tail(main) = <<>>
  <2>1. main \in Seq(Blocks) /\ Len(main) <= 1 /\ requests = {} /\ AtPage
    BY <1>1 DEF Alone, UnderWay, Single, TypeOK
  <2>2. Len(main) = 1 /\ 1 \in DOMAIN main /\ First = main[1]  BY <1>1, <2>1 DEF First
  <2>3. Tail(main) = <<>>
    <3>1. Tail(main) \in Seq(Blocks) /\ Len(Tail(main)) = 0  BY <1>1, <2>1, <2>2
    <3> QED  BY <3>1, EmptySeq
  <2> QED  BY <2>1, <2>2, <2>3 DEF Alone, UnderWay, AtPage, Running, Stacked
<1>4. ASSUME UNCHANGED <<nav, appearing, isSignedIn, auth>>
      PROVE  Stacked' /\ AccountFits' /\ AtPage'
  BY <1>3, <1>4 DEF Alone, Stacked, AccountFits, AtPage, Running, Visible, Top
<1>5. ASSUME NEW t \in {"enter", "enterGuest"}, main' = Enter(t), requests' = {}, AtPage',
             nav' = nav,
             t = "enter" => ~isAnonymous' /\ currentUserID' # None /\ currentUserID' = auth'.user
      PROVE  UnderWay'
  <2> PICK b : b = Block(t, None, First.level)  OBVIOUS
  <2>1. main' = <<b>>
    <3>1. main' = Append(Tail(main), b)  BY <1>5 DEF Enter
    <3>2. Append(<<>>, b) = <<b>>  OBVIOUS
    <3> QED  BY <1>3, <3>1, <3>2
  <2>2. b.type = t /\ b.level = First.level  BY DEF Block
  <2>3. DOMAIN main' = {1} /\ main'[1] = b /\ Len(main') = 1  BY <2>1
  <2>4. BlockFits(b)'  BY <1>3, <1>5, <2>2 DEF BlockFits
  <2> QED  BY <1>5, <2>3, <2>4 DEF UnderWay, Single
<1>6. CASE SignedIn
  <2>1. First.type = "signedIn"  BY <1>6 DEF SignedIn, Runs, First
  <2>2. auth.user = First.user /\ First.user # None
    BY <1>2, <1>3, <2>1, UidsAssumption DEF BlockFits, Uids, Users
  <2>3. UNCHANGED <<nav, appearing, isSignedIn, auth, requests>>
    BY <1>6 DEF SignedIn, service
  <2>4. CASE First.checked
    <3>1. currentUserID' = First.user /\ isAnonymous' = FALSE /\ main' = Enter("enter")
      BY <1>6, <2>4 DEF SignedIn
    <3> QED  BY <1>3, <1>4, <1>5, <2>2, <2>3, <3>1 DEF Alone
  <2>5. CASE ~First.checked
    BY <1>3, <1>4, <1>6, <2>3, <2>5, Nothing DEF SignedIn, Alone
  <2> QED  BY <2>4, <2>5
<1>7. CASE Registered
  <2> PICK r : r = [type |-> "verify", user |-> auth.user, level |-> First.level,
                    id |-> spent["ask"]]
    OBVIOUS
  <2>1. First.type = "registered"  BY <1>7 DEF Registered, Runs, First
  <2>2. /\ UNCHANGED <<nav, appearing, isSignedIn, auth>>
        /\ requests' = {r} /\ main' = <<>>
    BY <1>3, <1>7 DEF Registered, service
  <2>3. r.type = "verify" /\ r.level = First.level  OBVIOUS
  <2>4. RequestFits(r)'  BY <1>3, <2>1, <2>2, <2>3 DEF RequestFits, BlockFits
  <2>5. UnderWay'  BY <1>4, <2>2, <2>4 DEF UnderWay, Single
  <2> QED  BY <1>4, <2>2, <2>5 DEF Alone
<1>8. CASE VerificationSent
  <2>1. First.type = "sent"  BY <1>8 DEF VerificationSent, Runs, First
  <2>2. ~auth.verified  BY <1>3, <2>1 DEF BlockFits
  <2>3. main' = <<>> /\ UNCHANGED <<nav, appearing, isSignedIn, auth, requests>>
    BY <1>3, <1>8, <2>2 DEF VerificationSent, session, service
  <2> QED  BY <1>3, <1>4, <2>3, Nothing DEF Alone
<1>9. CASE Facebook
  <2>1. First.type = "facebook"  BY <1>9 DEF Facebook, Runs, First
  <2>2. auth.user = First.user /\ First.user # None
    BY <1>2, <1>3, <2>1, UidsAssumption DEF BlockFits, Uids, Users
  <2>3. /\ UNCHANGED <<nav, appearing, isSignedIn, auth, requests>>
        /\ currentUserID' = First.user /\ isAnonymous' = FALSE /\ main' = Enter("enter")
    BY <1>9 DEF Facebook, service
  <2> QED  BY <1>3, <1>4, <1>5, <2>2, <2>3 DEF Alone
<1>10. CASE Guest
  <2>1. UNCHANGED <<nav, appearing, isSignedIn, auth, requests>> /\ main' = Enter("enterGuest")
    BY <1>10 DEF Guest, service
  <2> QED  BY <1>3, <1>4, <1>5, <2>1 DEF Alone
<1>11. CASE EnterAccount \/ EnterGuest
  <2>1. /\ isSignedIn' = TRUE /\ main' = <<>> /\ requests' = {}
        /\ nav' = [nav EXCEPT ![First.level] = Append(@, "home")]
        /\ UNCHANGED <<currentUserID, auth, appearing>>
    BY <1>3, <1>11 DEF EnterAccount, EnterGuest, NextController, service
  <2>2. AccountFits'
    <3>1. CASE EnterGuest
      BY <3>1 DEF EnterGuest, AccountFits
    <3>2. CASE EnterAccount
      <4>1. First.type = "enter"  BY <3>2 DEF EnterAccount, Runs, First
      <4>2. currentUserID # None /\ currentUserID = auth.user
        BY <1>3, <4>1 DEF BlockFits
      <4> QED  BY <2>1, <4>2 DEF AccountFits
    <3> QED  BY <1>11, <3>1, <3>2
  <2>3. First.level = Len(nav) /\ nav # <<>> /\ appearing = 0
    BY <1>3 DEF BlockFits, AtPage, Running
  <2>4. Stacked'
    <3>1. /\ Stacked /\ "home" \in Screens \ {"connection"}
          /\ isSignedIn' /\ ~(appearing' > 0)
      BY <2>1, <2>3 DEF Alone, Screens
    <3> QED  BY <2>1, <2>3, <3>1, PushStacked
  <2> QED  BY <2>1, <2>2, <2>4, Nothing DEF Alone
<1> QED  BY <1>6, <1>7, <1>8, <1>9, <1>10, <1>11 DEF OnMain

\* The end of the process takes what is under way; the others leave it alone.
LEMMA OutsideAlone == ASSUME TypeOK, Alone, Outside  PROVE Alone'
<1>1. CASE Kill
  <2>1. /\ nav' = <<>> /\ appearing' = 0 /\ requests' = {} /\ main' = <<>>
        /\ UNCHANGED <<session, auth>>
    BY <1>1 DEF Kill
  <2>2. Stacked' /\ AccountFits'
    BY <2>1 DEF Alone, Stacked, AccountFits, session
  <2> QED  BY <2>1, <2>2, Nothing DEF Alone
<1>2. CASE (\E u \in Emails : OpenLink(u)) \/ (\E u \in Uids : StoreRecord(u)) \/ NetworkChange
  <2>1. UNCHANGED <<session, auth, requests, main, nav, appearing>>
    BY <1>2 DEF OpenLink, StoreRecord, NetworkChange, service
  <2>2. AtPage' = AtPage /\ Top' = Top /\ Visible' = Visible
    BY <2>1 DEF AtPage, Running, Visible, Top
  <2>3. UnderWay'
    BY <2>1, <2>2 DEF Alone, UnderWay, Single, RequestFits, BlockFits, session
  <2> QED  BY <2>1, <2>2, <2>3 DEF Alone, Stacked, AccountFits, session
<1> QED  BY <1>1, <1>2 DEF Outside

\* It is not forgotten that buttons overlapped.
LEMMA OverlapKept == ASSUME [Next]_vars, ~overlapped'  PROVE ~overlapped
<1>1. CASE Start \/ UNCHANGED vars
  BY <1>1 DEF Start, Launch, ListenForConnection, vars, world
<1>2. CASE Button
  BY <1>2 DEF Button, SignInBtn, RegisterBtn, FacebookBtn, SkipBtn, Ask, Press, ShowProfile,
              LeaveProfile, SignOut, world
<1>3. CASE Reply
  BY <1>3 DEF Reply, Answer, SignedInAnswer, RegisteredAnswer, FacebookAnswer, GuestAnswer,
              VerifyAnswer, Complete, Refuse, world
<1>4. CASE OnMain
  BY <1>4 DEF OnMain, SignedIn, Registered, VerificationSent, Facebook, Guest, EnterAccount,
              EnterGuest, world
<1>5. CASE Outside
  BY <1>5 DEF Outside, OpenLink, StoreRecord, NetworkChange, Kill, world
<1> QED  BY <1>1, <1>2, <1>3, <1>4, <1>5 DEF Next

\* Whatever is answered or refused and whenever the process ends.
LEMMA AlwaysAlone == Spec => [](overlapped \/ Alone)
<1>1. Init => Alone
  BY DEF Init, Alone, UnderWay, Single, Stacked, AccountFits
<1>2. TypeOK /\ RecordsKept /\ (overlapped \/ Alone) /\ [Next]_vars => (overlapped \/ Alone)'
  <2>1. ASSUME TypeOK, RecordsKept, Alone, Next, ~overlapped'  PROVE Alone'
    BY <2>1, StartAlone, ButtonAlone, ReplyAlone, OnMainAlone, OutsideAlone DEF Next
  <2>2. ASSUME Alone, UNCHANGED vars  PROVE Alone'
    BY <2>2 DEF Alone, UnderWay, Single, RequestFits, BlockFits, Stacked, AccountFits,
                AtPage, Running, Visible, Top, vars, session, service
  <2> QED  BY <2>1, <2>2, OverlapKept
<1>3. GuestKept => TypeOK  BY DEF GuestKept
<1> QED  BY <1>1, <1>2, <1>3, AlwaysKept, AlwaysRecorded, PTL DEF Spec

(***************************************************************************)
(* While each button waited for the work of the one before, whoever is     *)
(* signed in with an account is the one Firebase Auth has signed in,       *)
(* whatever it answers or refuses and whenever the process ends.           *)
(***************************************************************************)
THEOREM AccountAlwaysAuth == Spec => []AccountIsAuth
<1>1. overlapped \/ Alone => AccountIsAuth  BY DEF Alone, AccountFits, AccountIsAuth
<1> QED  BY <1>1, AlwaysAlone, PTL

-----------------------------------------------------------------------------
(***************************************************************************)
(* The screens, however buttons overlap.                                   *)
(***************************************************************************)

\* Nobody looks at a home screen who is not signed in: a sign-out covers it.
HomeSigned == nav # <<>> /\ Visible \in {"home", "profile"} => isSignedIn

\* What starts the app shows a home screen to those who are signed in.
LEMMA StartSigned == ASSUME TypeOK, HomeSigned, Start  PROVE HomeSigned'
<1>1. isSignedIn' = isSignedIn
  BY DEF Start, Launch, ListenForConnection, session
<1>2. FirstScreen \in {"home", "profile"} => isSignedIn  BY DEF FirstScreen
<1>3. CASE Launch
  <2> DEFINE x == IF reachable THEN FirstScreen ELSE "connection"
  <2>1. nav' = <<<<x>>>> /\ (x \in {"home", "profile"} => isSignedIn)
    BY <1>2, <1>3 DEF Launch
  <2> HIDE DEF x
  <2>2. Visible' = x  BY <2>1 DEF Top, Visible
  <2> QED  BY <1>1, <2>1, <2>2 DEF HomeSigned
<1>4. CASE ListenForConnection
  <2>1. CASE nav' = nav  BY <1>1, <2>1 DEF HomeSigned, Visible, Top
  <2>2. CASE nav' # nav /\ Len(nav) = 1
    <3>1. nav' = [nav EXCEPT ![1] = Append(@, FirstScreen)] /\ nav # <<>>
      BY <1>4, <2>2 DEF ListenForConnection
    <3>2. FirstScreen \in Screens  BY DEF FirstScreen, Screens
    <3>3. Visible' = FirstScreen
      <4> HIDE DEF FirstScreen
      <4> QED  BY <2>2, <3>1, <3>2, PushTop
    <3> QED  BY <1>1, <1>2, <3>3 DEF HomeSigned
  <2>3. CASE nav' # nav /\ Len(nav) # 1
    <3>1. nav' = [nav EXCEPT ![1] = Append(@, FirstScreen)]
      BY <1>4, <2>3 DEF ListenForConnection
    <3>2. nav \in Seq(Seq(Screens))  BY DEF TypeOK
    <3>3. nav' # <<>> => nav # <<>> /\ Len(nav') = Len(nav) /\ nav'[Len(nav)] = nav[Len(nav)]
      BY <2>3, <3>1, <3>2
    <3>4. nav' # <<>> => nav # <<>> /\ Visible' = Visible  BY <3>3 DEF Top, Visible
    <3> QED  BY <1>1, <3>4 DEF HomeSigned
  <2> QED  BY <2>1, <2>2, <2>3
<1> QED  BY <1>3, <1>4 DEF Start

\* The buttons that change what is in front.
LEMMA ButtonSigned == ASSUME TypeOK, HomeSigned, Button  PROVE HomeSigned'
<1>1. CASE nav' = nav /\ isSignedIn' = isSignedIn
  BY <1>1 DEF HomeSigned, Visible, Top
<1>2. CASE ShowProfile \/ LeaveProfile
  <2>1. nav # <<>> /\ Visible \in {"home", "profile"} /\ isSignedIn' = isSignedIn
    BY <1>2 DEF ShowProfile, LeaveProfile, Running, session
  <2> QED  BY <2>1 DEF HomeSigned
<1>3. CASE SignOut
  <2>1. nav' = Append(nav, <<"page">>) /\ nav \in Seq(Seq(Screens)) /\ <<"page">> \in Seq(Screens)
    BY <1>3 DEF SignOut, TypeOK, Screens
  <2>2. Top' = <<"page">>  BY <2>1 DEF Top
  <2>3. Visible' = "page"  BY <2>2 DEF Visible
  <2> QED  BY <2>3 DEF HomeSigned
<1>4. Button => (nav' = nav /\ isSignedIn' = isSignedIn) \/ ShowProfile \/ LeaveProfile \/ SignOut
  BY DEF Button, SignInBtn, RegisterBtn, FacebookBtn, SkipBtn, Ask, session
<1> QED  BY <1>1, <1>2, <1>3, <1>4

LEMMA AlwaysSigned == Spec => []HomeSigned
<1>1. Init => HomeSigned  BY DEF Init, HomeSigned
<1>2. TypeOK /\ HomeSigned /\ [Next]_vars => HomeSigned'
  <2> SUFFICES ASSUME TypeOK, HomeSigned, [Next]_vars  PROVE HomeSigned'
    OBVIOUS
  <2>1. CASE UNCHANGED vars  BY <2>1 DEF HomeSigned, Visible, Top, vars, session
  <2>2. CASE Reply
    <3>1. nav' = nav /\ isSignedIn' = isSignedIn
      BY <2>2 DEF Reply, Answer, SignedInAnswer, RegisteredAnswer, FacebookAnswer,
                  GuestAnswer, VerifyAnswer, Complete, Refuse, session
    <3> QED  BY <3>1 DEF HomeSigned, Visible, Top
  <2>3. CASE OnMain
    <3>1. (nav' = nav /\ isSignedIn' = isSignedIn) \/ isSignedIn'
      BY <2>3 DEF OnMain, SignedIn, Registered, VerificationSent, Facebook, Guest,
                  EnterAccount, EnterGuest, session
    <3> QED  BY <3>1 DEF HomeSigned, Visible, Top
  <2>4. CASE Outside
    <3>1. nav' = <<>> \/ (nav' = nav /\ isSignedIn' = isSignedIn)
      BY <2>4 DEF Outside, OpenLink, StoreRecord, NetworkChange, Kill, session
    <3> QED  BY <3>1 DEF HomeSigned, Visible, Top
  <2> QED  BY <2>1, <2>2, <2>3, <2>4, StartSigned, ButtonSigned DEF Next
<1>3. GuestKept => TypeOK  BY DEF GuestKept
<1> QED  BY <1>1, <1>2, <1>3, AlwaysKept, PTL DEF Spec

(***************************************************************************)
(* The next launch chooses a screen like the one the user last saw: a home *)
(* screen is in front of signed-in users only, whatever overlaps, and who  *)
(* waited and is signed in has one in front.                               *)
(***************************************************************************)
THEOREM SignedInAlwaysShown == Spec => []SignedInIsShown
<1>1. HomeSigned /\ (overlapped \/ Alone) => SignedInIsShown
  BY DEF HomeSigned, Alone, Stacked, SignedInIsShown, Running
<1> QED  BY <1>1, AlwaysSigned, AlwaysAlone, PTL

-----------------------------------------------------------------------------
(***************************************************************************)
(* Records, sharper: a uid comes into User.session only behind setupUser.  *)
(***************************************************************************)

Stored == known \cup setups \cup lost

\* A sign-in that is answered has its user's registration, if that has not
\* come to setupUser yet, in front of it in the queue.
InOrder ==
    \A i \in DOMAIN main : main[i].type = "signedIn" =>
        \/ main[i].user \in Stored
        \/ \E j \in DOMAIN main : /\ j < i /\ main[j].type = "registered"
                                 /\ main[j].user = main[i].user

KeysStored == {currentUserID, anonymousUserID} \subseteq Stored \cup {None}

\* The queue stays, or something joins it.
LEMMA JoinOrder ==
    ASSUME TypeOK, InOrder, Stored \subseteq Stored', NEW b \in Blocks,
           main' = main \/ main' = Append(main, b),
           b.type = "signedIn" => b.user \in Stored \cup Unset
    PROVE  InOrder'
<1>1. main \in Seq(Blocks)  BY DEF TypeOK
<1>2. CASE main' = main  BY <1>2 DEF InOrder
<1>3. CASE main' = Append(main, b)
  <2>1. \A i \in DOMAIN main : i \in DOMAIN main' /\ main'[i] = main[i] /\ i < Len(main) + 1
    BY <1>1, <1>3
  <2>2. ASSUME NEW i \in DOMAIN main', main'[i].type = "signedIn"
        PROVE  \/ main'[i].user \in Stored'
               \/ \E j \in DOMAIN main' : /\ j < i /\ main'[j].type = "registered"
                                         /\ main'[j].user = main'[i].user
    <3>1. CASE i \in DOMAIN main  BY <2>1, <2>2, <3>1 DEF InOrder
    <3>2. CASE i \notin DOMAIN main
      <4>1. i = Len(main) + 1 /\ main'[i] = b  BY <1>1, <1>3, <2>2, <3>2
      <4>2. CASE b.user \in Stored  BY <4>1, <4>2
      <4>3. CASE b.user \in Unset
        <5>1. PICK j \in DOMAIN main : main[j].type = "registered" /\ main[j].user = b.user
          BY <4>3 DEF Unset
        <5> QED  BY <2>1, <4>1, <5>1
      <4> QED  BY <2>2, <4>1, <4>2, <4>3
    <3> QED  BY <3>1, <3>2
  <2> QED  BY <2>2 DEF InOrder
<1> QED  BY <1>2, <1>3

\* The first block runs, and may queue another.
LEMMA RunOrder ==
    ASSUME TypeOK, InOrder, main # <<>>, Stored \subseteq Stored',
           First.type = "registered" => First.user \in Stored',
           NEW b \in Blocks, b.type # "signedIn",
           main' = Tail(main) \/ main' = Append(Tail(main), b)
    PROVE  InOrder'
<1>1. main \in Seq(Blocks) /\ Tail(main) \in Seq(Blocks)  BY HeadOfMain DEF TypeOK
<1>2. First = main[1] /\ Len(main) \in Nat /\ DOMAIN main = 1..Len(main)
  BY <1>1 DEF First
<1>3. ASSUME NEW i \in DOMAIN main', main'[i].type = "signedIn"
      PROVE  i + 1 \in DOMAIN main /\ main'[i] = main[i + 1]
  <2>1. CASE main' = Tail(main)  BY <1>1, <1>3, <2>1
  <2>2. CASE main' = Append(Tail(main), b)
    <3>1. main'[i] # b  BY <1>3
    <3>2. i \in DOMAIN Tail(main) /\ main'[i] = Tail(main)[i]  BY <1>1, <1>3, <2>2, <3>1
    <3> QED  BY <1>1, <3>2
  <2> QED  BY <2>1, <2>2
<1>4. \A j \in DOMAIN main : j > 1 => j - 1 \in DOMAIN main' /\ main'[j - 1] = main[j]
  <2>1. \A j \in DOMAIN main : j > 1 => j - 1 \in DOMAIN Tail(main) /\ Tail(main)[j - 1] = main[j]
    BY <1>1
  <2>2. \A k \in DOMAIN Tail(main) : k \in DOMAIN main' /\ main'[k] = Tail(main)[k]
    BY <1>1
  <2> QED  BY <2>1, <2>2
<1>5. ASSUME NEW i \in DOMAIN main', main'[i].type = "signedIn"
      PROVE  \/ main'[i].user \in Stored'
             \/ \E j \in DOMAIN main' : /\ j < i /\ main'[j].type = "registered"
                                       /\ main'[j].user = main'[i].user
  <2>1. i + 1 \in DOMAIN main /\ main'[i] = main[i + 1]  BY <1>3, <1>5
  <2>2. CASE main[i + 1].user \in Stored  BY <2>1, <2>2
  <2>3. ASSUME NEW j \in DOMAIN main, j < i + 1, main[j].type = "registered",
               main[j].user = main[i + 1].user
        PROVE  \/ main'[i].user \in Stored'
               \/ \E k \in DOMAIN main' : /\ k < i /\ main'[k].type = "registered"
                                         /\ main'[k].user = main'[i].user
    <3>1. CASE j = 1  BY <1>2, <2>1, <2>3, <3>1
    <3>2. CASE j > 1
      <4>1. j - 1 \in DOMAIN main' /\ main'[j - 1] = main[j]  BY <1>4, <3>2
      <4>2. i + 1 \in Nat /\ j \in Nat  BY <1>2, <2>1
      <4>3. j - 1 < i
        <5>1. i \in Int  BY <1>1, <1>5
        <5> QED  BY <2>3, <4>2, <5>1
      <4> QED  BY <2>1, <2>3, <4>1, <4>3
    <3> QED  BY <1>2, <3>1, <3>2
  <2> QED  BY <1>5, <2>1, <2>2, <2>3 DEF InOrder
<1> QED  BY <1>5 DEF InOrder

\* A step that leaves uids and queue alone, and forgets no record.
LEMMA SameStored ==
    ASSUME InOrder, KeysStored, Stored \subseteq Stored',
           UNCHANGED <<anonymousUserID, currentUserID, main>>
    PROVE  InOrder' /\ KeysStored'
BY DEF InOrder, KeysStored

\* An account that can sign in has its record, or its registration waits.
LEMMA AccountStored ==
    ASSUME RecordsKept, NEW u \in accounts \cap Emails
    PROVE  u \in Stored \cup Unset
BY DEF RecordsKept, Recorded, Stored

\* Answers and refusals.
LEMMA ReplyStored ==
    ASSUME TypeOK, RecordsKept, InOrder, KeysStored, Reply
    PROVE  InOrder' /\ KeysStored'
<1> PICK r \in requests : Answer(r) \/ Refuse(r)  BY DEF Reply
<1>0. r \in Requests  BY DEF TypeOK
<1>1. ASSUME NEW b \in Blocks, main' = Append(main, b),
             b.type = "signedIn" => b.user \in Stored \cup Unset,
             UNCHANGED <<known, setups, lost, anonymousUserID, currentUserID>>
      PROVE  InOrder' /\ KeysStored'
  <2>1. Stored' = Stored  BY <1>1 DEF Stored
  <2> QED  BY <1>1, <2>1, JoinOrder DEF KeysStored
<1>2. CASE SignedInAnswer(r) \/ RegisteredAnswer(r) \/ FacebookAnswer(r) \/ GuestAnswer(r)
  <2>1. PICK t, u : /\ Complete(r, t, u)
                    /\ t = "signedIn" => u \in accounts
                    /\ \/ t \in {"signedIn", "registered"} /\ u \in Emails
                       \/ t = "facebook" /\ u \in Facebooks
                       \/ t = "guest" /\ u \in Guests
    BY <1>0, <1>2 DEF SignedInAnswer, RegisteredAnswer, FacebookAnswer, GuestAnswer,
                      Requests, RequestOf
  <2>2. r.level \in Nat  BY <1>0 DEF Requests, RequestOf
  <2> DEFINE b == [type |-> t, user |-> u, level |-> r.level, checked |-> u \in verified]
  <2>3. b \in Blocks  BY <2>1, <2>2 DEF Blocks, BlockOf
  <2>4. b.type = t /\ b.user = u  OBVIOUS
  <2>5. /\ main' = Append(main, b)
        /\ UNCHANGED <<known, setups, lost, anonymousUserID, currentUserID>>
    BY <2>1 DEF Complete, session, records, world
  <2> HIDE DEF b
  <2>6. t = "signedIn" => u \in Stored \cup Unset  BY <2>1, AccountStored
  <2> QED  BY <1>1, <2>3, <2>4, <2>5, <2>6
<1>3. CASE VerifyAnswer(r)
  <2> DEFINE b == Block("sent", r.user, r.level)
  <2>1. /\ main' = Append(main, b)
        /\ UNCHANGED <<known, setups, lost, anonymousUserID, currentUserID>>
    BY <1>3 DEF VerifyAnswer, session, records, world
  <2>2. b \in Blocks /\ b.type = "sent"
    BY <1>0, <1>3, EnterBlocks DEF VerifyAnswer, Requests, RequestOf, Block
  <2> HIDE DEF b
  <2> QED  BY <1>1, <2>1, <2>2
<1>4. CASE Refuse(r)
  <2>1. Stored \subseteq Stored'  BY <1>4 DEF Refuse, Stored, records
  <2> QED  BY <1>4, <2>1, SameStored DEF Refuse, session
<1> QED  BY <1>2, <1>3, <1>4 DEF Answer

\* The completions: the one of a sign-in runs behind the registration's.
LEMMA OnMainStored ==
    ASSUME TypeOK, InOrder, KeysStored, OnMain
    PROVE  InOrder' /\ KeysStored'
<1>1. main # <<>>
  BY DEF OnMain, SignedIn, Registered, VerificationSent, Facebook, Guest,
         EnterAccount, EnterGuest, Runs
<1>2. First \in Blocks /\ First.level \in Nat
  BY <1>1, HeadOfMain, BlockUsers DEF First
<1>3. \A t \in {"enter", "enterGuest"} :
         /\ Block(t, None, First.level) \in Blocks
         /\ Block(t, None, First.level).type # "signedIn"
         /\ Enter(t) = Append(Tail(main), Block(t, None, First.level))
  <2>1. \A t \in {"enter", "enterGuest"} : Block(t, None, First.level) \in Blocks
    BY <1>2, EnterBlocks
  <2> QED  BY <2>1 DEF Enter, Block
<1>4. ASSUME NEW t \in {"enter", "enterGuest"},
             main' = Tail(main) \/ main' = Enter(t),
             Stored \subseteq Stored',
             First.type = "registered" => First.user \in Stored',
             {anonymousUserID', currentUserID'}
                 \subseteq {anonymousUserID, currentUserID} \cup Stored'
      PROVE  InOrder' /\ KeysStored'
  <2>1. InOrder'  BY <1>1, <1>3, <1>4, RunOrder
  <2> QED  BY <1>4, <2>1 DEF KeysStored
<1>5. CASE SignedIn
  <2>1. First.type = "signedIn"  BY <1>5 DEF SignedIn, Runs, First
  <2>2. First.user \in Stored
    <3>1. 1 \in DOMAIN main /\ First = main[1] /\ DOMAIN main = 1..Len(main) /\ Len(main) \in Nat
      BY <1>1, UnsetTail DEF TypeOK
    <3>2. ~ \E j \in DOMAIN main : j < 1  BY <3>1
    <3> QED  BY <2>1, <3>1, <3>2 DEF InOrder
  <2>3. /\ currentUserID' \in {currentUserID, First.user}
        /\ UNCHANGED <<anonymousUserID, known, setups, lost>>
        /\ main' = Tail(main) \/ main' = Enter("enter")
    BY <1>5 DEF SignedIn, records, world
  <2>4. Stored' = Stored  BY <2>3 DEF Stored
  <2> QED  BY <1>4, <2>1, <2>2, <2>3, <2>4
<1>6. CASE Registered \/ Facebook \/ Guest
  <2>1. /\ setups' = setups \cup {First.user} /\ UNCHANGED <<known, lost>>
        /\ \E t \in {"enter", "enterGuest"} : main' = Tail(main) \/ main' = Enter(t)
        /\ {anonymousUserID', currentUserID'}
               \subseteq {anonymousUserID, currentUserID, First.user}
    BY <1>6 DEF Registered, Facebook, Guest, world
  <2>2. Stored' = Stored \cup {First.user}  BY <2>1 DEF Stored
  <2> QED  BY <1>4, <2>1, <2>2
<1>7. CASE VerificationSent \/ EnterAccount \/ EnterGuest
  <2>1. /\ UNCHANGED <<anonymousUserID, currentUserID, known, setups, lost>>
        /\ main' = Tail(main) \/ main' = Enter("enter")
        /\ First.type # "registered"
    BY <1>7 DEF VerificationSent, EnterAccount, EnterGuest, Runs, First, session, records, world
  <2>2. Stored' = Stored  BY <2>1 DEF Stored
  <2> QED  BY <1>4, <2>1, <2>2
<1> QED  BY <1>5, <1>6, <1>7 DEF OnMain

\* Every step.
LEMMA NextStored ==
    TypeOK /\ RecordsKept /\ InOrder /\ KeysStored /\ [Next]_vars => InOrder' /\ KeysStored'
<1> SUFFICES ASSUME TypeOK, RecordsKept, InOrder, KeysStored, [Next]_vars
             PROVE  InOrder' /\ KeysStored'
  OBVIOUS
<1>1. CASE \/ Start \/ UNCHANGED vars \/ ShowProfile \/ LeaveProfile \/ SignOut
           \/ NetworkChange \/ (\E u \in Emails : OpenLink(u)) \/ \E u \in Uids : StoreRecord(u)
  <2>1. UNCHANGED <<anonymousUserID, currentUserID, main>>
    BY <1>1 DEF Start, Launch, ListenForConnection, vars, ShowProfile, LeaveProfile, SignOut,
                NetworkChange, OpenLink, StoreRecord, session
  <2>2. Stored \subseteq Stored'
    BY <1>1 DEF Start, Launch, ListenForConnection, vars, ShowProfile, LeaveProfile, SignOut,
                NetworkChange, OpenLink, StoreRecord, records, world, Stored
  <2> QED  BY <2>1, <2>2, SameStored
<1>2. ASSUME NEW t, NEW u, Ask(t, u)  PROVE InOrder' /\ KeysStored'
  <2>1. Stored' = Stored  BY <1>2 DEF Ask, records, Stored
  <2> QED  BY <1>2, <2>1, SameStored DEF Ask, session
<1>3. CASE SkipBtn /\ anonymousUserID # None
  <2> DEFINE b == Block("enterGuest", None, Len(nav))
  <2>1. main' = Append(main, b) /\ UNCHANGED <<known, setups, lost, anonymousUserID, currentUserID>>
    BY <1>3 DEF SkipBtn, session, records
  <2>2. b \in Blocks /\ b.type = "enterGuest"
    BY EnterBlocks, Len(nav) \in Nat DEF TypeOK, Block
  <2> HIDE DEF b
  <2>3. Stored' = Stored  BY <2>1 DEF Stored
  <2> QED  BY <2>1, <2>2, <2>3, JoinOrder DEF KeysStored
<1>4. CASE Button
  BY <1>1, <1>2, <1>3, <1>4 DEF Button, SignInBtn, RegisterBtn, FacebookBtn, SkipBtn
<1>5. CASE Kill
  <2>1. main' = <<>> /\ UNCHANGED <<known, anonymousUserID, currentUserID>>
    BY <1>5 DEF Kill, session
  <2>2. Stored \subseteq Stored'  BY <1>5 DEF Kill, Stored
  <2> QED  BY <2>1, <2>2 DEF InOrder, KeysStored
<1> QED  BY <1>1, <1>4, <1>5, ReplyStored, OnMainStored DEF Next, Outside

LEMMA AlwaysStored == Spec => []KeysStored
<1>1. Init => InOrder /\ KeysStored  BY DEF Init, InOrder, KeysStored
<1>2. GuestKept => TypeOK  BY DEF GuestKept
<1> QED  BY <1>1, <1>2, NextStored, AlwaysRecorded, AlwaysKept, PTL DEF Spec

\* Whoever the session names has a record in the database or one on its way
\* there, unless setupUser was lost with the process or an answer: a sign-in
\* that overtakes a registration's answer still runs behind its completion.
THEOREM RecordAlways == Spec => []RecordUnlessLost
<1>1. KeysStored => RecordUnlessLost  BY DEF KeysStored, Stored, RecordUnlessLost
<1> QED  BY <1>1, AlwaysStored, PTL

=============================================================================
