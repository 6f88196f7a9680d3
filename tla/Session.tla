------------------------------ MODULE Session ------------------------------
(***************************************************************************)
(* Signing in: LoginController, CreateViewController, the tab bars they    *)
(* and the rating flow present, the socket each tab bar opens, and who the *)
(* client says it is, DataProvider's token and userId.                     *)
(*                                                                         *)
(* The main thread runs taps, presentations and queued blocks.  The serial *)
(* queue of URLSession runs completion handlers, which write token and     *)
(* userId one after the other while the main thread may read the pair for  *)
(* a request.                                                              *)
(***************************************************************************)
EXTENDS SequencesExt

CONSTANTS
  Accounts,   \* accounts the user may sign in to or register
  NoAccount,  \* the empty userId DataProvider starts with
  MaxTaps,    \* bound on the taps on the login button
  MaxTabs     \* bound on the tab bars shown

ASSUME AccountsAssumption == NoAccount \notin Accounts
ASSUME BoundsAssumption == MaxTaps \in Nat /\ MaxTabs \in Nat

Screens == {"groups", "profile"}

(* A token is known by its account and its place among those the client    *)
(* received; refused: did the reply that brought it also queue the alert   *)
(* "bad login or password"?                                                *)
Token == [account : Accounts \cup {NoAccount}, n : Nat, refused : BOOLEAN]
NoToken == [account |-> NoAccount, n |-> 0, refused |-> FALSE]

(* POST /api/auth of the login screen (tap counts its taps) or at the end  *)
(* of a registration.                                                      *)
Auth == [tap : Nat, account : Accounts, from : {"login", "create"}]

(* The completion handler of one: refused is the test of the status,       *)
(* stored says that the token is written and the user id is not.           *)
Handler == [reply : Auth, refused : BOOLEAN, stored : BOOLEAN]

(* A block queued on the main thread; of is the token that asked for the   *)
(* tab bar.                                                                *)
Block == [kind : {"alert", "present"}, of : Nat]

(* The socket a tab bar opened when it was loaded.                         *)
Socket == [token : Token, by : {"login", "create", "rating"}, of : Nat]

(* What a request says of its sender.                                      *)
Identity == [token : Token, user : Accounts \cup {NoAccount}]

VARIABLES
  top,        \* the view on top
  auths,      \* authentications in flight
  creating,   \* the account of PUT /api/user in flight
  handler,    \* the handler that has a body and is not through with it
  mainQueue,  \* blocks queued with DispatchQueue.main.async
  token,      \* DataProvider.token
  userId,     \* DataProvider.userId
  sockets,    \* sockets of the tab bars, in the order they were presented
  loaded,     \* screens of the newest tab bar that have loaded
  asked,      \* identities of the requests those screens sent
  \* history, for the bound and the properties
  taps,       \* taps on the login button
  hurried     \* has the user gone on while an answer was outstanding?

uiVars   == <<top, mainQueue>>
netVars  == <<auths, creating, handler>>
idVars   == <<token, userId>>
tabVars  == <<sockets, loaded, asked>>
histVars == <<taps, hurried>>
vars == <<uiVars, netVars, idVars, tabVars, histVars>>

Init ==
  /\ top = "login" /\ mainQueue = <<>>
  /\ auths = {} /\ creating = NoAccount /\ handler = {}
  /\ token = NoToken /\ userId = NoAccount
  /\ sockets = <<>> /\ loaded = {} /\ asked = {}
  /\ taps = 0 /\ hurried = FALSE

(* Something the user started is not finished yet.                         *)
Busy == auths # {} \/ creating # NoAccount \/ handler # {} \/ mainQueue # <<>>

-----------------------------------------------------------------------------
(* Main thread.                                                            *)

(* A tab bar is presented: viewDidLoad opens a socket with the token of    *)
(* this moment.                                                            *)
OpenTabBar(by, of) ==
  /\ top' = "tabs"
  /\ sockets' = Append(sockets, [token |-> token, by |-> by, of |-> of])
  /\ loaded' = {}
  /\ UNCHANGED asked

(* loginTapped with a password that validates.                             *)
LoginTapped(a) ==
  /\ top = "login" /\ taps < MaxTaps
  /\ taps' = taps + 1
  /\ auths' = auths \cup {[tap |-> taps + 1, account |-> a, from |-> "login"]}
  /\ hurried' = (hurried \/ Busy)
  /\ UNCHANGED <<uiVars, creating, handler, idVars, tabVars>>

(* loginTapped or createTapped with one that does not: alertCommand.       *)
BadPassword ==
  /\ \/ top = "login" /\ top' = "loginAlert"
     \/ top = "create" /\ top' = "createAlert"
  /\ hurried' = (hurried \/ Busy)
  /\ UNCHANGED <<mainQueue, netVars, idVars, tabVars, taps>>

DismissAlert ==
  /\ \/ top \in {"loginAlert", "badLogin"} /\ top' = "login"
     \/ top = "createAlert" /\ top' = "create"
  /\ UNCHANGED <<mainQueue, netVars, idVars, tabVars, histVars>>

(* The storyboard's segue: no navigation controller holds the login screen *)
(* and nothing leads back to it.                                           *)
OpenRegistration ==
  /\ top = "login"
  /\ top' = "create"
  /\ hurried' = (hurried \/ Busy)
  /\ UNCHANGED <<mainQueue, netVars, idVars, tabVars, taps>>

(* createTapped requests the account and presents the tab bar at once.     *)
CreateTapped(a) ==
  /\ top = "create" /\ Len(sockets) < MaxTabs
  /\ creating' = a
  /\ OpenTabBar("create", 0)
  /\ hurried' = (hurried \/ Busy)
  /\ UNCHANGED <<mainQueue, auths, handler, idVars, taps>>

(* The block at the head of the queue presents an alert or a tab bar on    *)
(* the login screen.  UIKit refuses while that screen presents something   *)
(* else; the new tab bar is then released with its socket.                 *)
RunBlock ==
  /\ mainQueue # <<>>
  /\ mainQueue' = Tail(mainQueue)
  /\ LET b == Head(mainQueue)
     IN \/ top = "login" /\ b.kind = "present" /\ OpenTabBar("login", b.of)
        \/ top = "login" /\ b.kind = "alert" /\ top' = "badLogin" /\ UNCHANGED tabVars
        \/ top # "login" /\ UNCHANGED <<top, tabVars>>
  /\ UNCHANGED <<netVars, idVars, histVars>>

(* The end of a rating, or its alert, presents another tab bar.            *)
ShowAnotherTabBar ==
  /\ top = "tabs" /\ Len(sockets) < MaxTabs
  /\ OpenTabBar("rating", 0)
  /\ UNCHANGED <<mainQueue, netVars, idVars, histVars>>

(* GroupViewController or ProfileController loads and sends its requests.  *)
LoadScreen(s) ==
  /\ top = "tabs" /\ s \notin loaded
  /\ loaded' = loaded \cup {s}
  /\ asked' = asked \cup {[token |-> token, user |-> userId]}
  /\ UNCHANGED <<uiVars, netVars, idVars, sockets, histVars>>

-----------------------------------------------------------------------------
(* URLSession's queue: one handler at a time.                              *)

(* Mutant: the account is read after the request was forgotten.            *)
CreatedReadsLate ==
  /\ creating # NoAccount /\ handler = {}
  /\ creating' = NoAccount
  /\ auths' = auths \cup {[tap |-> 0, account |-> creating', from |-> "create"]}
  /\ UNCHANGED <<uiVars, handler, idVars, tabVars, histVars>>

(* The reply to PUT /api/user names the user: authUserAndCreateToDataBase. *)
Created ==
  /\ creating # NoAccount /\ handler = {}
  /\ creating' = NoAccount
  /\ auths' = auths \cup {[tap |-> 0, account |-> creating, from |-> "create"]}
  /\ UNCHANGED <<uiVars, handler, idVars, tabVars, histVars>>

(* It does not, or the request fails.                                      *)
NotCreated ==
  /\ creating # NoAccount /\ handler = {}
  /\ creating' = NoAccount
  /\ UNCHANGED <<uiVars, auths, handler, idVars, tabVars, histVars>>

(* No body comes back.                                                     *)
AuthFailure(r) ==
  /\ r \in auths /\ handler = {}
  /\ auths' = auths \ {r}
  /\ UNCHANGED <<uiVars, creating, handler, idVars, tabVars, histVars>>

(* Mutant: the range of bad statuses includes 200.                         *)
AuthRepliedAlerts(r) ==
  /\ r \in auths /\ handler = {}
  /\ auths' = auths \ {r}
  /\ handler' = {[reply |-> r, refused |-> FALSE, stored |-> FALSE]}
  /\ mainQueue' = IF r.from = "login" THEN Append(mainQueue, [kind |-> "alert", of |-> 0])
                                      ELSE mainQueue
  /\ UNCHANGED <<top, creating, idVars, tabVars, histVars>>

(* Mutant: the tab bar is asked for before the token is stored.            *)
AuthRepliedPresentsFirst(r) ==
  /\ r \in auths /\ handler = {}
  /\ auths' = auths \ {r}
  /\ handler' = {[reply |-> r, refused |-> FALSE, stored |-> FALSE]}
  /\ mainQueue' = IF r.from = "login"
                  THEN Append(mainQueue, [kind |-> "present", of |-> token.n + 1])
                  ELSE mainQueue
  /\ UNCHANGED <<top, creating, idVars, tabVars, histVars>>

(* A body comes back.  The login screen queues an alert when the status is *)
(* from 201 to 401, and goes on with the body all the same.                *)
AuthReplied(r) ==
  /\ r \in auths /\ handler = {}
  /\ auths' = auths \ {r}
  /\ \/ /\ handler' = {[reply |-> r, refused |-> FALSE, stored |-> FALSE]}
        /\ UNCHANGED mainQueue
     \/ /\ r.from = "login"
        /\ handler' = {[reply |-> r, refused |-> TRUE, stored |-> FALSE]}
        /\ mainQueue' = Append(mainQueue, [kind |-> "alert", of |-> 0])
  /\ UNCHANGED <<top, creating, idVars, tabVars, histVars>>

(* The body does not decode, or lacks one of token, id and expired.        *)
AuthWithoutToken ==
  \E h \in handler :
    /\ ~h.stored
    /\ handler' = {}
    /\ UNCHANGED <<uiVars, auths, creating, idVars, tabVars, histVars>>

(* It has all three: the handler stores the token first.                   *)
AuthGranted ==
  \E h \in handler :
    /\ ~h.stored
    /\ handler' = {[h EXCEPT !.stored = TRUE]}
    /\ token' = [account |-> h.reply.account, n |-> token.n + 1, refused |-> h.refused]
    /\ UNCHANGED <<uiVars, auths, creating, userId, tabVars, histVars>>

(* Mutant: the user id is not stored.                                      *)
FinishGrantedTokenOnly ==
  \E h \in handler :
    /\ h.stored
    /\ handler' = {}
    /\ mainQueue' = IF h.reply.from = "login"
                    THEN Append(mainQueue, [kind |-> "present", of |-> token.n])
                    ELSE mainQueue
    /\ UNCHANGED <<top, auths, creating, idVars, tabVars, histVars>>

(* Then it stores the user id, and the login screen asks for the tab bar.  *)
FinishGranted ==
  \E h \in handler :
    /\ h.stored
    /\ handler' = {}
    /\ userId' = h.reply.account
    /\ mainQueue' = IF h.reply.from = "login"
                    THEN Append(mainQueue, [kind |-> "present", of |-> token.n])
                    ELSE mainQueue
    /\ UNCHANGED <<top, auths, creating, token, tabVars, histVars>>

-----------------------------------------------------------------------------
MainThread == RunBlock
NetworkQueue ==
  \/ Created \/ NotCreated
  \/ \E r \in auths : AuthFailure(r) \/ AuthReplied(r)
  \/ AuthWithoutToken \/ AuthGranted \/ FinishGranted

User ==
  \/ \E a \in Accounts : LoginTapped(a) \/ CreateTapped(a)
  \/ BadPassword \/ DismissAlert \/ OpenRegistration \/ ShowAnotherTabBar
  \/ \E s \in Screens : LoadScreen(s)

Next == User \/ MainThread \/ NetworkQueue
Spec == Init /\ [][Next]_vars
(* Queued blocks run and every request ends, with a reply or URLSession's  *)
(* timeout; how it ends is open, and users do what they like.              *)
FairSpec == Spec /\ WF_vars(MainThread) /\ WF_vars(NetworkQueue)

-----------------------------------------------------------------------------
(* Types.  In particular no request authenticates the empty account.       *)
TypeOK ==
  /\ top \in {"login", "loginAlert", "badLogin", "create", "createAlert", "tabs"}
  /\ mainQueue \in Seq(Block)
  /\ auths \subseteq Auth
  /\ creating \in Accounts \cup {NoAccount}
  /\ handler \subseteq Handler
  /\ token \in Token
  /\ userId \in Accounts \cup {NoAccount}
  /\ sockets \in Seq(Socket)
  /\ loaded \subseteq Screens
  /\ asked \subseteq Identity
  /\ taps \in Nat
  /\ hurried \in BOOLEAN

(* The socket of the tab bar a login presented carries the token of that   *)
(* login or a later one: the token is stored before the block is queued    *)
(* that will read it on the other thread (LoginController 106-118,         *)
(* WebSocketNetworking 18).                                                *)
LoginSocketIsSignedIn ==
  \A i \in DOMAIN sockets : sockets[i].by = "login" =>
    sockets[i].token.n >= sockets[i].of /\ sockets[i].of > 0

(* Token and user id are of one account, whatever the user does and how-   *)
(* ever logins and registrations overlap, except while a handler is        *)
(* between its two writes: handlers do not mix, and none leaves the pair   *)
(* half written (LoginController 106-107, CreateViewController 133-134).   *)
PairIsWhole == (~\E h \in handler : h.stored) => token.account = userId

(* The application is shown without a token only on the way through        *)
(* registration, which does not wait for its replies.                      *)
TabsNeedTokenOrRegistration ==
  top = "tabs" /\ token = NoToken => sockets # <<>> /\ sockets[1].by = "create"

(* If the user has waited for each answer, a request names the account its *)
(* token belongs to; only after a registration may it name whoever the     *)
(* client was when the registration's tab bar opened (nobody, or the one   *)
(* signed in behind a bad status), whatever its token.  (A user who does   *)
(* not wait can have two handlers, and a request sent between the two      *)
(* writes of the second names the account of the first.)                   *)
PatientRequestsAreOwn ==
  hurried \/ \A q \in asked :
    \/ q.user = q.token.account /\ q.user # NoAccount
    \/ sockets[1].by = "create" /\ q.user = sockets[1].token.account

(* A user who waits for each answer and is granted a token by a reply of   *)
(* good status is shown the application.  (One who does not wait may have  *)
(* an alert or the registration screen in the way, and the tab bar is      *)
(* refused for good; so may the tab bar of a reply with a bad status,      *)
(* which is queued behind that reply's own alert.)                         *)
GrantedShowsTabs == (token # NoToken /\ ~token.refused) ~> (top = "tabs" \/ hurried)

(* Until then the way is clear, even after earlier replies of bad status:  *)
(* with a user who waits, between such a token and the application there is *)
(* only the handler that stored the token, or the block it queued at the   *)
(* head of the main queue, and the login screen is on top with nothing     *)
(* presented that would refuse the tab bar (LoginController 85-119).       *)
GrantedIsOnItsWay ==
  ~hurried /\ token # NoToken /\ ~token.refused /\ top # "tabs" =>
    /\ top = "login"
    /\ handler # {} \/ (mainQueue # <<>> /\ Head(mainQueue).kind = "present")
=============================================================================
