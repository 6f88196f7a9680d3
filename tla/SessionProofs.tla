--------------------------- MODULE SessionProofs ----------------------------
(***************************************************************************)
(* Theorems about Session, for any accounts and any number of taps and tab *)
(* bars.                                                                   *)
(***************************************************************************)
EXTENDS Session, SequenceTheorems, TLAPS

-----------------------------------------------------------------------------
(* Sequences: what a queue gains and loses.                                *)

LEMMA SeqAppend ==
  ASSUME NEW S, NEW s \in Seq(S), NEW b \in S
  PROVE  /\ Append(s, b) \in Seq(S)
         /\ Len(s) \in Nat /\ Len(Append(s, b)) = Len(s) + 1
         /\ DOMAIN Append(s, b) = 1..(Len(s) + 1) /\ DOMAIN s = 1..Len(s)
         /\ \A j \in 1..(Len(s) + 1) : Append(s, b)[j] = IF j = Len(s) + 1 THEN b ELSE s[j]
         /\ \A j \in 1..Len(s) : s[j] \in S
  OBVIOUS

LEMMA SeqTail ==
  ASSUME NEW S, NEW s \in Seq(S), s # <<>>
  PROVE  /\ Tail(s) \in Seq(S) /\ Len(s) \in Nat \ {0}
         /\ DOMAIN Tail(s) = 1..(Len(s) - 1) /\ DOMAIN s = 1..Len(s)
         /\ \A j \in 1..(Len(s) - 1) : Tail(s)[j] = s[j + 1]
         /\ Head(s) = s[1] /\ Head(s) \in S
  OBVIOUS

LEMMA AppendToOne ==
  ASSUME NEW a, NEW b
  PROVE  Append(<<a>>, b) = <<a, b>>
<1> DEFINE S == {a, b}
<1>1. /\ <<a>> \in Seq(S) /\ Len(<<a>>) = 1
      /\ <<a, b>> \in Seq(S) /\ Len(<<a, b>>) = 2
  OBVIOUS
<1>2. Append(<<a>>, b) \in Seq(S) /\ Len(Append(<<a>>, b)) = 2
  BY <1>1
<1>3. \A i \in 1..2 : Append(<<a>>, b)[i] = <<a, b>>[i]
  BY <1>1
<1> QED BY <1>1, <1>2, <1>3, SeqEqual

-----------------------------------------------------------------------------
(* The type invariant.                                                     *)

LEMMA OpenTabBarType ==
  ASSUME TypeOK, NEW by \in {"login", "create", "rating"}, NEW of \in Nat, OpenTabBar(by, of)
  PROVE  /\ sockets' \in Seq(Socket) /\ loaded' \subseteq Screens /\ asked' \subseteq Identity
         /\ top' = "tabs"
<1> DEFINE s == [token |-> token, by |-> by, of |-> of]
<1>1. s \in Socket
  <2>1. token \in Token
    BY DEF TypeOK
  <2> QED BY <2>1 DEF Socket
<1>2. sockets' = Append(sockets, s) /\ loaded' = {} /\ asked' = asked /\ top' = "tabs"
  BY DEF OpenTabBar
<1> HIDE DEF s
<1> QED BY <1>1, <1>2, SeqAppend DEF TypeOK

LEMMA TypeInit == Init => TypeOK
<1>1. NoToken \in Token
  BY DEF NoToken, Token
<1>2. <<>> \in Seq(Block) /\ <<>> \in Seq(Socket)
  OBVIOUS
<1>3. Init => hurried \in BOOLEAN
  BY DEF Init
<1>4. Init => /\ top \in {"login", "loginAlert", "badLogin", "create", "createAlert", "tabs"}
              /\ taps \in Nat /\ creating \in Accounts \cup {NoAccount}
              /\ userId \in Accounts \cup {NoAccount}
  BY DEF Init
<1>5. Init => /\ mainQueue \in Seq(Block) /\ sockets \in Seq(Socket) /\ token \in Token
  BY <1>1, <1>2 DEF Init
<1>6. Init => /\ auths \subseteq Auth /\ handler \subseteq Handler /\ loaded \subseteq Screens
              /\ asked \subseteq Identity
  BY DEF Init
<1> QED BY <1>3, <1>4, <1>5, <1>6 DEF TypeOK

LEMMA TypeStep == TypeOK /\ [Next]_vars => TypeOK'
<1> SUFFICES ASSUME TypeOK, [Next]_vars PROVE TypeOK'
  OBVIOUS
<1> USE DEF uiVars, netVars, idVars, tabVars, histVars
<1>1. ASSUME NEW a \in Accounts, LoginTapped(a) PROVE TypeOK'
  <2>1. [tap |-> taps + 1, account |-> a, from |-> "login"] \in Auth
    BY DEF TypeOK, Auth
  <2>2. hurried' \in BOOLEAN
    BY <1>1 DEF LoginTapped
  <2> QED BY <1>1, <2>1, <2>2 DEF LoginTapped, TypeOK
<1>2. CASE BadPassword
  <2>1. hurried' \in BOOLEAN
    BY <1>2 DEF BadPassword
  <2>2. top' \in {"loginAlert", "createAlert"}
    BY <1>2 DEF BadPassword
  <2> QED BY <1>2, <2>1, <2>2 DEF BadPassword, TypeOK
<1>3. CASE DismissAlert
  BY <1>3 DEF DismissAlert, TypeOK
<1>4. CASE OpenRegistration
  <2>1. hurried' \in BOOLEAN
    BY <1>4 DEF OpenRegistration
  <2> QED BY <1>4, <2>1 DEF OpenRegistration, TypeOK
<1>5. ASSUME NEW a \in Accounts, CreateTapped(a) PROVE TypeOK'
  <2>1. hurried' \in BOOLEAN
    BY <1>5 DEF CreateTapped
  <2>2. OpenTabBar("create", 0)
    BY <1>5 DEF CreateTapped
  <2> QED BY <1>5, <2>1, <2>2, OpenTabBarType DEF CreateTapped, TypeOK
<1>6. CASE RunBlock
  <2> DEFINE b == Head(mainQueue)
  <2>1. mainQueue' \in Seq(Block) /\ b \in Block /\ b.of \in Nat
    <3>1. mainQueue # <<>> /\ mainQueue' = Tail(mainQueue) /\ mainQueue \in Seq(Block)
      BY <1>6 DEF RunBlock, TypeOK
    <3>2. mainQueue' \in Seq(Block) /\ b \in Block
      BY <3>1, SeqTail
    <3> QED BY <3>2 DEF Block
  <2>2. CASE OpenTabBar("login", b.of)
    <3> HIDE DEF b
    <3> QED BY <1>6, <2>1, <2>2, OpenTabBarType DEF RunBlock, TypeOK
  <2>3. CASE top' \in {top, "badLogin"} /\ UNCHANGED tabVars
    BY <1>6, <2>1, <2>3 DEF RunBlock, TypeOK
  <2> QED BY <1>6, <2>2, <2>3 DEF RunBlock
<1>7. CASE ShowAnotherTabBar
  <2>1. OpenTabBar("rating", 0)
    BY <1>7 DEF ShowAnotherTabBar
  <2> QED BY <1>7, <2>1, OpenTabBarType DEF ShowAnotherTabBar, TypeOK
<1>8. ASSUME NEW s \in Screens, LoadScreen(s) PROVE TypeOK'
  BY <1>8 DEF LoadScreen, TypeOK, Identity
<1>9. CASE Created
  <2>1. [tap |-> 0, account |-> creating, from |-> "create"] \in Auth
    BY <1>9 DEF Created, TypeOK, Auth
  <2> QED BY <1>9, <2>1 DEF Created, TypeOK
<1>10. CASE NotCreated
  BY <1>10 DEF NotCreated, TypeOK
<1>11. ASSUME NEW r \in auths, AuthFailure(r) PROVE TypeOK'
  BY <1>11 DEF AuthFailure, TypeOK
<1>12. ASSUME NEW r \in auths, AuthReplied(r) PROVE TypeOK'
  <2>1. [kind |-> "alert", of |-> 0] \in Block /\ r \in Auth
    BY DEF Block, TypeOK
  <2>2. \A f \in BOOLEAN : [reply |-> r, refused |-> f, stored |-> FALSE] \in Handler
    BY <2>1 DEF Handler
  <2>3. mainQueue' \in Seq(Block)
    <3>1. mainQueue \in Seq(Block)
      BY DEF TypeOK
    <3> QED BY <1>12, <2>1, <3>1, SeqAppend DEF AuthReplied
  <2>4. handler' \subseteq Handler
    BY <1>12, <2>2 DEF AuthReplied
  <2> QED BY <1>12, <2>3, <2>4 DEF AuthReplied, TypeOK
<1>13. CASE AuthWithoutToken
  BY <1>13 DEF AuthWithoutToken, TypeOK
<1>14. CASE AuthGranted
  <2>1. PICK h \in handler : AuthGranted!(h)
    BY <1>14 DEF AuthGranted
  <2>2. h \in Handler /\ [h EXCEPT !.stored = TRUE] \in Handler
    BY DEF TypeOK, Handler
  <2>3. h.reply.account \in Accounts /\ h.refused \in BOOLEAN /\ token.n \in Nat
    BY <2>2 DEF TypeOK, Handler, Auth, Token
  <2>4. token' \in Token
    <3>1. token.n + 1 \in Nat
      BY <2>3
    <3> QED BY <2>1, <2>3, <3>1, Zenon DEF Token
  <2>5. handler' \subseteq Handler
    BY <2>1, <2>2
  <2> QED BY <2>1, <2>4, <2>5 DEF TypeOK
<1>15. CASE FinishGranted
  <2>1. PICK h \in handler : FinishGranted!(h)
    BY <1>15 DEF FinishGranted
  <2>2. h.reply.account \in Accounts /\ [kind |-> "present", of |-> token.n] \in Block
    BY DEF TypeOK, Handler, Auth, Token, Block
  <2>3. mainQueue' \in Seq(Block)
    BY <2>1, <2>2, SeqAppend DEF TypeOK
  <2> QED BY <2>1, <2>2, <2>3 DEF TypeOK
<1>16. CASE UNCHANGED vars
  BY <1>16 DEF vars, TypeOK
<1> QED
  BY <1>1, <1>2, <1>3, <1>4, <1>5, <1>6, <1>7, <1>8, <1>9, <1>10, <1>11, <1>12, <1>13, <1>14,
     <1>15, <1>16
  DEF Next, User, MainThread, NetworkQueue

(* Every reachable state is well typed; in particular no request           *)
(* authenticates the empty account (CreateViewController 87-89).           *)
THEOREM TypeCorrect == Spec => []TypeOK
  BY TypeInit, TypeStep, PTL DEF Spec

-----------------------------------------------------------------------------
(* The sockets.  A queued tab bar was asked for by a token that is stored, *)
(* a handler between its writes has stored one, no socket is ahead of      *)
(* DataProvider, and the login screen or the registration showed the first *)
(* tab bar.                                                                *)

QueueInv == \A k \in DOMAIN mainQueue :
  mainQueue[k].kind = "present" => 0 < mainQueue[k].of /\ mainQueue[k].of <= token.n
GrantInv == \A h \in handler : h.stored => token.n > 0
NowInv == \A i \in DOMAIN sockets : sockets[i].token.n <= token.n
TabsInv == /\ top = "tabs" <=> sockets # <<>>
           /\ sockets # <<>> => sockets[1].by \in {"login", "create"}
SocketInv == QueueInv /\ GrantInv /\ NowInv /\ TabsInv /\ LoginSocketIsSignedIn

LEMMA OpenTabBarSockets ==
  ASSUME TypeOK, NowInv, TabsInv, LoginSocketIsSignedIn,
         NEW by \in {"login", "create", "rating"}, NEW of \in Nat, OpenTabBar(by, of),
         token' = token,
         by = "login" => 0 < of /\ of <= token.n,
         by = "rating" => top = "tabs"
  PROVE  (NowInv /\ TabsInv /\ LoginSocketIsSignedIn)'
<1> DEFINE s == [token |-> token, by |-> by, of |-> of]
           n == Len(sockets) + 1
<1>1. s \in Socket /\ s.token = token /\ s.by = by /\ s.of = of
  <2>1. token \in Token
    BY DEF TypeOK
  <2> QED BY <2>1 DEF Socket
<1>2. sockets' = Append(sockets, s) /\ top' = "tabs"
  BY DEF OpenTabBar
<1>3. sockets \in Seq(Socket) /\ token.n \in Nat
  BY DEF TypeOK, Token
<1> HIDE DEF s
<1>4. /\ Len(sockets) \in Nat /\ DOMAIN sockets = 1..Len(sockets) /\ DOMAIN sockets' = 1..n
      /\ sockets'[n] = s
      /\ \A j \in 1..Len(sockets) : sockets'[j] = sockets[j] /\ sockets[j] \in Socket
      /\ sockets' # <<>>
  BY <1>1, <1>2, <1>3, SeqAppend
<1>5. \A j \in 1..Len(sockets) : sockets[j].token.n \in Nat
  BY <1>4 DEF Socket, Token
<1>6. NowInv'
  BY <1>1, <1>3, <1>4 DEF NowInv
<1>7. TabsInv'
  <2>1. CASE sockets = <<>>
    <3>1. n = 1
      BY <2>1
    <3> QED BY <1>1, <1>2, <1>4, <2>1, <3>1 DEF TabsInv
  <2>2. CASE sockets # <<>>
    <3>1. 1 \in 1..Len(sockets)
      BY <2>2, <1>3, <1>4
    <3> QED BY <1>2, <1>4, <2>2, <3>1 DEF TabsInv
  <2> QED BY <2>1, <2>2
<1>8. LoginSocketIsSignedIn'
  BY <1>1, <1>3, <1>4 DEF LoginSocketIsSignedIn
<1> QED BY <1>6, <1>7, <1>8

LEMMA SocketFrame ==
  ASSUME SocketInv, UNCHANGED <<mainQueue, handler, token, sockets>>,
         top' = "tabs" <=> top = "tabs"
  PROVE  SocketInv'
  BY DEF SocketInv, QueueInv, GrantInv, NowInv, TabsInv, LoginSocketIsSignedIn

LEMMA QueueFrame ==
  ASSUME TypeOK, QueueInv, UNCHANGED token, NEW b \in Block,
         mainQueue' = Append(mainQueue, b),
         b.kind = "present" => 0 < b.of /\ b.of <= token.n
  PROVE  QueueInv'
<1>1. mainQueue \in Seq(Block)
  BY DEF TypeOK
<1>2. /\ DOMAIN mainQueue' = 1..(Len(mainQueue) + 1) /\ DOMAIN mainQueue = 1..Len(mainQueue)
      /\ \A k \in 1..(Len(mainQueue) + 1) :
           mainQueue'[k] = IF k = Len(mainQueue) + 1 THEN b ELSE mainQueue[k]
      /\ Len(mainQueue) \in Nat
  BY <1>1, SeqAppend
<1> QED BY <1>2 DEF QueueInv

LEMMA SocketInit == Init => SocketInv
  BY DEF Init, SocketInv, QueueInv, GrantInv, NowInv, TabsInv, LoginSocketIsSignedIn

LEMMA SocketStep == TypeOK /\ SocketInv /\ [Next]_vars => SocketInv'
<1> SUFFICES ASSUME TypeOK, SocketInv, [Next]_vars PROVE SocketInv'
  OBVIOUS
<1> USE DEF uiVars, netVars, idVars, tabVars, histVars
<1>1. ASSUME NEW a \in Accounts, LoginTapped(a) PROVE SocketInv'
  BY <1>1, SocketFrame DEF LoginTapped
<1>2. CASE BadPassword \/ DismissAlert \/ OpenRegistration
  BY <1>2, SocketFrame DEF BadPassword, DismissAlert, OpenRegistration
<1>3. ASSUME NEW a \in Accounts, CreateTapped(a) PROVE SocketInv'
  <2>1. OpenTabBar("create", 0) /\ UNCHANGED <<token, mainQueue, handler>>
    BY <1>3 DEF CreateTapped
  <2> QED BY <2>1, OpenTabBarSockets DEF SocketInv, QueueInv, GrantInv
<1>4. CASE RunBlock
  <2> DEFINE b == Head(mainQueue)
  <2>1. mainQueue # <<>> /\ mainQueue' = Tail(mainQueue) /\ mainQueue \in Seq(Block)
    BY <1>4 DEF RunBlock, TypeOK
  <2>2. /\ UNCHANGED <<handler, token>>
        /\ \/ top = "login" /\ b.kind = "present" /\ OpenTabBar("login", b.of)
           \/ top = "login" /\ top' = "badLogin" /\ UNCHANGED sockets
           \/ UNCHANGED <<top, sockets>>
    BY <1>4 DEF RunBlock
  <2>3. /\ DOMAIN mainQueue' = 1..(Len(mainQueue) - 1) /\ DOMAIN mainQueue = 1..Len(mainQueue)
        /\ \A k \in 1..(Len(mainQueue) - 1) : mainQueue'[k] = mainQueue[k + 1]
        /\ b = mainQueue[1] /\ b \in Block /\ Len(mainQueue) \in Nat \ {0}
    BY <2>1, SeqTail
  <2>4. b.of \in Nat /\ (b.kind = "present" => 0 < b.of /\ b.of <= token.n)
    BY <2>3 DEF SocketInv, QueueInv, Block
  <2> HIDE DEF b
  <2>5. QueueInv' /\ GrantInv'
    BY <2>2, <2>3 DEF SocketInv, QueueInv, GrantInv
  <2>6. CASE b.kind = "present" /\ OpenTabBar("login", b.of)
    BY <2>2, <2>4, <2>5, <2>6, OpenTabBarSockets DEF SocketInv
  <2>7. CASE (top' = "tabs" <=> top = "tabs") /\ UNCHANGED sockets
    BY <2>2, <2>5, <2>7 DEF SocketInv, NowInv, TabsInv, LoginSocketIsSignedIn
  <2> QED BY <2>2, <2>6, <2>7
<1>5. CASE ShowAnotherTabBar
  <2>1. OpenTabBar("rating", 0) /\ UNCHANGED <<token, mainQueue, handler>> /\ top = "tabs"
    BY <1>5 DEF ShowAnotherTabBar
  <2> QED BY <2>1, OpenTabBarSockets DEF SocketInv, QueueInv, GrantInv
<1>6. ASSUME NEW s \in Screens, LoadScreen(s) PROVE SocketInv'
  BY <1>6, SocketFrame DEF LoadScreen
<1>7. CASE Created \/ NotCreated
  BY <1>7, SocketFrame DEF Created, NotCreated
<1>8. ASSUME NEW r \in auths, AuthFailure(r) PROVE SocketInv'
  BY <1>8, SocketFrame DEF AuthFailure
<1>9. ASSUME NEW r \in auths, AuthReplied(r) PROVE SocketInv'
  <2> DEFINE b == [kind |-> "alert", of |-> 0]
  <2>1. b \in Block /\ b.kind # "present"
    BY DEF Block
  <2>2. /\ mainQueue' \in {Append(mainQueue, b), mainQueue} /\ UNCHANGED <<top, token, sockets>>
        /\ \A h \in handler' : ~h.stored
    BY <1>9 DEF AuthReplied
  <2> HIDE DEF b
  <2>3. QueueInv'
    <3>1. CASE mainQueue' = mainQueue
      BY <2>2, <3>1 DEF SocketInv, QueueInv
    <3>2. CASE mainQueue' = Append(mainQueue, b)
      BY <2>1, <2>2, <3>2, QueueFrame DEF SocketInv
    <3> QED BY <2>2, <3>1, <3>2
  <2> QED BY <2>2, <2>3 DEF SocketInv, GrantInv, NowInv, TabsInv, LoginSocketIsSignedIn
<1>10. CASE AuthWithoutToken
  BY <1>10 DEF AuthWithoutToken, SocketInv, QueueInv, GrantInv, NowInv, TabsInv, LoginSocketIsSignedIn
<1>11. CASE AuthGranted
  <2>1. /\ token.n \in Nat /\ token'.n = token.n + 1 /\ UNCHANGED <<top, mainQueue, sockets>>
        /\ mainQueue \in Seq(Block) /\ sockets \in Seq(Socket)
    BY <1>11 DEF AuthGranted, TypeOK, Token
  <2>2. \A k \in DOMAIN mainQueue : mainQueue[k].of \in Nat
    <3>1. \A k \in DOMAIN mainQueue : mainQueue[k] \in Block
      BY <2>1
    <3> QED BY <3>1 DEF Block
  <2>3. \A i \in DOMAIN sockets : sockets[i].token.n \in Nat
    <3>1. \A i \in DOMAIN sockets : sockets[i] \in Socket
      BY <2>1
    <3> QED BY <3>1 DEF Socket, Token
  <2>4. QueueInv'
    BY <2>1, <2>2 DEF SocketInv, QueueInv
  <2>5. GrantInv' /\ NowInv'
    BY <2>1, <2>3 DEF SocketInv, GrantInv, NowInv
  <2> QED BY <2>1, <2>4, <2>5 DEF SocketInv, TabsInv, LoginSocketIsSignedIn
<1>12. CASE FinishGranted
  <2> DEFINE b == [kind |-> "present", of |-> token.n]
  <2>1. token.n \in Nat /\ token.n > 0
    BY <1>12 DEF FinishGranted, SocketInv, GrantInv, TypeOK, Token
  <2>2. b \in Block /\ b.of = token.n
    BY <2>1 DEF Block
  <2>3. /\ mainQueue' \in {Append(mainQueue, b), mainQueue} /\ handler' = {}
        /\ UNCHANGED <<top, token, sockets>>
    BY <1>12 DEF FinishGranted
  <2> HIDE DEF b
  <2>4. QueueInv'
    <3>1. CASE mainQueue' = mainQueue
      BY <2>3, <3>1 DEF SocketInv, QueueInv
    <3>2. CASE mainQueue' = Append(mainQueue, b)
      BY <2>1, <2>2, <2>3, <3>2, QueueFrame DEF SocketInv
    <3> QED BY <2>3, <3>1, <3>2
  <2> QED BY <2>3, <2>4
          DEF SocketInv, GrantInv, NowInv, TabsInv, LoginSocketIsSignedIn
<1>13. CASE UNCHANGED vars
  BY <1>13, SocketFrame DEF vars
<1> QED
  BY <1>1, <1>2, <1>3, <1>4, <1>5, <1>6, <1>7, <1>8, <1>9, <1>10, <1>11, <1>12, <1>13
  DEF Next, User, MainThread, NetworkQueue

LEMMA SocketInvariant == Spec => [](TypeOK /\ SocketInv)
  BY TypeInit, TypeStep, SocketInit, SocketStep, PTL DEF Spec

(* The socket of the tab bar a login presented carries that login's token  *)
(* or a later one (LoginController 106-118, WebSocketNetworking 18).       *)
THEOREM LoginSocketIsSignedInHolds == Spec => []LoginSocketIsSignedIn
  BY SocketInvariant, PTL DEF SocketInv

(* Without a token the application is only shown by a registration         *)
(* (CreateViewController 48-50).                                           *)
THEOREM TabsNeedTokenOrRegistrationHolds == Spec => []TabsNeedTokenOrRegistration
<1>1. TypeOK /\ SocketInv => TabsNeedTokenOrRegistration
  <2> SUFFICES ASSUME TypeOK, SocketInv, top = "tabs", token = NoToken
               PROVE  sockets # <<>> /\ sockets[1].by = "create"
    BY DEF TabsNeedTokenOrRegistration
  <2>1. sockets # <<>> /\ sockets[1].by \in {"login", "create"} /\ token.n = 0
    BY DEF SocketInv, TabsInv, NoToken
  <2>2. 1 \in DOMAIN sockets /\ sockets[1] \in Socket
    <3>1. sockets \in Seq(Socket)
      BY DEF TypeOK
    <3> QED BY <2>1, <3>1
  <2>3. sockets[1].token.n \in Nat /\ sockets[1].of \in Nat
    BY <2>2 DEF Socket, Token
  <2>4. sockets[1].token.n <= 0
    BY <2>1, <2>2 DEF SocketInv, NowInv
  <2> QED BY <2>1, <2>2, <2>3, <2>4 DEF SocketInv, LoginSocketIsSignedIn
<1> QED BY <1>1, SocketInvariant, PTL

-----------------------------------------------------------------------------
(* The pair of token and user id.  One handler runs at a time, and between *)
(* its writes the token is that of its own reply.                          *)

OneHandler ==
  handler = {} \/ \E h \in Handler : /\ handler = {h}
                                     /\ h.stored => token.account = h.reply.account
PairInv == OneHandler /\ PairIsWhole

LEMMA PairInit == Init => PairInv
  BY DEF Init, PairInv, OneHandler, PairIsWhole, NoToken

LEMMA PairStep == TypeOK /\ PairInv /\ [Next]_vars => PairInv'
<1> SUFFICES ASSUME TypeOK, PairInv, [Next]_vars PROVE PairInv'
  OBVIOUS
<1> USE DEF uiVars, netVars, idVars, tabVars, histVars
<1>1. CASE UNCHANGED <<handler, token, userId>>
  BY <1>1 DEF PairInv, OneHandler, PairIsWhole
<1>2. ASSUME NEW r \in auths, AuthReplied(r) PROVE PairInv'
  <2>1. r \in Auth /\ handler = {} /\ UNCHANGED <<token, userId>>
    BY <1>2 DEF AuthReplied, TypeOK
  <2>2. PICK f \in BOOLEAN : handler' = {[reply |-> r, refused |-> f, stored |-> FALSE]}
    BY <1>2 DEF AuthReplied
  <2>3. [reply |-> r, refused |-> f, stored |-> FALSE] \in Handler
    BY <2>1 DEF Handler
  <2> QED BY <2>1, <2>2, <2>3 DEF PairInv, OneHandler, PairIsWhole
<1>3. CASE AuthWithoutToken
  <2>1. PICK h \in handler : AuthWithoutToken!(h)
    BY <1>3 DEF AuthWithoutToken
  <2>2. \A g \in handler : g = h
    BY DEF PairInv, OneHandler
  <2> QED BY <2>1, <2>2 DEF PairInv, OneHandler, PairIsWhole
<1>4. CASE AuthGranted
  <2>1. PICK h \in handler : AuthGranted!(h)
    BY <1>4 DEF AuthGranted
  <2> DEFINE g == [h EXCEPT !.stored = TRUE]
  <2>2. g \in Handler /\ g.stored /\ g.reply = h.reply
    BY DEF TypeOK, Handler
  <2>3. handler' = {g} /\ token'.account = g.reply.account
    BY <2>1, <2>2
  <2> HIDE DEF g
  <2> QED BY <2>2, <2>3 DEF PairInv, OneHandler, PairIsWhole
<1>5. CASE FinishGranted
  <2>1. PICK h \in handler : FinishGranted!(h)
    BY <1>5 DEF FinishGranted
  <2>2. token.account = h.reply.account
    BY <2>1 DEF PairInv, OneHandler
  <2> QED BY <2>1, <2>2 DEF PairInv, OneHandler, PairIsWhole
<1> QED
  BY <1>1, <1>2, <1>3, <1>4, <1>5
  DEF Next, User, MainThread, NetworkQueue, vars, LoginTapped, CreateTapped, BadPassword,
      DismissAlert, OpenRegistration, ShowAnotherTabBar, LoadScreen, RunBlock, Created,
      NotCreated, AuthFailure

(* Whatever the user does and however logins and registrations overlap,    *)
(* token and user id are of one account whenever no handler is between its *)
(* two writes (LoginController 106-107, CreateViewController 133-134).     *)
THEOREM PairIsWholeHolds == Spec => []PairIsWhole
  BY TypeInit, TypeStep, PairInit, PairStep, PTL DEF Spec, PairInv

-----------------------------------------------------------------------------
(* A user who waits for each answer goes through five phases: at the login *)
(* screen (perhaps with one login in flight, or its alert queued), without *)
(* a token or with one whose tab bar its reply's own alert may have kept   *)
(* away; the handler of a login at work; the tab bar queued, behind the    *)
(* alert if the status was bad; signed in; and on the way through a        *)
(* registration, whose user id is still the one it opened the tab bar with. *)

Alert == [kind |-> "alert", of |-> 0]
Present(n) == [kind |-> "present", of |-> n]
Unseen == token = NoToken \/ token.refused

SignedOut ==
  /\ top # "tabs" /\ creating = NoAccount /\ handler = {} /\ sockets = <<>>
  /\ token.account = userId /\ Unseen
  /\ \/ auths = {} /\ mainQueue = <<>>
     \/ top = "login" /\ mainQueue = <<>> /\ \E r \in Auth : auths = {r} /\ r.from = "login"
     \/ top = "login" /\ auths = {} /\ mainQueue = <<Alert>>

Handling ==
  /\ creating = NoAccount /\ auths = {} /\ sockets = <<>>
  /\ \E h \in Handler :
       /\ handler = {h} /\ h.reply.from = "login"
       /\ IF h.stored THEN token.account = h.reply.account /\ token.refused = h.refused
                      ELSE token.account = userId /\ Unseen
       /\ \/ top = "login" /\ mainQueue = <<>>
          \/ h.refused /\ top = "badLogin" /\ mainQueue = <<>>
          \/ h.refused /\ top = "login" /\ mainQueue = <<Alert>>

Presenting ==
  /\ creating = NoAccount /\ auths = {} /\ handler = {} /\ sockets = <<>>
  /\ userId = token.account /\ userId # NoAccount
  /\ \E n \in Nat :
       \/ top = "login" /\ mainQueue = <<Present(n)>>
       \/ token.refused /\ top = "badLogin" /\ mainQueue = <<Present(n)>>
       \/ token.refused /\ top = "login" /\ mainQueue = <<Alert, Present(n)>>

SignedIn ==
  /\ top = "tabs" /\ creating = NoAccount /\ auths = {} /\ handler = {} /\ mainQueue = <<>>
  /\ userId = token.account /\ userId # NoAccount

Registering ==
  /\ top = "tabs" /\ mainQueue = <<>>
  /\ sockets # <<>> /\ sockets[1].by = "create" /\ userId = sockets[1].token.account
  /\ \/ auths = {} /\ handler = {}
     \/ creating = NoAccount /\ handler = {} /\ \E r \in Auth : auths = {r} /\ r.from = "create"
     \/ /\ creating = NoAccount /\ auths = {}
        /\ \E h \in Handler : /\ handler = {h} /\ h.reply.from = "create"
                              /\ h.stored => token.account = h.reply.account

Phases == SignedOut \/ Handling \/ Presenting \/ SignedIn \/ Registering
AskedInv == sockets = <<>> => asked = {}
PatientInv == (hurried \/ Phases) /\ AskedInv /\ PatientRequestsAreOwn

(* Having gone on too early is remembered.                                 *)
LEMMA HurriedStays == [Next]_vars /\ hurried => hurried'
  BY DEF Next, User, MainThread, NetworkQueue, vars, uiVars, netVars, idVars, tabVars, histVars,
         LoginTapped, CreateTapped, BadPassword, DismissAlert, OpenRegistration, ShowAnotherTabBar,
         LoadScreen, RunBlock, Created, NotCreated, AuthFailure, AuthReplied,
         AuthWithoutToken, AuthGranted, FinishGranted

(* A step keeps the sockets and the requests, adds a socket, or adds a     *)
(* request of the present identity while the application is shown.         *)
LEMMA SocketsGrow ==
  ASSUME TypeOK, [Next]_vars
  PROVE  \/ sockets' = sockets /\ asked' = asked
         \/ /\ asked' = asked
            /\ \E s \in Socket : sockets' = Append(sockets, s)
         \/ /\ sockets' = sockets /\ top = "tabs"
            /\ asked' = asked \cup {[token |-> token, user |-> userId]}
<1> USE DEF uiVars, netVars, idVars, tabVars, histVars
<1>1. ASSUME NEW by \in {"login", "create", "rating"}, NEW of \in Nat, OpenTabBar(by, of)
      PROVE  asked' = asked /\ \E s \in Socket : sockets' = Append(sockets, s)
  <2>1. token \in Token
    BY DEF TypeOK
  <2>2. [token |-> token, by |-> by, of |-> of] \in Socket
    BY <2>1 DEF Socket
  <2> QED BY <1>1, <2>2 DEF OpenTabBar
<1>2. CASE \E a \in Accounts : CreateTapped(a)
  BY <1>1, <1>2 DEF CreateTapped
<1>3. CASE ShowAnotherTabBar
  BY <1>1, <1>3 DEF ShowAnotherTabBar
<1>4. CASE RunBlock
  <2>1. mainQueue # <<>> /\ mainQueue \in Seq(Block)
    BY <1>4 DEF RunBlock, TypeOK
  <2>2. Head(mainQueue) \in Block
    BY <2>1, SeqTail
  <2>3. Head(mainQueue).of \in Nat
    BY <2>2 DEF Block
  <2> QED BY <1>1, <1>4, <2>3 DEF RunBlock
<1>5. CASE \E s \in Screens : LoadScreen(s)
  BY <1>5 DEF LoadScreen
<1>6. CASE UNCHANGED <<sockets, asked>>
  BY <1>6
<1> QED
  BY <1>2, <1>3, <1>4, <1>5, <1>6
  DEF Next, User, MainThread, NetworkQueue, vars, LoginTapped, BadPassword, DismissAlert,
      OpenRegistration, Created, NotCreated, AuthFailure, AuthReplied, AuthWithoutToken,
      AuthGranted, FinishGranted

(* Phase by phase, what a step of a user who has not hurried may do.       *)
LEMMA PhaseStep ==
  ASSUME TypeOK, SocketInv, Phases, [Next]_vars, ~hurried'
  PROVE  Phases'
<1> USE DEF uiVars, netVars, idVars, tabVars, histVars
<1>1. ASSUME NEW a \in Accounts, LoginTapped(a) PROVE Phases'
  <2> DEFINE r == [tap |-> taps + 1, account |-> a, from |-> "login"]
  <2>1. r \in Auth /\ r.from = "login"
    BY DEF TypeOK, Auth
  <2>2. top = "login" /\ auths' = auths \cup {r} /\ UNCHANGED <<uiVars, creating, handler, idVars, tabVars>>
    BY <1>1 DEF LoginTapped
  <2>3. ~Busy
    BY <1>1 DEF LoginTapped
  <2> HIDE DEF r
  <2>4. SignedOut
    BY <2>2, <2>3 DEF Phases, Handling, Presenting, SignedIn, Registering, Busy, SignedOut
  <2>5. SignedOut'
    BY <2>1, <2>2, <2>3, <2>4 DEF SignedOut, Busy, Unseen
  <2> QED BY <2>5 DEF Phases
<1>2. CASE BadPassword \/ OpenRegistration
  <2>1. /\ top \in {"login", "create"} /\ top' # "tabs" /\ ~Busy
        /\ UNCHANGED <<mainQueue, netVars, idVars, tabVars>>
    BY <1>2 DEF BadPassword, OpenRegistration
  <2>2. SignedOut
    <3>1. handler = {} /\ mainQueue = <<>>
      BY <2>1 DEF Busy
    <3>2. ~Presenting
      BY <3>1 DEF Presenting
    <3>3. ~Handling
      BY <3>1 DEF Handling
    <3> QED BY <2>1, <3>2, <3>3 DEF Phases, SignedIn, Registering
  <2>3. SignedOut'
    BY <2>1, <2>2 DEF SignedOut, Busy, Unseen
  <2> QED BY <2>3 DEF Phases
<1>12. CASE DismissAlert
  <2>1. /\ top \in {"loginAlert", "badLogin", "createAlert"} /\ top' # "tabs"
        /\ top = "badLogin" => top' = "login"
        /\ UNCHANGED <<mainQueue, netVars, idVars, tabVars>>
    BY <1>12 DEF DismissAlert
  <2>2. CASE SignedOut
    <3>1. SignedOut'
      BY <2>1, <2>2 DEF SignedOut, Unseen
    <3> QED BY <3>1 DEF Phases
  <2>3. CASE Handling
    <3>1. Handling'
      BY <2>1, <2>3 DEF Handling, Unseen
    <3> QED BY <3>1 DEF Phases
  <2>4. CASE Presenting
    <3>1. Presenting'
      BY <2>1, <2>4 DEF Presenting
    <3> QED BY <3>1 DEF Phases
  <2> QED BY <2>1, <2>2, <2>3, <2>4 DEF Phases, SignedIn, Registering
<1>3. ASSUME NEW a \in Accounts, CreateTapped(a) PROVE Phases'
  <2> DEFINE s == [token |-> token, by |-> "create", of |-> 0]
  <2>1. /\ top = "create" /\ top' = "tabs" /\ sockets' = Append(sockets, s)
        /\ UNCHANGED <<mainQueue, auths, handler, idVars>> /\ ~Busy
    BY <1>3 DEF CreateTapped, OpenTabBar
  <2>2. SignedOut
    BY <2>1 DEF Phases, Handling, Presenting, SignedIn, Registering, Busy
  <2>3. s.by = "create" /\ s.token = token
    OBVIOUS
  <2> HIDE DEF s
  <2>4. sockets' = <<s>>
    BY <2>1, <2>2 DEF SignedOut
  <2>5. Registering'
    BY <2>1, <2>2, <2>3, <2>4 DEF SignedOut, Busy, Registering
  <2> QED BY <2>5 DEF Phases
<1>4. CASE RunBlock
  <2> DEFINE b == Head(mainQueue)
  <2>1. /\ mainQueue # <<>> /\ mainQueue' = Tail(mainQueue) /\ UNCHANGED <<netVars, idVars>>
        /\ \/ top = "login" /\ b.kind = "present" /\ top' = "tabs"
           \/ top = "login" /\ b.kind = "alert" /\ top' = "badLogin" /\ UNCHANGED tabVars
           \/ top # "login" /\ UNCHANGED <<top, tabVars>>
    BY <1>4 DEF RunBlock, OpenTabBar
  <2>2. CASE SignedOut
    <3>1. mainQueue = <<Alert>> /\ top = "login" /\ auths = {}
      BY <2>1, <2>2 DEF SignedOut
    <3>2. mainQueue' = <<>> /\ b.kind = "alert"
      BY <2>1, <3>1 DEF Alert
    <3>3. SignedOut'
      BY <2>1, <2>2, <3>1, <3>2 DEF SignedOut, Unseen
    <3> QED BY <3>3 DEF Phases
  <2>3. CASE Handling
    <3>1. PICK h \in Handler : Handling!2!(h)
      BY <2>3 DEF Handling
    <3>2. h.refused /\ top = "login" /\ mainQueue = <<Alert>>
      BY <2>1, <3>1
    <3>3. mainQueue' = <<>> /\ b.kind = "alert"
      BY <2>1, <3>2 DEF Alert
    <3>4. top' = "badLogin" /\ UNCHANGED tabVars
      BY <2>1, <3>2, <3>3
    <3>5. Handling'
      BY <2>1, <2>3, <3>1, <3>2, <3>3, <3>4 DEF Handling, Unseen
    <3> QED BY <3>5 DEF Phases
  <2>4. CASE Presenting
    <3>1. PICK n \in Nat : Presenting!3!(n)
      BY <2>4 DEF Presenting
    <3>2. CASE top = "login" /\ mainQueue = <<Present(n)>>
      <4>1. mainQueue' = <<>> /\ b.kind = "present"
        BY <2>1, <3>2 DEF Present
      <4>2. SignedIn'
        BY <2>1, <2>4, <3>2, <4>1 DEF Presenting, SignedIn
      <4> QED BY <4>2 DEF Phases
    <3>3. CASE token.refused /\ top = "badLogin" /\ mainQueue = <<Present(n)>>
      <4>1. mainQueue' = <<>> /\ UNCHANGED <<top, tabVars>>
        BY <2>1, <3>3
      <4>2. SignedOut'
        BY <2>1, <2>4, <3>3, <4>1 DEF Presenting, SignedOut, Unseen
      <4> QED BY <4>2 DEF Phases
    <3>4. CASE token.refused /\ top = "login" /\ mainQueue = <<Alert, Present(n)>>
      <4>1. mainQueue' = <<Present(n)>> /\ b.kind = "alert"
        BY <2>1, <3>4 DEF Alert, Present
      <4>2. top' = "badLogin" /\ UNCHANGED tabVars
        BY <2>1, <3>4, <4>1
      <4>3. Presenting'
        BY <2>1, <2>4, <3>4, <4>1, <4>2 DEF Presenting
      <4> QED BY <4>3 DEF Phases
    <3> QED BY <3>1, <3>2, <3>3, <3>4
  <2> QED BY <2>1, <2>2, <2>3, <2>4 DEF Phases, SignedIn, Registering
<1>5. CASE ShowAnotherTabBar
  <2> DEFINE s == [token |-> token, by |-> "rating", of |-> 0]
  <2>1. /\ top = "tabs" /\ top' = "tabs" /\ UNCHANGED <<mainQueue, netVars, idVars>>
        /\ sockets' = Append(sockets, s)
    BY <1>5 DEF ShowAnotherTabBar, OpenTabBar
  <2>2. CASE SignedIn
    BY <2>1, <2>2 DEF Phases, SignedIn
  <2>3. CASE Registering
    <3>1. sockets \in Seq(Socket) /\ sockets # <<>>
      BY <2>3 DEF TypeOK, Registering
    <3> HIDE DEF s
    <3>2. sockets' # <<>> /\ sockets'[1] = sockets[1]
      BY <2>1, <3>1
    <3>3. Registering'
      BY <2>1, <2>3, <3>2 DEF Registering
    <3> QED BY <3>3 DEF Phases
  <2> QED BY <2>1, <2>2, <2>3 DEF Phases, SignedOut, Handling, Presenting, Unseen
<1>6. CASE (\E s \in Screens : LoadScreen(s)) \/ UNCHANGED vars
  <2>1. UNCHANGED <<uiVars, netVars, idVars, sockets>>
    BY <1>6 DEF LoadScreen, vars
  <2> QED BY <2>1 DEF Phases, SignedOut, Handling, Presenting, SignedIn, Registering, Unseen
<1>7. CASE Created \/ NotCreated
  <2> DEFINE r == [tap |-> 0, account |-> creating, from |-> "create"]
  <2>1. /\ creating # NoAccount /\ creating' = NoAccount /\ handler = {}
        /\ auths' \in {auths, auths \cup {r}} /\ UNCHANGED <<uiVars, handler, idVars, tabVars>>
    BY <1>7 DEF Created, NotCreated
  <2>2. r \in Auth /\ r.from = "create"
    BY <2>1 DEF TypeOK, Auth
  <2>3. Registering
    BY <2>1 DEF Phases, SignedOut, Handling, Presenting, SignedIn
  <2> HIDE DEF r
  <2>4. auths = {}
    BY <2>1, <2>3 DEF Registering
  <2>5. Registering'
    BY <2>1, <2>2, <2>3, <2>4 DEF Registering
  <2> QED BY <2>5 DEF Phases
<1>8. ASSUME NEW r \in auths, AuthFailure(r) PROVE Phases'
  <2>1. /\ handler = {} /\ auths' = auths \ {r}
        /\ UNCHANGED <<uiVars, creating, handler, idVars, tabVars>>
    BY <1>8 DEF AuthFailure
  <2>2. auths' = {} /\ (SignedOut \/ Registering)
    BY <2>1 DEF Phases, SignedOut, Handling, Presenting, SignedIn, Registering
  <2>3. CASE SignedOut
    <3>1. mainQueue = <<>>
      BY <2>3 DEF SignedOut
    <3>2. SignedOut'
      BY <2>1, <2>2, <2>3, <3>1 DEF SignedOut, Unseen
    <3> QED BY <3>2 DEF Phases
  <2>4. CASE Registering
    <3>1. Registering'
      BY <2>1, <2>2, <2>4 DEF Registering
    <3> QED BY <3>1 DEF Phases
  <2> QED BY <2>2, <2>3, <2>4
<1>9. ASSUME NEW r \in auths, AuthReplied(r) PROVE Phases'
  <2>1. PICK f \in BOOLEAN :
          /\ handler' = {[reply |-> r, refused |-> f, stored |-> FALSE]}
          /\ IF f THEN r.from = "login" /\ mainQueue' = Append(mainQueue, Alert)
                  ELSE mainQueue' = mainQueue
    BY <1>9 DEF AuthReplied, Alert
  <2> DEFINE h == [reply |-> r, refused |-> f, stored |-> FALSE]
  <2>2. /\ handler = {} /\ auths' = auths \ {r} /\ r \in Auth
        /\ UNCHANGED <<top, creating, idVars, tabVars>>
    BY <1>9 DEF AuthReplied, TypeOK
  <2>3. h \in Handler /\ h.reply = r /\ h.refused = f /\ ~h.stored
    BY <2>2 DEF Handler
  <2>4. handler' = {h}
    BY <2>1
  <2> HIDE DEF h
  <2>5. auths' = {} /\ (SignedOut \/ Registering)
    BY <2>2 DEF Phases, SignedOut, Handling, Presenting, SignedIn, Registering
  <2>6. CASE SignedOut
    <3>1. mainQueue = <<>> /\ r.from = "login" /\ top = "login"
      BY <2>2, <2>6 DEF SignedOut
    <3>2. IF f THEN mainQueue' = <<Alert>> ELSE mainQueue' = <<>>
      BY <2>1, <3>1
    <3>3. Handling'
      BY <2>2, <2>3, <2>4, <2>5, <2>6, <3>1, <3>2 DEF SignedOut, Handling, Unseen
    <3> QED BY <3>3 DEF Phases
  <2>7. CASE Registering
    <3>1. r.from = "create" /\ creating = NoAccount /\ mainQueue' = mainQueue
      BY <2>1, <2>2, <2>7 DEF Registering
    <3>2. Registering'
      BY <2>2, <2>3, <2>4, <2>5, <2>7, <3>1 DEF Registering
    <3> QED BY <3>2 DEF Phases
  <2> QED BY <2>5, <2>6, <2>7
<1>10. CASE AuthWithoutToken
  <2>1. PICK h \in handler : AuthWithoutToken!(h)
    BY <1>10 DEF AuthWithoutToken
  <2>2. ~h.stored /\ handler' = {} /\ UNCHANGED <<uiVars, auths, creating, idVars, tabVars>>
    BY <2>1
  <2>3. CASE Handling
    <3>1. /\ token.account = userId /\ Unseen
          /\ \/ top \in {"login", "badLogin"} /\ mainQueue = <<>>
             \/ top = "login" /\ mainQueue = <<Alert>>
      BY <2>2, <2>3 DEF Handling
    <3>2. SignedOut'
      BY <2>2, <2>3, <3>1 DEF Handling, SignedOut, Unseen
    <3> QED BY <3>2 DEF Phases
  <2>4. CASE Registering
    <3>1. Registering'
      BY <2>2, <2>4 DEF Registering
    <3> QED BY <3>1 DEF Phases
  <2> QED BY <2>3, <2>4 DEF Phases, SignedOut, Presenting, SignedIn
<1>11. CASE AuthGranted
  <2>1. PICK h \in handler : AuthGranted!(h)
    BY <1>11 DEF AuthGranted
  <2> DEFINE g == [h EXCEPT !.stored = TRUE]
  <2>2. g \in Handler /\ g.stored /\ g.reply = h.reply /\ g.refused = h.refused
    BY DEF TypeOK, Handler
  <2>3. /\ handler' = {g} /\ token'.account = g.reply.account /\ token'.refused = g.refused
        /\ UNCHANGED <<uiVars, auths, creating, userId, tabVars>>
    BY <2>1, <2>2
  <2> HIDE DEF g
  <2>4. CASE Handling
    <3>1. /\ h.reply.from = "login"
          /\ \/ top = "login" /\ mainQueue = <<>>
             \/ h.refused /\ top = "badLogin" /\ mainQueue = <<>>
             \/ h.refused /\ top = "login" /\ mainQueue = <<Alert>>
      BY <2>4 DEF Handling
    <3>2. creating = NoAccount /\ auths = {} /\ sockets = <<>>
      BY <2>4 DEF Handling
    <3>3. Handling'
      BY <2>2, <2>3, <3>1, <3>2 DEF Handling
    <3> QED BY <3>3 DEF Phases
  <2>5. CASE Registering
    <3>1. h.reply.from = "create" /\ creating = NoAccount /\ auths = {}
      BY <2>5 DEF Registering
    <3>2. Registering'
      BY <2>2, <2>3, <2>5, <3>1 DEF Registering
    <3> QED BY <3>2 DEF Phases
  <2> QED BY <2>4, <2>5 DEF Phases, SignedOut, Presenting, SignedIn
<1>13. CASE FinishGranted
  <2>1. PICK h \in handler : FinishGranted!(h)
    BY <1>13 DEF FinishGranted
  <2>2. /\ h.stored /\ handler' = {} /\ userId' = h.reply.account
        /\ UNCHANGED <<top, auths, creating, token, tabVars>>
        /\ mainQueue' = IF h.reply.from = "login" THEN Append(mainQueue, Present(token.n))
                                                  ELSE mainQueue
        /\ h.reply.account # NoAccount /\ token.n \in Nat
    BY <2>1, AccountsAssumption DEF TypeOK, Handler, Auth, Token, Present
  <2>3. CASE Handling
    <3>1. /\ h.reply.from = "login"
          /\ token.account = h.reply.account /\ token.refused = h.refused
          /\ \/ top = "login" /\ mainQueue = <<>>
             \/ h.refused /\ top = "badLogin" /\ mainQueue = <<>>
             \/ h.refused /\ top = "login" /\ mainQueue = <<Alert>>
      BY <2>2, <2>3 DEF Handling
    <3>2. mainQueue' = Append(mainQueue, Present(token.n))
      BY <2>2, <3>1
    <3>3. \/ mainQueue = <<>> /\ mainQueue' = <<Present(token.n)>>
          \/ mainQueue = <<Alert>> /\ mainQueue' = <<Alert, Present(token.n)>>
      <4>1. CASE mainQueue = <<>>
        BY <3>2, <4>1
      <4>2. CASE mainQueue = <<Alert>>
        <5>1. mainQueue' = Append(<<Alert>>, Present(token.n))
          BY <3>2, <4>2
        <5> QED BY <4>2, <5>1, AppendToOne
      <4> QED BY <3>1, <4>1, <4>2
    <3>4. creating = NoAccount /\ auths = {} /\ sockets = <<>>
      BY <2>3 DEF Handling
    <3>5. Presenting'
      BY <2>2, <3>1, <3>3, <3>4 DEF Presenting
    <3> QED BY <3>5 DEF Phases
  <2>4. CASE Registering
    <3>1. h.reply.from = "create" /\ token.account = h.reply.account /\ creating = NoAccount /\ auths = {}
      BY <2>2, <2>4 DEF Registering
    <3>2. SignedIn'
      BY <2>2, <2>4, <3>1 DEF Registering, SignedIn
    <3> QED BY <3>2 DEF Phases
  <2> QED BY <2>3, <2>4 DEF Phases, SignedOut, Presenting, SignedIn
<1> QED
  BY <1>1, <1>2, <1>3, <1>4, <1>5, <1>6, <1>7, <1>8, <1>9, <1>10, <1>11,
     <1>12, <1>13
  DEF Next, User, MainThread, NetworkQueue

LEMMA PatientInit == Init => PatientInv
  BY DEF Init, PatientInv, Phases, SignedOut, AskedInv, PatientRequestsAreOwn, Unseen, NoToken

LEMMA PatientStep ==
  ASSUME TypeOK, SocketInv, PatientInv, [Next]_vars
  PROVE  PatientInv'
<1>1. hurried' \/ Phases'
  BY HurriedStays, PhaseStep DEF PatientInv
<1>2. CASE sockets' = sockets /\ asked' = asked
  BY <1>1, <1>2, HurriedStays DEF PatientInv, AskedInv, PatientRequestsAreOwn
<1>3. CASE asked' = asked /\ \E s \in Socket : sockets' = Append(sockets, s)
  <2>1. PICK s \in Socket : sockets' = Append(sockets, s)
    BY <1>3
  <2>2. sockets \in Seq(Socket)
    BY DEF TypeOK
  <2>3. sockets' # <<>> /\ (sockets # <<>> => sockets'[1] = sockets[1])
    BY <2>1, <2>2
  <2> QED BY <1>1, <1>3, <2>3, HurriedStays DEF PatientInv, AskedInv, PatientRequestsAreOwn
<1>4. CASE /\ sockets' = sockets /\ top = "tabs"
           /\ asked' = asked \cup {[token |-> token, user |-> userId]}
  <2>1. AskedInv'
    BY <1>4 DEF SocketInv, TabsInv, AskedInv
  <2>2. hurried \/ SignedIn \/ Registering
    BY <1>4 DEF PatientInv, Phases, SignedOut, Handling, Presenting
  <2>3. PatientRequestsAreOwn'
    BY <1>4, <2>2, HurriedStays DEF PatientInv, PatientRequestsAreOwn, SignedIn, Registering
  <2> QED BY <1>1, <2>1, <2>3 DEF PatientInv
<1> QED BY <1>2, <1>3, <1>4, SocketsGrow

LEMMA PatientInvariant == Spec => [](TypeOK /\ SocketInv /\ PatientInv)
<1>1. TypeOK /\ SocketInv /\ PatientInv /\ [Next]_vars => PatientInv'
  BY PatientStep
<1> QED BY <1>1, PatientInit, SocketInvariant, PTL DEF Spec

(* The requests of a user who waits for each answer name the account of    *)
(* their token, or on the way through a registration whoever the client    *)
(* was when its tab bar opened                                             *)
(* (LoginController 106-107, CreateViewController 133-134,                 *)
(* GroupViewController 48, ProfileController 38-44).                       *)
THEOREM PatientRequestsAreOwnHolds == Spec => []PatientRequestsAreOwn
<1>1. PatientInv => PatientRequestsAreOwn
  BY DEF PatientInv
<1> QED BY <1>1, PatientInvariant, PTL

(* A token that a reply of good status gave to a user who waits for each   *)
(* answer is not shown yet only while its handler runs or its block is     *)
(* next, with nothing in the way, whatever alerts earlier replies queued   *)
(* (LoginController 85-119).                                               *)
THEOREM GrantedIsOnItsWayHolds == Spec => []GrantedIsOnItsWay
<1>1. PatientInv => GrantedIsOnItsWay
  <2> SUFFICES ASSUME PatientInv, ~hurried, token # NoToken, ~token.refused, top # "tabs"
               PROVE  /\ top = "login"
                      /\ handler # {} \/ (mainQueue # <<>> /\ Head(mainQueue).kind = "present")
    BY DEF GrantedIsOnItsWay
  <2>1. ~Unseen
    BY DEF Unseen
  <2>2. Handling \/ Presenting
    BY <2>1 DEF PatientInv, Phases, SignedOut, SignedIn, Registering
  <2>3. CASE Handling
    BY <2>1, <2>3 DEF Handling
  <2>4. CASE Presenting
    <3>1. PICK n \in Nat : mainQueue = <<Present(n)>> /\ top = "login"
      BY <2>4 DEF Presenting
    <3> QED BY <3>1 DEF Present
  <2> QED BY <2>2, <2>3, <2>4
<1> QED BY <1>1, PatientInvariant, PTL
=============================================================================
