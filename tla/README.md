# Teta: a verification project

Teta (`src/TestProdSS/TestProd`) is an iOS client in Swift: people form groups,
start events in them, and rate each other after an event. The server is not
part of the repository. There are no tests and no documents; the code, its
comments and the texts of its screens say what it is meant to do.

These modules model the parts of the client in which callbacks, replies and
user actions meet in orders nobody tried, check them with TLC and prove the
main results with TLAPS.

## The system

### Threads and how components talk

- The *main thread* runs view controllers: `viewDidLoad`, button taps, table
  data sources, the websocket delegate, and blocks queued with
  `DispatchQueue.main.async` (first in, first out).
- *URLSession's delegate queue* (one, serial) runs the completion handlers of
  all requests. They change arrays and slots directly, and queue blocks on the
  main thread only for the labels and tables.
- `DataProvider.shared` is a singleton with *callback slots* (one closure each,
  overwritten by whoever registers last, keyed by nothing), the four grades of
  the rating in progress, the token and the user id.
- Views are presented over each other and never dismissed: every pass through
  login or a rating adds a new `TabBarController` with a new websocket. Nothing
  closes or reconnects a socket.

### Inventory

| component | state | operations | what is hard | what makes it right |
|---|---|---|---|---|
| Invitations (`EventController*`, `CurrentInvitationsNetwork`, `SingleInfoAboutInvitation`, `InvitationResponse`) | `arrList`, `userList`, the table's rows and cells, the row each cell remembers | list, announcements, confirm/decline, reload | two threads on `arrList`; rows captured at a tap; two delivery paths; no reload after an announcement | an answer removes its own invitation; no index trap; nothing is missed or doubled |
| Rating (`DetailViewController.didSelectRowAt`, `VoteViewController`, `SecondVoteView`, `ThirdVoteView`, `FourthVoteView`, `ResponseRating`) | event, subject, the four grade slots, the slot `completionSearchUnansweredUser` | select, look up, answer, save four times, send | a late lookup of an earlier session; grades that outlive their session | a rating is about one session's user and grades |
| Questionnaires (the same four views) | current question, sum, buttons, sliders, picks | answer, next, save | hidden buttons, values behind controls | the grade is that of a full answer sheet, and what the view shows |
| WebSocket, tab bar | one socket per tab bar | connect, receive | lost and repeated announcements | see Invitations |
| Session: `LoginController`, `CreateViewController` | token, user id | log in, register | views presented before the token is there | requests carry the token of the user |
| Group detail and events (`DetailViewController`, `EventsInGroupNetworking`, `CreateNewEvent`, `NewEventMainController`) | `currentEventList`, the slot `completionForSingleEvent` | list, create | unkeyed slot, success shown unconditionally | a group shows its own events once |
| Groups (`GroupViewController`, `AddNewGroupController`, `GroupNetworking`, `SubscriptionNetworking`) | `groupList`, the search's filtered list | load, search, open, create | selection while searching | the row tapped is the group opened |
| Members (`MembersControllerView`, `MembersInGroupNetworking`) | counter join of one request per member | load | failures, order | the list is complete or not shown |
| User search and invitation (`AddNewUserViewController`, `SearchUserNetworking`, `GroupInviteNetworking`) | users found, never shown or cleared | search, invite | replies out of order | the user of the last search is the one invited |
| Profile (`ProfileController`, `GetUserRating`) | slot `completionGettingUserRating` | load | request before the slot is filled | the rating is shown |


## The modules

| module | models |
|---|---|
| `Invitations` | the invitations screen, its requests, the sockets and the slot `completionHandler` |
| `PendingInvitations` | abstract: what that screen promises a user who answers one invitation at a time |
| `RatingFlow` | selecting an event, the lookup of whom to rate, the sequence of vote views, the rating sent |
| `Quiz` | `VoteViewController` and `SecondVoteView`, with their answer tables |
| `VoteControls` | `ThirdVoteView` (sliders) and `FourthVoteView` (toggles) |
| `Session` | login, registration, the tab bars and the token their sockets and requests carry |
| `GroupDetail` | one group's screen: its events behind the slot `completionForSingleEvent`, starting an event |
| `GroupList` | the list of groups: loading, search, the row opened, groups created and their subscription |
| `Members` | the members of a group, joined from one request each; the search for users and the invitation |
| `GroupTab` | composes `GroupList` and `Members` (`INSTANCE`): the screens of the groups tab and the identifier handed from one to the next |
| `VoteStep` | abstract: a vote view as one step of a rating. `RatingFlow`, `Quiz` and `VoteControls` all implement it, which is what lets `RatingFlow` leave the questionnaires out |
| `MC*` | instances for TLC |
| `*Proofs` | theorems |
| `NatRecursion` | lemmas: induction over the naturals and definition by recursion, for the proofs about filtered lists and answer sheets |

Definitions named `...` with a comment that begins *Mutant* are faulty variants
of the definition after them. Nothing uses them in the specifications; each
shows that some property would notice the fault.

### Invitations

One action is one callback. The main thread: `OpenTab` (`viewDidLoad`),
`ReceiveMessage` (`websocketDidReceiveMessage`), `Reload` (a queued
`reloadData`), `Render` (`cellForRowAt` for one row), `Tap` (a cell's two
buttons). URLSession's queue: `ListReply`/`ListFailure`, `ListedDetail`,
`PushedDetail`, `NameReply`, `AnswerReply` and their failures. The environment:
`SendInvitation`, `Connect`, `Disconnect`, `ReadInvitations`.

`arrList` is a sequence of *deliveries*: an invitation and the path it came by
(the list, or one of the sockets), because the same invitation legitimately
arrives over several. A cell holds the row and the delivery it was configured
with, as `currentInvitationAndIndexPath` does; an answer in flight captures both.
`trap` records the run-time failure that ended the process: an index out of
range in `cellForRowAt` or `remove(at:)`, or `try!` on a body that does not
decode.

Abstractions. An access to `arrList` is atomic: the race between the two threads
on the array's storage is represented by the interleaving of whole accesses.
All rows are in view, so that the fairness of `Render` means something; cells
are compared by their rows, not reused. An invitation without identifier (the
decoder refuses it) cannot occur. One `EventController` is modelled; those of
earlier tab bars are covered by later ones, whose registration replaces theirs.

### RatingFlow

`screen` is the view on top; `session` counts events selected, one
`VoteViewController` each. A grade is the number of the session that computed
it, a subject is a user together with the lookup that returned it, so that
properties can say where a rating's parts come from. `owner` is the session
whose closure is in the slot. Present-over-present makes older views
unreachable for touches but not for callbacks: a block in `mainQueue` names the
view it was created for and changes nothing when that is not the newest.

The alert is presented from a completion handler, off the main thread. It is
modelled as appearing at once when its view is on top and never otherwise
(UIKit refuses to present over a covered view). `UnansweredNamed` joins the
server's reading and the reply; what happens between is the profile request
that follows. `rated` is the server's knowledge; a `PUT` may be recorded or not.

### Quiz, VoteControls, VoteStep

`Quiz` holds the two answer tables with their return values and, for each
question, whether the third answer has a text; `thirdHidden` is the button's
`isHidden`, which is never reset. `VoteControls` separates what a control
*shows* (`thumb`, `selected`) from what its handler *left behind* (`value`,
`picked`), because grades are computed from the latter. `VoteStep` has one view
on top, its progress and the session that wrote each grade: a view is left with
its grade written, except a view that is *skippable* (the second: its save
button starts enabled) and has no answer. `Entry` and `After` fix the order: in
`RatingFlow` a rating begins with the first view and each leads to the next and to
no other; in `VoteControls` the third leads to the fourth; in `Quiz`, which looks at
one view at a time, each is entered and left on its own.

### Session

`top` is the view on top. The login screen is the storyboard's initial view
controller, in no navigation controller, so registration is presented over it
and nothing leads back. The main thread: `LoginTapped`, `BadPassword` (both
screens), `DismissAlert`, `OpenRegistration`, `CreateTapped` (requests the
account and presents the tab bar in one handler), `RunBlock` (the queued alert or
tab bar of a reply), `ShowAnotherTabBar` (the end of a rating), `LoadScreen`
(the groups and the profile, whose `viewDidLoad` sends requests). URLSession's
queue: `Created`/`NotCreated` for `PUT /api/user`; for `POST /api/auth`
`AuthFailure` (no body) or `AuthReplied` (a body: the login screen queues its alert
when the status is from 201 to 401, and goes on with the body all the same), then
`AuthWithoutToken`, or `AuthGranted` (the token is stored) and `FinishGranted` (the
user id is stored, the tab bar queued). They are steps of their own because the
main thread may run the alert, or read token and user id, in between; `handler`
holds the reply being handled, and the queue is serial.

A token is its account, its place among those received, so that properties
can say which of two is older, and `refused`, whether the reply that brought it
also queued the alert. A socket remembers the token it was opened with:
`startConnectingToWS` reads it once. Abstractions: a password validates or not; any
status may come with any body; a tab bar UIKit refuses to present is released
with its socket, so that it leaves nothing; a request reads the pair at once, which gives the
same pairs as reading the user id first and the token a moment later; the copy
of a registration kept in Firebase is read by nothing and left out; nothing is
persisted, so a restart is `Init`.

### GroupDetail

`view` counts the groups opened; each has a `DetailViewController` of its own
which puts its closure into `completionForSingleEvent`, so whatever event
arrives is appended to the newest view's `list` and older views need no state.
The main thread: `OpenGroup` (`viewDidLoad`: fills the slot, asks for the
events), `StartTapped` (the row "Оценивание": the request, and an alert that the
event has started, which is shown also for a group without an identifier, for
which nothing is sent), `Reload`, and `Navigate`. The server: `RecordStart`.
URLSession's queue: `ListingReply`, `StartReply`, `FetchReply` and their failures.
A listing answers with identifiers; each is fetched by a request of its own, as
is an event just started.

Histories for the properties: `lateOpen` (was the view opened with requests
outstanding), `overlap` (was an event started before the listing came), `due` (the
events the view asked for that no failure has cost it). Abstractions: the server's
reading of a listing and the reply are one step; the rows "Опрос" and
"Предложение" do nothing and are left out; `completionForNewEvent` is never
filled (the function that would is nested and never called); the members screen
and the vote views are reached through `Navigate` and modelled in `Members` and
`RatingFlow`.

### GroupList, Members, GroupTab

In `GroupList` a group is its place among all there are; `NoId` stands for the
missing identifier of a row appended by `createButtonTapped`, which the list
never learns. Rows are appended by URLSession's queue (`DetailReply`) and by the
main thread (`CreateTapped`). `shown` is what the table's cells say, `found` the
names filtered when the text changed; a reload during a search shows `found`
again. `OpenRow` looks the row up in `groupListArray`, also during a search; an
index beyond it traps. The copy of a group kept in Firebase is read by nothing
and left out.

In `Members` each opening of a screen is a *visit* (of the members) or a *screen*
(of the search), because each makes a new controller that its completions hold.
`got[v]` is the array captured by visit `v`'s closures; the code's `counter` is
always its length. `InfoReply` hands the array over when the counter equals the
number of members. The search appends one user per reply to `userList`, which
nothing shows or clears, and `InviteTapped` takes the last; without any, it sends
an invitation of an empty receiver. `hurried` records whether the user searched
again before the answers were there.

Abstractions: a group's members do not change while the model runs; a listing's
reading and reply are one step; a request for a group without an identifier is
answered with no members; the reload of the members' table is left out (the list
replaces the empty one at once); the races on the storage of the arrays are
represented by whole accesses; a user found has the identifier that
`inviteUserButtonTapped` unwraps (`getUserInfo` completes with nothing else).
`GroupTab` joins the screens: `opened` is the row tapped, `prepare(for:)` of the
detail view hands on its identifier or the empty string.

## What TLC checks

| run | instance | shows |
|---|---|---|
| `invitations` | 1 invitation, 2 sockets, 2 answers, overlapping; 660,655 states | `TypeOK`; `StaleOnlyAfterRemoval`: rows of cells and of answers in flight stay current across appends and reloads; `SettledTableIsCurrent`: with no reload queued, every cell acts on its row's invitation; `TrapNeedsRemoval`: no index traps before the first removal (after one it may, also with a single answer); `ElementsAccountedFor`; `RemovesAnswered`; `ListedIsShown` (liveness) |
| `invitations_patient` | 2 invitations, 1 socket, 2 answers, not overlapping; 4.4 million states | `MissedOnlyWhenLost`; `ImplementsPending`: refinement of `PendingInvitations` |
| `invitations_overlap` | violation | `AlwaysRemovesAnswered` fails: two answers in flight |
| `rating_flow` | 2 events, 2 members, 2 sessions; 57,729 states | `GradesOfThisSession` (three of four grades); `LateLookupOnly`; `OneRatingPerLookup`; `AlertTrueUnlessLate`; `OwnLookupIsOnItsWay`: the answer to a session's own lookup is not lost to the shared slot; `SubjectIsShown` (liveness); `ImplementsVoteStep`: the four views in their order |
| `rating_skipped` | violation | `AllGradesOfThisSession` fails: the second view skipped |
| `rating_alert` | violation | `AlertIsTrue` fails: a late empty lookup of the session before |
| `session` | 2 accounts, 2 login taps and a registration, 2 tab bars; 750,431 states | `LoginSocketIsSignedIn`: which token a tab bar's socket carries; `PairIsWhole`: token and user id are one account's but between the two writes; `PatientRequestsAreOwn`: no request mixes two accounts unless the user did not wait; `GrantedShowsTabs` (liveness): a login granted with a good status is shown |
| `quiz` | both questionnaires in full, 2 visits; 15,928 states | `AnswersHaveQuestion`, `SaveIsAllOrNone`, `GradeIsOfFullSheet`, `ImplementsVoteStep` |
| `vote_controls` | sliders up to 2, 2 visits; 166,163 states | `OnlyCarriedPicksHide`, `EfficiencyIsShown`, `LoyaltyIsOfAllQuestions`, `ImplementsVoteStep` |
| `vote_controls_carried` | violation | `CountedIsSelected` fails: a pick carried over to the next question |
| `group_events` | 2 groups with an event each, 2 views, 1 event started; 56,697 states | `OwnUnlessLate`: a group lists only its own events unless opened with requests outstanding; `OnceUnlessOverlap`: each once, unless one was started before the listing came; `DueComesUp` (liveness): what was listed or started comes up in the table unless a request fails or another group is opened |
| `group_tab` | 2 groups listed and 1 created, 2 members screens, 1 search screen with 2 searches; 1,901,038 states | `RowsOpenWhatTheyShow`: a row opens the group it shows, except during a search that has left out a group before it; `MembersOfTappedGroup`: all of that group's members, each once, or none; `PatientInvitesLatest`: whom, and to which group, an invitation goes |

Deadlock is not checked in any run: a user may stop, and a trap ends the
process.

### Bounds

Two deliveries of one invitation, or two invitations, are the least for rows to
shift; two sockets for an announcement that comes twice; two answers for one to
go stale while the other is replied to. Two sessions are the least for a late
lookup and for a stale grade, two members for a lookup to leave somebody.
Two login taps, or one and a registration, are the least for two handlers to
write token and user id, two tab bars for a second socket.
Two groups opened one after the other are the least for events of one to reach
the other's list; one event besides those that exist can be listed and started
at once. Two groups listed and one created are the least for the search to
hide a row before another, and for a row without identifier among others; two
members screens for the replies of one to come while the other is open; two
searches for their answers to overlap. The list, the join and the search share
only the row opened, and `group_tab` combines them as far as its constraint
`FewTaps` says: two searches with one members screen and no creation, two members
screens and a creation when the list's other requests are at rest.
`MaxViews`, `MaxEvents`, `MaxGroups`, `MaxScreens`, `MaxSearches`, `MaxAnswers`, `MaxSessions`, `MaxVisits`, `MaxTaps` and `MaxTabs` bound the groups,
events, searches, taps, selections, visits and tab bars. The sliders' maximum is 10 in the storyboard; 2 has a value below, at
and above the initial 1. The theorems hold for every value of these constants.

### Fairness

`Invitations` and `RatingFlow` assume weak fairness of the main queue (queued
blocks run, a presented view loads, the table asks for the rows in view), of the
server's reading, and of the network queue as a whole: every request ends with a
reply or with URLSession's timeout. Replies and failures are alternatives of one
fair action, so nothing obliges a request to succeed. Users, sockets and the
sender of invitations are not fair. `Session` likewise assumes weak fairness of the main
queue and of the network queue, and none of the user. `GroupDetail` assumes weak fairness of
the reload and of the network queue, not of the server: an unrecorded start ends
by a failure. `Quiz`, `VoteControls` and `GroupTab` have no liveness.

## What is proved

All theorems are for arbitrary constants (under the named assumptions in the
modules), from `Spec` without fairness. Every safety property of every passing
run is a theorem. For each liveness property its safety half is proved too: that
what must come is at every moment on its way (`OwnLookupIsOnItsWay`, which
`rating_flow` also checks, and `ListedIsInTable`, `GrantedIsOnItsWay` and
`DueIsUnderWay`, which no run lists). Only the fairness of the queues is left to TLC.

**Invitations** (`InvitationsProofs`): `TypeCorrect` and all the safety
properties of the two passing runs. The properties of rows are not inductive.
`TableInv` strengthens them: (1) as long as nothing was removed since, a cell's or
answer's row holds its entry; (2) if there are cells older than the last
removal, a reload is queued; (3) if no reload is queued the table's row count
does not exceed the list. Appends keep rows, a removal queues the reload and
advances the epoch, a reload empties the cells. `OnceInv` follows each delivery
through its stages (announced, requested, appended) to show it is appended
once; `NotMissedInv` says of every invitation sent that it is in the list's
snapshot or still to be read, or announced on an open socket, or arrived, or
lost. `ListedIsInTable` is inductive as it stands: a removal moves rows but queues
a reload, and what an announcement appends without one is not listed.

**Refinement** (also `InvitationsProofs`): with `Overlap = FALSE` every step of
`Spec` is a step of `PendingInvitations` or a stutter. It needs the invariant
that an answer in flight is alone and its row current, and that the server has
only accepted answers to invitations that had arrived.

**RatingFlow** (`RatingFlowProofs`): `TypeCorrect`; `GradesOfThisSession`, from
`GradesInv` (which grades a view on top implies; the newest session has sent
nothing before it is home again); `OneRatingPerLookup`, from `LookupInv`: one
lookup is in one place (in flight, in a queued block, in the newest view, in
the views after it, in a rating), only the last two may share it, and then
within one session. `RatingImplementsVoteStep` maps every action to a step of
`VoteStep` or a stutter, each save to the step into the view that comes after, and
needs only the types.

**Whom a rating is about** (also `RatingFlowProofs`): `LateLookupOnly` and
`AlertTrueUnlessLate`. `LateInv` says that whatever reaches a session once its
closure is in the slot was in flight at that moment, wherever the lookup is now;
it rests on `LookupInv` (an event's lookup is in flight for that event; no block
is queued for a session whose view has not loaded). An alert without a late
lookup was then raised by the session's own reply, and ratings are never
withdrawn. `OwnLookupIsOnItsWay` adds that the newest session keeps the slot from
its `viewDidLoad` on, also under the views that follow (`OwnInv`), so that its own
reply becomes a block for its view and no other session's lookup displaces it.

**Quiz** (`QuizProofs`): `TypeCorrect` (with the range of the grade),
`AnswersHaveQuestion`, `SaveIsAllOrNone`, and that `Quiz` implements `VoteStep`. `ViewInv` ties the question counter to the answers given,
bounds the sum by the counter, and says what each button's state implies about
it. The tables enter only through the lemma `Tables`.
`GradeIsOfFullSheet` (an action property) is proved from `SumInv`: the running sum
is the value of the sheet so far. `SheetValue` is a recursive function over the
sheet; that it exists with the values its definition says, and that one more
answer adds its own value and leaves the rest (`SheetRecursion`, `SheetAppend`), is
shown by the induction of `NatRecursion`.

**VoteControls** (`VoteControlsProofs`): `TypeCorrect`, `OnlyCarriedPicksHide`,
that `VoteControls` implements `VoteStep`, and the two action properties about
grades. `EfficiencyIsShown`: a slider is either untouched (shows 1, counts 0) or
counts what it shows (`ThumbInv`), so the sum falls short by the number of
untouched ones, a cardinality computed slider by slider. `LoyaltyIsOfAllQuestions`:
the sum so far is what the questions passed are worth (`LoyaltyInv`); the slot
is written only after the last of them (`QuizInv`).

**Session** (`SessionProofs`): `TypeCorrect`, the safety properties of the run
about tokens, `GrantedIsOnItsWay` and `TabsNeedTokenOrRegistration`.
`SocketInv`: a queued tab bar was asked for by a stored token, a handler between
its writes has stored one, no socket is ahead of `DataProvider`, and the first
tab bar is the login screen's or the registration's. `PairInv`: there is one
handler at a time, and it is of the account whose token it has stored; so the
pair is one account's whenever no handler is between its writes. `PatientInv`
walks a user who waits for each answer through five phases (signed out, with or
without the token of a reply of bad status; a handler on; tab bar queued; signed
in; registering); each step of the program leads from a phase to a phase or is
one that such a user does not take. The same phases give `GrantedIsOnItsWay`: a
token of a good reply without the application is only in the second and the
third, where the login screen is on top and no alert is queued before the tab
bar.

**GroupDetail** (`GroupDetailProofs`): `TypeCorrect`, `OwnUnlessLate`,
`OnceUnlessOverlap` and `DueIsUnderWay`. For the first, every request of the
newest view is about its group and, unless it was opened late, there are no
others. The second needs to know where an event can be: identifiers are given once (`FreshInv`); as long as
a listing is in flight nothing was started, fetched or listed (`FirstInv`); and
an event is in one place only, a start, a fetch or the list (`ApartInv`). The last
two hold for a view opened with nothing outstanding and without an overlapping
start. `DueIsUnderWay` is inductive: each reply hands its event on, from a start or
a listing to a fetch, from a fetch to the list with its reload.

**GroupTab** (`GroupTabProofs`): `TypeCorrect`, `RowsOpenWhatTheyShow`,
`MembersOfTappedGroup` and `PatientInvitesLatest`. `JoinInv` follows one visit: its
request for the group is alone; a member still asked for is not among those that
have come; those are members, each once. When as many have come as there are
members, the set of them has the members' cardinality and is a subset of it, so
it is the whole. `InviteInv` says of a user who waits that all requests in flight
are of one search, not older than any user in the list, and that the list is in
the order of the searches. `ListGood` and `TopInv` carry the identifier from the
row tapped to the invitation.

`RowsOpenWhatTheyShow` is about what the table's cells say while the list grows
under a search. `FilteredInPlace` (by induction over the list) says of a filtered
list that at each place it has the element of that place, unless an element at
or before it was left out; `RowsInv` keeps that of the rows shown and of those
found while groups are appended (`RowsKept`), the text changes and the table
reloads (`RowsReloaded`).

**Induction over data** (`NatRecursion`). The library states induction and
recursion with an operator as parameter, which the provers cannot instantiate.
Here they are stated of sets and functions: `Smallest` from the
well-foundedness of `<`, then `Induction`, `PrefixInduction` and
`FiniteRecursion` (a function on `0..n` given by its base and its step exists).
This is why `Filtered` and `SheetValue` are recursive functions.

**Only model-checked**: liveness under fairness (`ListedIsShown`,
`SubjectIsShown`, `GrantedShowsTabs`, `DueComesUp`), which the provers cannot
treat. The four runs that expect a violation show counterexamples of TLC.

## Where the code departs from what it says

1. An accepted answer removes the row its cell had when tapped
   (`EventController.swift:121`, `134`), which after another removal is another
   invitation, or past the end (`invitations_overlap`).
2. The second vote view can be saved unanswered, and the rating then carries the
   professionalism grade of an earlier session (`rating_skipped`). In the first
   session of a launch the grade is nil and no rating is sent, silently
   (`FourthVoteView.swift:75`).
3. A late reply to an earlier lookup makes the alert "no users to rate" come up
   for another event (`rating_alert`).
4. Picks of the fourth view are counted again for the next question
   (`vote_controls_carried`).

The models contain four more, without a run of their own:

5. The alert "bad login or password" does not end the handling of the reply: a
   token that comes with a bad status signs the user in behind the alert, and the
   tab bar, refused by UIKit while the alert is up, is never shown
   (`LoginController.swift:83-119`; `GrantedShowsTabs` holds of replies with a good
   status).
6. The third answers of questions 2 and 5 of the first view can never be given:
   the button is hidden by the first question and not shown again
   (`VoteViewController.swift:165`).
7. The sliders stand at 1 and count 0 until they are touched
   (`ThirdVoteView.swift:37`; `EfficiencyIsShown` states the shortfall).
8. The alert "Событие началось" (the event has started) comes before the request
   is answered, also when it fails, and without one for a group just created
   (`NewEventMainController.swift:79`; `DueComesUp` says what can be relied on).

More that the passing runs allow and their properties name as the exception: a
row rendered between a removal and its reload indexes past the end of the list
and stops the process, also with a single answer (`TrapNeedsRemoval` says it takes
a removal); an invitation announced over two sockets is listed twice; a user who
taps login again, or opens
registration, before the first answer is there may be signed in without being
shown the application, or send a request with one account's token and the
other's id (`GrantedShowsTabs` and `PatientRequestsAreOwn` except `hurried`; the
moment between the two writes in `PairIsWhole`); a group opened while another's
events are on their way lists them too (`OwnUnlessLate` except `lateOpen`); an
event started before the listing has come is listed twice (`OnceUnlessOverlap`
except `overlap`); during a search a tap opens the group at that
row of the unfiltered list (`RowsOpenWhatTheyShow`); one member whose request fails
keeps all members from being shown (`MembersOfTappedGroup`); a group created has
neither events nor members until another tab bar loads the list anew; an invitation goes to the
user whose reply came last, whom the screen does not show
(`PatientInvitesLatest` except `hurried`); and the fourth answer of the fourth
view's last question cannot be given, because the first question hides its button.

## Not modelled

- The profile: two requests and a slot whose results are shown as labels. Its
  hazard, a request sent before the slot is filled, is that of the lookup in
  `RatingFlow`; `Session` has the moment the requests are sent.
- Screens and requests nothing reaches (`PollViewController`,
  `OfferViewController`, `VoteTableViewController` but for its classes `Question`
  and `Answer`, `DeleteEvent`, `InfoAboutInvitation`), the slots nobody fills
  (`completionForNewEvent`, `completionDeletingEvent`), and
  `MainViewController`'s static lists.
- Appearance and start-up.
- The vendored pods (Starscream, Firebase with leveldb and nanopb): code of
  others that the repository carries but does not develop. The sockets are
  modelled by their delegate calls, Firebase by nothing: what is written to it is
  read by no screen.
- The server, except for what the client's requests oblige it to: it is a set of
  recorded facts with replies and failures in any order.

## Plan

Done, in order: `Invitations` with its refinement; `RatingFlow`, `Quiz`,
`VoteControls` and `VoteStep`; `Session`; `GroupDetail`; `GroupList`, `Members` and
`GroupTab`; proofs of each, of every safety property the runs check. What is left:
the profile.
