---------------------------- MODULE Invitations ----------------------------
(***************************************************************************)
(* The screen of pending invitations: EventController with its cells, the  *)
(* requests it issues (CurrentInvitationsNetwork, SearchUserNetworking,    *)
(* InvitationResponse), and the pushes that reach it through               *)
(* WebSocketNetworking, SingleInfoAboutInvitation and the callback slot    *)
(* DataProvider.completionHandler.                                         *)
(*                                                                         *)
(* Two threads share arrList.  The main thread runs viewDidLoad, the taps, *)
(* the websocket delegate, the table's data source and the blocks queued   *)
(* with DispatchQueue.main.async.  URLSession's serial delegate queue runs *)
(* the completion handlers of requests.  One action below is one callback  *)
(* of either thread, and the two interleave freely.                        *)
(***************************************************************************)
EXTENDS SequencesExt

CONSTANTS
  Invites,     \* invitations other users may send to this one
  Sockets,     \* open sockets, one for each TabBarController shown so far
  Users,       \* users who send invitations
  Initiator,   \* who sent each invitation
  MaxAnswers,  \* bound on the taps on a cell's two buttons
  Overlap      \* may the user tap while an earlier answer is outstanding?

NoName == "noName"
ListOrigin == "list"

ASSUME InitiatorAssumption == Initiator \in [Invites -> Users]
ASSUME MaxAnswersAssumption == MaxAnswers \in Nat
ASSUME OverlapAssumption == Overlap \in BOOLEAN
ASSUME SocketsAssumption == Sockets # {} /\ ListOrigin \notin Sockets

(***************************************************************************)
(* An element of arrList: an invitation and the way it came to the phone.  *)
(* The server lists an invitation once and announces it once per socket,   *)
(* so an entry stands for one delivery.                                    *)
(***************************************************************************)
Entry == [inv : Invites, origin : {ListOrigin} \cup Sockets]

Kind == {"confirmed", "denied"}

(* A cell keeps the row and the invitation it was configured with.  epoch  *)
(* is the number of removals at that time, for the properties only.        *)
Cell == [row : Nat \ {0}, entry : Entry, name : Users \cup {NoName}, epoch : Nat]

Answer == [id : Nat \ {0}, kind : Kind, row : Nat \ {0}, entry : Entry, epoch : Nat]

VARIABLES
  \* the server and the network
  created,     \* invitations sent so far
  socket,      \* state of each socket: nothing reconnects a closed one
  pushes,      \* announcements on their way to the phone
  snapshot,    \* what the server read for GET /api/invitation
  \* requests in flight
  listing,     \* GET /api/invitation: not issued, issued, read, finished
  details,     \* GET /api/invitation/<id>
  names,       \* GET /api/user/<initiator>, one for each listed entry
  answers,     \* POST /api/invitation/<id>
  \* EventController
  arrList,     \* its invitations
  lastName,    \* the last of userList, the only one cellForRowAt uses
  \* UIKit
  reloads,     \* queued reloadData blocks
  rows,        \* rows the table believes it has
  cells,       \* cells configured since the last reload
  trap,        \* the run-time failure that stopped the process, if any
  \* history, for the properties
  taps,        \* answers given
  removals,    \* elements removed from arrList
  accepted,    \* invitations the server accepted an answer to
  arrived,     \* entries appended to arrList
  lost         \* invitations some delivery of which failed

netVars   == <<created, socket, pushes, snapshot>>
reqVars   == <<listing, details, names, answers>>
listVars  == <<arrList, lastName>>
tableVars == <<reloads, rows, cells>>
histVars  == <<taps, removals, accepted, arrived, lost>>
vars == <<netVars, reqVars, listVars, tableVars, trap, histVars>>

ListedEntry(i) == [inv |-> i, origin |-> ListOrigin]
Running == trap = "none"

Init ==
  /\ created = {} /\ socket = [s \in Sockets |-> "connecting"] /\ pushes = {} /\ snapshot = {}
  /\ listing = "unissued" /\ details = {} /\ names = {} /\ answers = {}
  /\ arrList = <<>> /\ lastName = NoName
  /\ reloads = 0 /\ rows = 0 /\ cells = {}
  /\ trap = "none"
  /\ taps = 0 /\ removals = 0 /\ accepted = {} /\ arrived = {} /\ lost = {}

-----------------------------------------------------------------------------
(* The server and the network.                                             *)

OpenSockets == {s \in Sockets : socket[s] = "open"}

(* Another user sends invitation i; the server announces it on every       *)
(* socket that is open.                                                    *)
SendInvitation(i) ==
  /\ i \in Invites \ created
  /\ created' = created \cup {i}
  /\ pushes' = pushes \cup {[inv |-> i, origin |-> s] : s \in OpenSockets}
  /\ lost' = IF OpenSockets = Sockets THEN lost ELSE lost \cup {i}
  /\ UNCHANGED <<socket, snapshot, reqVars, listVars, tableVars, trap,
                 taps, removals, accepted, arrived>>

(* The handshake that startConnectingToWS began succeeds.                  *)
Connect(s) ==
  /\ socket[s] = "connecting"
  /\ socket' = [socket EXCEPT ![s] = "open"]
  /\ UNCHANGED <<created, pushes, snapshot, reqVars, listVars, tableVars, trap,
                 histVars>>

(* websocketDidDisconnect only logs: the socket stays closed, and what was *)
(* on its way is lost.                                                     *)
Disconnect(s) ==
  LET onIt == {p \in pushes : p.origin = s}
  IN /\ socket[s] # "closed"
     /\ socket' = [socket EXCEPT ![s] = "closed"]
     /\ pushes' = pushes \ onIt
     /\ lost' = lost \cup {p.inv : p \in onIt}
     /\ UNCHANGED <<created, snapshot, reqVars, listVars, tableVars, trap,
                    taps, removals, accepted, arrived>>

(* The server handles GET /api/invitation.                                 *)
ReadInvitations ==
  /\ listing = "issued"
  /\ listing' = "read"
  /\ snapshot' = created
  /\ UNCHANGED <<created, socket, pushes, details, names, answers,
                 listVars, tableVars, trap, histVars>>

-----------------------------------------------------------------------------
(* Main thread: loading the screen, announcements, the table.              *)

(* viewDidLoad, when the tab is first selected: the list is requested and  *)
(* the slot completionHandler is filled.  The table loads its data at its  *)
(* first layout, which is one more pending reload.                         *)
OpenTab ==
  /\ Running
  /\ listing = "unissued"
  /\ listing' = "issued"
  /\ reloads' = reloads + 1
  /\ UNCHANGED <<netVars, details, names, answers, listVars, rows, cells,
                 trap, histVars>>

(* Mutant: the slot is filled when the list arrives.                       *)
HandlerRegisteredLate == listing = "finished"

(* The slot completionHandler is filled from viewDidLoad on.               *)
HandlerRegistered == listing # "unissued"

(* websocketDidReceiveMessage: an announcement that decodes makes the app  *)
(* ask for the invitation; any other is dropped.                           *)
ReceiveMessage(p) ==
  /\ Running
  /\ p \in pushes
  /\ pushes' = pushes \ {p}
  /\ \/ details' = details \cup {p} /\ lost' = lost
     \/ details' = details /\ lost' = lost \cup {p.inv}
  /\ UNCHANGED <<created, socket, snapshot, listing, names, answers,
                 listVars, tableVars, trap, taps, removals, accepted, arrived>>

(* Mutant: the number of rows is the last index.                           *)
ReloadLastIndex ==
  /\ Running
  /\ reloads > 0
  /\ reloads' = reloads - 1
  /\ rows' = Len(arrList) - 1
  /\ cells' = {}
  /\ UNCHANGED <<netVars, reqVars, listVars, trap, histVars>>

(* Mutant: the number of rows includes a row to come.                      *)
ReloadRowTooMany ==
  /\ Running
  /\ reloads > 0
  /\ reloads' = reloads - 1
  /\ rows' = Len(arrList) + 1
  /\ cells' = {}
  /\ UNCHANGED <<netVars, reqVars, listVars, trap, histVars>>

(* Mutant: the block does not reach the table.                             *)
ReloadForgotten ==
  /\ Running
  /\ reloads > 0
  /\ reloads' = reloads - 1
  /\ rows' = rows
  /\ cells' = cells
  /\ UNCHANGED <<netVars, reqVars, listVars, trap, histVars>>

(* A queued block runs reloadData: the table asks for the number of rows   *)
(* and drops its cells.                                                    *)
Reload ==
  /\ Running
  /\ reloads > 0
  /\ reloads' = reloads - 1
  /\ rows' = Len(arrList)
  /\ cells' = {}
  /\ UNCHANGED <<netVars, reqVars, listVars, trap, histVars>>

(* cellForRowAt, for a row that comes into view.  arrList[indexPath.row]   *)
(* traps when the list has become shorter since the table counted it.      *)
Render(r) ==
  /\ Running
  /\ r \in 1..rows
  /\ \A c \in cells : c.row # r
  /\ IF r <= Len(arrList)
       THEN /\ cells' = cells \cup {[row |-> r, entry |-> arrList[r],
                                     name |-> lastName, epoch |-> removals]}
            /\ trap' = trap
       ELSE /\ trap' = "render"
            /\ cells' = cells
  /\ UNCHANGED <<netVars, reqVars, listVars, reloads, rows, histVars>>

(* Overlap = FALSE is a user who answers one invitation and waits until    *)
(* the table has been reloaded before answering another.                   *)
MayTap == Overlap \/ (answers = {} /\ reloads = 0)

(* confirmTapped and deniedTapped: the answer is posted for the cell's     *)
(* invitation, and the completion handler captures the cell's row.         *)
Tap(c, kind) ==
  /\ Running
  /\ c \in cells
  /\ MayTap
  /\ taps < MaxAnswers
  /\ taps' = taps + 1
  /\ answers' = answers \cup {[id |-> taps', kind |-> kind, row |-> c.row,
                               entry |-> c.entry, epoch |-> c.epoch]}
  /\ UNCHANGED <<netVars, listing, details, names, listVars, tableVars, trap,
                 removals, accepted, arrived, lost>>

-----------------------------------------------------------------------------
(* URLSession's queue: the completion handlers.                            *)

(* The list arrives: one request is issued for each identifier in it.      *)
ListReply ==
  /\ Running
  /\ listing = "read"
  /\ listing' = "finished"
  /\ details' = details \cup {ListedEntry(i) : i \in snapshot}
  /\ UNCHANGED <<netVars, names, answers, listVars, tableVars, trap, histVars>>

(* No data, no JSON or no "invites": nothing is listed.                    *)
ListFailure ==
  /\ Running
  /\ listing = "read"
  /\ listing' = "finished"
  /\ lost' = lost \cup snapshot
  /\ UNCHANGED <<netVars, details, names, answers, listVars, tableVars, trap,
                 taps, removals, accepted, arrived>>

(* Mutant: the newest invitation comes first.                              *)
ListedDetailFirst(e) ==
  /\ Running
  /\ e \in details
  /\ e.origin = ListOrigin
  /\ details' = details \ {e}
  /\ arrList' = <<e>> \o arrList
  /\ arrived' = arrived \cup {e}
  /\ reloads' = reloads + 1
  /\ names' = names \cup {e}
  /\ UNCHANGED <<netVars, listing, answers, lastName, rows, cells, trap,
                 taps, removals, accepted, lost>>

(* Mutant: both delivery paths append it.                                  *)
ListedDetailTwice(e) ==
  /\ Running
  /\ e \in details
  /\ e.origin = ListOrigin
  /\ details' = details \ {e}
  /\ arrList' = arrList \o <<e, e>>
  /\ arrived' = arrived \cup {e}
  /\ reloads' = reloads + 1
  /\ names' = names \cup {e}
  /\ UNCHANGED <<netVars, listing, answers, lastName, rows, cells, trap,
                 taps, removals, accepted, lost>>

(* The body of a listed invitation arrives: it is appended, a reload is    *)
(* queued and the initiator's name requested.                              *)
ListedDetail(e) ==
  /\ Running
  /\ e \in details
  /\ e.origin = ListOrigin
  /\ details' = details \ {e}
  /\ arrList' = Append(arrList, e)
  /\ arrived' = arrived \cup {e}
  /\ reloads' = reloads + 1
  /\ names' = names \cup {e}
  /\ UNCHANGED <<netVars, listing, answers, lastName, rows, cells, trap,
                 taps, removals, accepted, lost>>

(* Without a body the reply is dropped, but a body that is not an          *)
(* invitation stops the process (try!).                                    *)
ListedDetailFailure(e) ==
  /\ Running
  /\ e \in details
  /\ e.origin = ListOrigin
  /\ details' = details \ {e}
  /\ lost' = lost \cup {e.inv}
  /\ trap' \in {"none", "decode"}
  /\ UNCHANGED <<netVars, listing, names, answers, listVars, tableVars,
                 taps, removals, accepted, arrived>>

(* The body of an announced invitation arrives: it goes to the slot, whose *)
(* closure appends it and queues no reload.  An empty slot drops it.       *)
PushedDetail(e) ==
  /\ Running
  /\ e \in details
  /\ e.origin # ListOrigin
  /\ details' = details \ {e}
  /\ IF HandlerRegistered
       THEN arrList' = Append(arrList, e) /\ arrived' = arrived \cup {e}
       ELSE arrList' = arrList /\ arrived' = arrived
  /\ UNCHANGED <<netVars, listing, names, answers, lastName, tableVars, trap,
                 taps, removals, accepted, lost>>

(* Here an undecodable body is caught.                                     *)
PushedDetailFailure(e) ==
  /\ Running
  /\ e \in details
  /\ e.origin # ListOrigin
  /\ details' = details \ {e}
  /\ lost' = lost \cup {e.inv}
  /\ UNCHANGED <<netVars, listing, names, answers, listVars, tableVars, trap,
                 taps, removals, accepted, arrived>>

(* The initiator's profile arrives and is appended to userList.            *)
NameReply(e) ==
  /\ Running
  /\ e \in names
  /\ names' = names \ {e}
  /\ lastName' = Initiator[e.inv]
  /\ reloads' = reloads + 1
  /\ UNCHANGED <<netVars, listing, details, answers, arrList, rows, cells,
                 trap, histVars>>

(* A profile with no name, image or id is dropped.                         *)
NameFailure(e) ==
  /\ Running
  /\ e \in names
  /\ names' = names \ {e}
  /\ UNCHANGED <<netVars, listing, details, answers, listVars, tableVars,
                 trap, histVars>>

(* Mutant: the removal queues no reload.                                   *)
AnswerReplyNoReload(a) ==
  /\ Running
  /\ a \in answers
  /\ answers' = answers \ {a}
  /\ accepted' = accepted \cup {a.entry}
  /\ IF a.row <= Len(arrList)
       THEN /\ arrList' = RemoveAt(arrList, a.row)
            /\ removals' = removals + 1
            /\ reloads' = reloads
            /\ trap' = trap
       ELSE /\ trap' = "remove"
            /\ UNCHANGED <<arrList, removals, reloads>>
  /\ UNCHANGED <<netVars, listing, details, names, lastName, rows, cells,
                 taps, arrived, lost>>

(* Mutant: the last element is removed.                                    *)
AnswerReplyRemovesLast(a) ==
  /\ Running
  /\ a \in answers
  /\ answers' = answers \ {a}
  /\ accepted' = accepted \cup {a.entry}
  /\ IF a.row <= Len(arrList)
       THEN /\ arrList' = Front(arrList)
            /\ removals' = removals + 1
            /\ reloads' = reloads + 1
            /\ trap' = trap
       ELSE /\ trap' = "remove"
            /\ UNCHANGED <<arrList, removals, reloads>>
  /\ UNCHANGED <<netVars, listing, details, names, lastName, rows, cells,
                 taps, arrived, lost>>

(* The server accepted answer a: arrList.remove(at: index), with the index *)
(* the cell had when it was tapped; it traps when that is out of range.    *)
AnswerReply(a) ==
  /\ Running
  /\ a \in answers
  /\ answers' = answers \ {a}
  /\ accepted' = accepted \cup {a.entry}
  /\ IF a.row <= Len(arrList)
       THEN /\ arrList' = RemoveAt(arrList, a.row)
            /\ removals' = removals + 1
            /\ reloads' = reloads + 1
            /\ trap' = trap
       ELSE /\ trap' = "remove"
            /\ UNCHANGED <<arrList, removals, reloads>>
  /\ UNCHANGED <<netVars, listing, details, names, lastName, rows, cells,
                 taps, arrived, lost>>

(* Mutant: the row is removed whatever the server says.                    *)
AnswerFailureRemoves(a) ==
  /\ Running
  /\ a \in answers
  /\ answers' = answers \ {a}
  /\ a.row <= Len(arrList)
  /\ arrList' = RemoveAt(arrList, a.row)
  /\ removals' = removals + 1
  /\ reloads' = reloads + 1
  /\ UNCHANGED <<netVars, listing, details, names, lastName, rows, cells, trap,
                 taps, accepted, arrived, lost>>

(* Any other reply, or none, is dropped: the row stays.                    *)
AnswerFailure(a) ==
  /\ Running
  /\ a \in answers
  /\ answers' = answers \ {a}
  /\ UNCHANGED <<netVars, listing, details, names, listVars, tableVars, trap,
                 histVars>>

-----------------------------------------------------------------------------
Environment ==
  \/ \E i \in Invites : SendInvitation(i)
  \/ \E s \in Sockets : Connect(s) \/ Disconnect(s)
  \/ ReadInvitations

MainThread ==
  \/ OpenTab
  \/ \E p \in pushes : ReceiveMessage(p)
  \/ Reload
  \/ \E r \in 1..rows : Render(r)
  \/ \E c \in cells, kind \in Kind : Tap(c, kind)

NetworkQueue ==
  \/ ListReply \/ ListFailure
  \/ \E e \in details : \/ ListedDetail(e) \/ ListedDetailFailure(e)
                        \/ PushedDetail(e) \/ PushedDetailFailure(e)
  \/ \E e \in names : NameReply(e) \/ NameFailure(e)
  \/ \E a \in answers : AnswerReply(a) \/ AnswerFailure(a)

Next == Environment \/ MainThread \/ NetworkQueue

Spec == Init /\ [][Next]_vars

(***************************************************************************)
(* The main queue runs its blocks and the table asks for the rows in view; *)
(* every request ends, with a reply or with URLSession's timeout.  Nothing *)
(* obliges users to tap, to open the tab or to send invitations.           *)
(***************************************************************************)
Fairness ==
  /\ WF_vars(Reload)
  /\ WF_vars(\E r \in 1..rows : Render(r))
  /\ WF_vars(ReadInvitations)
  /\ WF_vars(NetworkQueue)

FairSpec == Spec /\ Fairness

-----------------------------------------------------------------------------
(* Type invariant.                                                         *)

TypeOK ==
  /\ created \subseteq Invites
  /\ socket \in [Sockets -> {"connecting", "open", "closed"}]
  /\ pushes \subseteq Entry
  /\ snapshot \subseteq Invites
  /\ listing \in {"unissued", "issued", "read", "finished"}
  /\ details \subseteq Entry
  /\ names \subseteq Entry
  /\ answers \subseteq Answer
  /\ arrList \in Seq(Entry)
  /\ lastName \in Users \cup {NoName}
  /\ reloads \in Nat
  /\ rows \in Nat
  /\ cells \subseteq Cell
  /\ trap \in {"none", "render", "decode", "remove"}
  /\ taps \in Nat
  /\ removals \in Nat
  /\ accepted \subseteq Entry
  /\ arrived \subseteq Entry
  /\ lost \subseteq Invites

(***************************************************************************)
(* The row an answer captured when its button was tapped still holds the   *)
(* answered invitation, and so does the row of a configured cell, unless   *)
(* an element was removed since the cell was configured: what the appends  *)
(* of the two delivery paths and the reloads do never invalidates a row.   *)
(***************************************************************************)
RowIsCurrent(x) == x.row <= Len(arrList) /\ arrList[x.row] = x.entry

StaleOnlyAfterRemoval ==
  \A x \in cells \cup answers : x.epoch = removals => RowIsCurrent(x)

(***************************************************************************)
(* Once every queued reload has run, each cell on the screen shows the     *)
(* invitation its buttons act on, at its place in arrList: every removal   *)
(* queues the reload that repairs the table.                               *)
(***************************************************************************)
SettledTableIsCurrent ==
  (reloads = 0) => \A c \in cells : RowIsCurrent(c)

(***************************************************************************)
(* No index of the array traps, in remove(at:) or in cellForRowAt, before  *)
(* the first removal, however announcements, list, reloads and renders     *)
(* interleave.  After it one may: also with a single answer, when a row is *)
(* rendered before the reload that the removal queued.                     *)
(***************************************************************************)
TrapNeedsRemoval == (trap \in {"remove", "render"}) => removals > 0

(***************************************************************************)
(* An invitation all of whose deliveries succeed is not missed, whether it *)
(* was sent before or after the screen was loaded: the slot is filled      *)
(* before the server reads the list, so what the list misses the slot      *)
(* receives.                                                               *)
(***************************************************************************)
Quiet == listing = "finished" /\ pushes = {} /\ details = {}

MissedOnlyWhenLost ==
  Quiet => created \subseteq lost \cup {e.inv : e \in arrived}

(***************************************************************************)
(* The two delivery paths and any number of sockets never append one       *)
(* delivery twice, and removals are the only way elements leave.           *)
(***************************************************************************)
ElementsAccountedFor ==
  /\ \A i, j \in 1..Len(arrList) : arrList[i] = arrList[j] => i = j
  /\ Cardinality(arrived) = Len(arrList) + removals

(***************************************************************************)
(* An accepted answer removes the invitation it was about and no other,    *)
(* unless another removal came after its cell was configured.              *)
(***************************************************************************)
Accepted(a) == a \notin answers' /\ Len(arrList') < Len(arrList)

RemovesOnly(e) ==
  \E j \in 1..Len(arrList) : arrList[j] = e /\ arrList' = RemoveAt(arrList, j)

RemovesAnswered ==
  [][\A a \in answers :
       Accepted(a) /\ a.epoch = removals => RemovesOnly(a.entry)]_vars

(***************************************************************************)
(* What the cell's interface promises (an index and the invitation at that *)
(* index): an accepted answer removes the invitation it was about.         *)
(***************************************************************************)
AlwaysRemovesAnswered ==
  [][\A a \in answers : Accepted(a) => RemovesOnly(a.entry)]_vars

(***************************************************************************)
(* A listed invitation is eventually on the screen, or removed, unless the *)
(* process stops: the reload queued after each append is enough, in        *)
(* whatever order details and names arrive.  (Announced invitations have   *)
(* no such promise: their append queues no reload.)                        *)
(***************************************************************************)
OnScreen(e) == \E c \in cells : c.entry = e

ListedIsShown ==
  \A i \in Invites :
    LET e == ListedEntry(i)
    IN e \in arrived ~> (OnScreen(e) \/ e \notin Range(arrList) \/ ~Running)

(***************************************************************************)
(* A listed invitation is never stranded beyond the rows the table knows:  *)
(* removals and announced invitations appended without a reload move it    *)
(* and its neighbours, but either the table counted its row or a reload    *)
(* that will is queued.                                                    *)
(***************************************************************************)
ListedIsInTable ==
  \A j \in 1..Len(arrList) :
    arrList[j].origin = ListOrigin => j <= rows \/ reloads > 0

(***************************************************************************)
(* A user who waits for the table to settle between two answers sees the   *)
(* abstract list of PendingInvitations.                                    *)
(***************************************************************************)
Abstract == INSTANCE PendingInvitations WITH
  offered <- Range(arrList),
  asked   <- {[entry |-> a.entry, kind |-> a.kind] : a \in answers},
  settled <- accepted

ImplementsPending == Abstract!Spec
=============================================================================
