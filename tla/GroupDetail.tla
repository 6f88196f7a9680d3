---------------------------- MODULE GroupDetail ----------------------------
(***************************************************************************)
(* The screen of one group, DetailViewController: the list of its events,  *)
(* behind the slot completionForSingleEvent, and the screen that starts an *)
(* event, NewEventMainController.                                          *)
(*                                                                         *)
(* Each group opened gets a view of its own, which puts its closure into   *)
(* the slot.  The slot names neither the group nor the request: whatever   *)
(* event arrives is appended to the list of the newest view, so older      *)
(* views need no state.                                                    *)
(***************************************************************************)
EXTENDS SequencesExt

CONSTANTS
  Groups,     \* identifiers of groups
  NoGroup,    \* the identifier of a group row that has none (created on this device)
  Existing,   \* the groups of the events there are at first, one for each event
  MaxViews,   \* bound on the groups opened
  MaxEvents   \* bound on the events there ever are

ASSUME GroupsAssumption == NoGroup \notin Groups
ASSUME ExistingAssumption == Existing \in Seq(Groups)
ASSUME BoundsAssumption == MaxViews \in Nat /\ MaxEvents \in Nat

(* An event: its identifier is its place among all that were requested.    *)
Event == [id : Nat, group : Groups]

(* A request: PUT /api/event/rating, GET /api/event?gid or                 *)
(* GET /api/event/rating/<id>, with the view it was issued for.            *)
Start == [event : Event, view : Nat, recorded : BOOLEAN]
Listing == [group : Groups, view : Nat]
Fetch == [event : Event, view : Nat, by : {"listing", "start"}]

VARIABLES
  top,       \* the screen on top
  view,      \* number of views opened; the newest owns the slot
  group,     \* its storageIdGroup
  list,      \* its currentEventList
  reload,    \* is a reloadData of its table queued on the main thread?
  rows,      \* the rows of its table
  active,    \* the server's active events
  listings, starts, fetches,  \* requests in flight
  trap,      \* has data! ended the process?
  \* history, for the bound and the properties
  count,     \* events there are or have been asked for
  lateOpen,  \* was the newest view opened with requests outstanding?
  overlap,   \* was an event started from it before its listing had come?
  due        \* identifiers of events it asked for that no failure has cost it

viewVars == <<view, group, list, reload, rows>>
netVars  == <<listings, starts, fetches>>
histVars == <<count, lateOpen, overlap, due>>
vars == <<top, viewVars, active, netVars, trap, histVars>>

Init ==
  /\ top = "groups"
  /\ view = 0 /\ group = NoGroup /\ list = <<>> /\ reload = FALSE /\ rows = 0
  /\ active = {[id |-> i, group |-> Existing[i]] : i \in DOMAIN Existing}
  /\ listings = {} /\ starts = {} /\ fetches = {}
  /\ trap = FALSE
  /\ count = Len(Existing) /\ lateOpen = FALSE /\ overlap = FALSE /\ due = {}

Running == ~trap
Outstanding == listings # {} \/ starts # {} \/ fetches # {}

-----------------------------------------------------------------------------
(* Main thread.                                                            *)

(* Mutant: one view for all groups, whose table keeps its rows.            *)
OpenGroupInSameView(g) ==
  /\ Running /\ top = "groups" /\ view < MaxViews
  /\ top' = "detail"
  /\ view' = view + 1 /\ group' = g
  /\ list' = <<>> /\ reload' = TRUE
  /\ listings' = listings \cup {[group |-> h, view |-> view + 1] : h \in {g} \cap Groups}
  /\ lateOpen' = Outstanding /\ overlap' = FALSE /\ due' = {}
  /\ UNCHANGED <<rows, active, starts, fetches, trap, count>>

(* A row of the groups list is tapped: viewDidLoad fills the slot and asks *)
(* for the events, of a group with an identifier.                          *)
OpenGroup(g) ==
  /\ Running /\ top = "groups" /\ view < MaxViews
  /\ top' = "detail"
  /\ view' = view + 1 /\ group' = g
  /\ list' = <<>> /\ reload' = FALSE /\ rows' = 0
  /\ listings' = listings \cup {[group |-> h, view |-> view + 1] : h \in {g} \cap Groups}
  /\ lateOpen' = Outstanding /\ overlap' = FALSE /\ due' = {}
  /\ UNCHANGED <<active, starts, fetches, trap, count>>

(* Navigation: the button for a new event; back; OK on the alert, which    *)
(* pops the screen under it; an event row, which presents the vote views,  *)
(* and the tab bar that follows them (RatingFlow).                         *)
Navigate ==
  /\ Running
  /\ \/ top = "detail" /\ top' \in {"newEvent", "groups"}
     \/ top \in {"newEvent", "started"} /\ top' = "detail"
     \/ top = "detail" /\ rows > 0 /\ top' = "rating"
     \/ top = "rating" /\ top' = "groups"
  /\ UNCHANGED <<viewVars, active, netVars, trap, histVars>>

(* didSelectRowAt, "Оценивание": the event is requested for a group with   *)
(* an identifier; in any case an alert says that it has started.           *)
StartTapped ==
  /\ Running /\ top = "newEvent"
  /\ top' = "started"
  /\ IF group = NoGroup
     THEN UNCHANGED <<starts, count, overlap, due>>
     ELSE /\ count < MaxEvents
          /\ count' = count + 1
          /\ starts' = starts \cup {[event |-> [id |-> count + 1, group |-> group],
                                     view |-> view, recorded |-> FALSE]}
          /\ overlap' = (overlap \/ listings # {})
          /\ due' = due \cup {count + 1}
  /\ UNCHANGED <<viewVars, active, listings, fetches, trap, lateOpen>>

Reload ==
  /\ Running /\ reload
  /\ reload' = FALSE
  /\ rows' = Len(list)
  /\ UNCHANGED <<top, view, group, list, active, netVars, trap, histVars>>

-----------------------------------------------------------------------------
(* The server.                                                             *)
RecordStart(s) ==
  /\ s \in starts /\ ~s.recorded
  /\ active' = active \cup {s.event}
  /\ starts' = (starts \ {s}) \cup {[s EXCEPT !.recorded = TRUE]}
  /\ UNCHANGED <<top, viewVars, listings, fetches, trap, histVars>>

-----------------------------------------------------------------------------
(* URLSession's queue.                                                     *)

(* Mutant: the request lacks the group.                                    *)
ListingReplyOfAll(l) ==
  /\ Running /\ l \in listings
  /\ listings' = listings \ {l}
  /\ fetches' = fetches \cup {[event |-> e, view |-> l.view, by |-> "listing"] : e \in active}
  /\ due' = due \cup {e.id : e \in {e \in active : l.view = view}}
  /\ UNCHANGED <<top, viewVars, active, starts, trap, count, lateOpen, overlap>>

(* getEventsInGroup: one request for each event the server names.          *)
ListingReply(l) ==
  /\ Running /\ l \in listings
  /\ listings' = listings \ {l}
  /\ LET named == {e \in active : e.group = l.group}
     IN /\ fetches' = fetches \cup {[event |-> e, view |-> l.view, by |-> "listing"] : e \in named}
        /\ due' = due \cup {e.id : e \in {e \in named : l.view = view}}
  /\ UNCHANGED <<top, viewVars, active, starts, trap, count, lateOpen, overlap>>

ListingFailure(l) ==
  /\ Running /\ l \in listings
  /\ listings' = listings \ {l}
  /\ UNCHANGED <<top, viewVars, active, starts, fetches, trap, histVars>>

(* Mutant: the event is fetched and the list asked for again.              *)
StartReplyLists(s) ==
  /\ Running /\ s \in starts /\ s.recorded
  /\ starts' = starts \ {s}
  /\ fetches' = fetches \cup {[event |-> s.event, view |-> s.view, by |-> "start"]}
  /\ listings' = listings \cup {[group |-> s.event.group, view |-> s.view]}
  /\ UNCHANGED <<top, viewVars, active, trap, histVars>>

(* Mutant: the identifier only goes to completionForNewEvent, which nobody *)
(* fills.                                                                  *)
StartReplyOnlyTells(s) ==
  /\ Running /\ s \in starts /\ s.recorded
  /\ starts' = starts \ {s}
  /\ UNCHANGED <<top, viewVars, active, listings, fetches, trap, histVars>>

(* creatingNewGroup: the reply names the event.  The slot                  *)
(* completionForNewEvent, called after this, is never filled.              *)
StartReply(s) ==
  /\ Running /\ s \in starts /\ s.recorded
  /\ starts' = starts \ {s}
  /\ fetches' = fetches \cup {[event |-> s.event, view |-> s.view, by |-> "start"]}
  /\ UNCHANGED <<top, viewVars, active, listings, trap, histVars>>

(* The reply names no event, or there is no body and data! traps.          *)
StartFailure(s) ==
  /\ Running /\ s \in starts
  /\ starts' = starts \ {s}
  /\ trap' \in BOOLEAN
  /\ due' = due \ {s.event.id}
  /\ UNCHANGED <<top, viewVars, active, listings, fetches, count, lateOpen, overlap>>

(* gettingFullInfoAboutEvent calls the slot: getInfoAboutEvent's closure.  *)
FetchReply(f) ==
  /\ Running /\ f \in fetches
  /\ fetches' = fetches \ {f}
  /\ list' = Append(list, f.event)
  /\ reload' = TRUE
  /\ UNCHANGED <<top, view, group, rows, active, listings, starts, trap, histVars>>

FetchFailure(f) ==
  /\ Running /\ f \in fetches
  /\ fetches' = fetches \ {f}
  /\ due' = due \ {f.event.id}
  /\ UNCHANGED <<top, viewVars, active, listings, starts, trap, count, lateOpen, overlap>>

-----------------------------------------------------------------------------
User == Navigate \/ StartTapped \/ \E g \in Groups \cup {NoGroup} : OpenGroup(g)
Server == \E s \in starts : RecordStart(s)
NetworkQueue ==
  \/ \E l \in listings : ListingReply(l) \/ ListingFailure(l)
  \/ \E s \in starts : StartReply(s) \/ StartFailure(s)
  \/ \E f \in fetches : FetchReply(f) \/ FetchFailure(f)

Next == User \/ Reload \/ Server \/ NetworkQueue
Spec == Init /\ [][Next]_vars
(* Queued blocks run, and every request ends with a reply or a failure.    *)
FairSpec == Spec /\ WF_vars(Reload) /\ WF_vars(NetworkQueue)

-----------------------------------------------------------------------------
(* Types.  In particular the table never has more rows than the list has   *)
(* elements: cellForRowAt and didSelectRowAt index within it.              *)
TypeOK ==
  /\ top \in {"groups", "detail", "newEvent", "started", "rating"}
  /\ view \in Nat /\ group \in Groups \cup {NoGroup}
  /\ list \in Seq(Event)
  /\ reload \in BOOLEAN /\ rows \in 0..Len(list)
  /\ active \subseteq Event
  /\ listings \subseteq Listing /\ starts \subseteq Start /\ fetches \subseteq Fetch
  /\ trap \in BOOLEAN
  /\ count \in Nat /\ lateOpen \in BOOLEAN /\ overlap \in BOOLEAN
  /\ due \subseteq Nat

(* A group opened with nothing outstanding lists events of its own only.   *)
(* (Opened while an earlier group's requests are under way, it may list    *)
(* that group's events: DetailViewController 80-83.)                       *)
OwnUnlessLate == lateOpen \/ \A i \in DOMAIN list : list[i].group = group

(* It lists each event once, provided also that no event was started from  *)
(* it before its listing had come; such an event can come from both        *)
(* (EventsInGroupNetworking 40, CreateNewEvent 46).                        *)
OnceUnlessOverlap ==
  lateOpen \/ overlap \/
    \A i, j \in DOMAIN list : list[i].id = list[j].id => i = j

(* Nothing the open group asked for is forgotten on its way to the table:  *)
(* as long as no request for it fails it is being started or fetched, or   *)
(* in the list, in a row of its own or with the reload queued that gives   *)
(* it one (DetailViewController 80-97, CreateNewEvent 40-52).              *)
DueIsUnderWay ==
  \A e \in due :
    \/ \E s \in starts : s.event.id = e
    \/ \E f \in fetches : f.event.id = e
    \/ \E i \in DOMAIN list : list[i].id = e /\ (i <= rows \/ reload)

(* What the open group asked for comes up in its table, be it listed or    *)
(* announced as started, unless a request for it fails or another group is *)
(* opened.  (The alert "Событие началось" is shown whatever happens to the *)
(* request: NewEventMainController 75-84.)                                 *)
DueComesUp ==
  \A e \in 1..MaxEvents :
    e \in due ~> \/ \E i \in 1..rows : list[i].id = e
                 \/ e \notin due
                 \/ trap
=============================================================================
