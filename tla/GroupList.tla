----------------------------- MODULE GroupList -----------------------------
(***************************************************************************)
(* The list of the user's groups, GroupViewController: loading, search,    *)
(* the row that is opened, and groups created with AddNewGroupController.  *)
(*                                                                         *)
(* Rows are only ever appended: from URLSession's queue one for each group *)
(* the server lists, from the main thread one for each group created,      *)
(* which gets no identifier.                                               *)
(***************************************************************************)
EXTENDS SequencesExt

CONSTANTS
  Names,      \* titles of groups
  Texts,      \* texts typed into the search bar
  NoText,     \* the empty text
  Matches,    \* for each text, the names that begin with it
  Listed,     \* the names of the groups the user is in at first
  MaxGroups   \* bound on the groups there ever are

ASSUME TextsAssumption == NoText \notin Texts /\ Matches \in [Texts -> SUBSET Names]
ASSUME ListedAssumption == Listed \in Seq(Names) /\ MaxGroups \in Nat /\ Len(Listed) <= MaxGroups

(* A group is known by its place among all there are.  A row may lack it.  *)
NoId == 0
Group == [id : 1..MaxGroups, name : Names]
Row == [id : 0..MaxGroups, name : Names]
Creation == [group : Group, recorded : BOOLEAN]

VARIABLES
  listing,        \* the request for the identifiers of the user's groups
  details,        \* requests for one group each
  groupList,      \* groupListArray
  text,           \* the search bar's text; isSearching says whether there is one
  found,          \* searchingGroupList
  shown,          \* the names in the table's rows
  reload,         \* is a reloadData queued on the main thread?
  opened,         \* the row opened last: what it showed and what was opened
  creations,      \* PUT /api/group in flight
  subscriptions,  \* POST /api/subscription in flight
  mine,           \* the groups the server lists for the user
  groups,         \* number of groups there are or have been asked for
  trap            \* has data! or an index ended the process?

tableVars  == <<groupList, text, found, shown, reload>>
createVars == <<creations, subscriptions, mine, groups>>
listVars == <<listing, details, tableVars, opened, createVars, trap>>

NothingOpened == [shown |-> NoText, row |-> [id |-> NoId, name |-> NoText]]

InitList ==
  /\ listing = "unsent" /\ details = {}
  /\ groupList = <<>> /\ text = NoText /\ found = <<>> /\ shown = <<>> /\ reload = FALSE
  /\ opened = NothingOpened
  /\ creations = {} /\ subscriptions = {}
  /\ mine = {[id |-> i, name |-> Listed[i]] : i \in DOMAIN Listed}
  /\ groups = Len(Listed)
  /\ trap = FALSE

Running == ~trap
NamesOf(rows) == [i \in DOMAIN rows |-> rows[i].name]

(* filter: the elements wanted, in their order.                            *)
Filtered(seq, wanted) ==
  LET kept[i \in 0..Len(seq)] ==
        IF i = 0 THEN <<>>
        ELSE IF seq[i] \in wanted THEN Append(kept[i - 1], seq[i]) ELSE kept[i - 1]
  IN kept[Len(seq)]

Matching(t) == Filtered(NamesOf(groupList), Matches[t])

-----------------------------------------------------------------------------
(* Main thread.                                                            *)

LoadList ==
  /\ Running /\ listing = "unsent"
  /\ listing' = "sent"
  /\ UNCHANGED <<details, tableVars, opened, createVars, trap>>

(* Mutant: the table is not reloaded when the text is cleared.             *)
TextChangedKeepsRows(t) ==
  /\ Running
  /\ text' = t
  /\ IF t = NoText
     THEN UNCHANGED <<found, shown>>
     ELSE found' = Matching(t) /\ shown' = found'
  /\ UNCHANGED <<listing, details, groupList, reload, opened, createVars, trap>>

(* searchBar(textDidChange:) filters what has arrived so far.              *)
TextChanged(t) ==
  /\ Running
  /\ text' = t
  /\ IF t = NoText
     THEN shown' = NamesOf(groupList) /\ UNCHANGED found
     ELSE found' = Matching(t) /\ shown' = found'
  /\ UNCHANGED <<listing, details, groupList, reload, opened, createVars, trap>>

(* prepare(for:) looks the selected row up in groupListArray, also during  *)
(* a search; an index beyond it traps.                                     *)
OpenRow(r) ==
  /\ Running /\ r \in DOMAIN shown
  /\ IF r \in DOMAIN groupList
     THEN opened' = [shown |-> shown[r], row |-> groupList[r]] /\ UNCHANGED trap
     ELSE trap' = TRUE /\ UNCHANGED opened
  /\ UNCHANGED <<listing, details, tableVars, createVars>>

(* The rows of a reload.                                                   *)
RowsOf(rows) == IF text = NoText THEN NamesOf(rows) ELSE found

(* createButtonTapped: the request, and transforData on the main thread.   *)
CreateTapped(n) ==
  /\ Running /\ groups < MaxGroups
  /\ groups' = groups + 1
  /\ creations' = creations \cup {[group |-> [id |-> groups + 1, name |-> n], recorded |-> FALSE]}
  /\ groupList' = Append(groupList, [id |-> NoId, name |-> n])
  /\ shown' = RowsOf(groupList')
  /\ UNCHANGED <<listing, details, text, found, reload, opened, subscriptions, mine, trap>>

Reload ==
  /\ Running /\ reload
  /\ reload' = FALSE
  /\ shown' = RowsOf(groupList)
  /\ UNCHANGED <<listing, details, groupList, text, found, opened, createVars, trap>>

-----------------------------------------------------------------------------
(* The server.                                                             *)
RecordCreation(c) ==
  /\ c \in creations /\ ~c.recorded
  /\ creations' = (creations \ {c}) \cup {[c EXCEPT !.recorded = TRUE]}
  /\ UNCHANGED <<listing, details, tableVars, opened, subscriptions, mine, groups, trap>>

(* Nothing comes back from a subscription that the client would use.       *)
EndSubscription(g) ==
  /\ g \in subscriptions
  /\ subscriptions' = subscriptions \ {g}
  /\ mine' \in {mine, mine \cup {g}}
  /\ UNCHANGED <<listing, details, tableVars, opened, creations, groups, trap>>

-----------------------------------------------------------------------------
(* URLSession's queue.                                                     *)

(* getGroupList: one request for each group the server names.              *)
ListingReply ==
  /\ Running /\ listing = "sent"
  /\ listing' = "done"
  /\ details' = mine
  /\ UNCHANGED <<tableVars, opened, createVars, trap>>

ListingFailure ==
  /\ Running /\ listing = "sent"
  /\ listing' = "done"
  /\ UNCHANGED <<details, tableVars, opened, createVars, trap>>

(* mappingGroupList.                                                       *)
DetailReply(g) ==
  /\ Running /\ g \in details
  /\ details' = details \ {g}
  /\ groupList' = Append(groupList, g)
  /\ reload' = TRUE
  /\ UNCHANGED <<listing, text, found, shown, opened, createVars, trap>>

DetailFailure(g) ==
  /\ Running /\ g \in details
  /\ details' = details \ {g}
  /\ UNCHANGED <<listing, tableVars, opened, createVars, trap>>

(* creatingNewGroup subscribes the user to the group the reply names; the  *)
(* row in the list does not learn of it.                                   *)
CreationReply(c) ==
  /\ Running /\ c \in creations /\ c.recorded
  /\ creations' = creations \ {c}
  /\ subscriptions' = subscriptions \cup {c.group}
  /\ UNCHANGED <<listing, details, tableVars, opened, mine, groups, trap>>

(* The reply names no group, or there is no body and data! traps.          *)
CreationFailure(c) ==
  /\ Running /\ c \in creations
  /\ creations' = creations \ {c}
  /\ trap' \in BOOLEAN
  /\ UNCHANGED <<listing, details, tableVars, opened, subscriptions, mine, groups>>

-----------------------------------------------------------------------------
ListServer ==
  \/ \E c \in creations : RecordCreation(c)
  \/ \E g \in subscriptions : EndSubscription(g)
ListNetwork ==
  \/ ListingReply \/ ListingFailure
  \/ \E g \in details : DetailReply(g) \/ DetailFailure(g)
  \/ \E c \in creations : CreationReply(c) \/ CreationFailure(c)

-----------------------------------------------------------------------------
ListTypeOK ==
  /\ listing \in {"unsent", "sent", "done"} /\ details \subseteq Group
  /\ groupList \in Seq(Row)
  /\ text \in Texts \cup {NoText} /\ found \in Seq(Names) /\ shown \in Seq(Names)
  /\ reload \in BOOLEAN
  /\ opened \in [shown : Names, row : Row] \cup {NothingOpened}
  /\ creations \subseteq Creation /\ subscriptions \subseteq Group /\ mine \subseteq Group
  /\ groups \in 0..MaxGroups /\ trap \in BOOLEAN

(* A tap on any row the table shows opens the group it shows, also while   *)
(* groups keep arriving; only during a search may it open another, and     *)
(* then only if the search has left out a group that precedes it           *)
(* (GroupViewController 31-43, 77-84).  No row is beyond the list.         *)
RowsOpenWhatTheyShow ==
  \A r \in DOMAIN shown :
    /\ r \in DOMAIN groupList
    /\ \/ groupList[r].name = shown[r]
       \/ /\ text # NoText
          /\ \E i \in 1..r : groupList[i].name \notin Matches[text]
=============================================================================
