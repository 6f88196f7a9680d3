------------------------------ MODULE GroupTab ------------------------------
(***************************************************************************)
(* The groups tab: the list, the group opened from it, and that group's    *)
(* members and invitations.  The identifier of the row that was tapped is  *)
(* handed from screen to screen.                                           *)
(***************************************************************************)
EXTENDS GroupList

CONSTANTS Users, NoUser, MembersOf, Queries, FoundBy, MaxVisits, MaxScreens, MaxSearches

ASSUME MembersAssumption ==
  /\ NoUser \notin Users /\ IsFiniteSet(Users)
  /\ MembersOf \in [1..MaxGroups -> SUBSET Users]
  /\ FoundBy \in [Queries -> SUBSET Users]
  /\ MaxVisits \in Nat /\ MaxScreens \in Nat /\ MaxSearches \in Nat

VARIABLES
  top,   \* the screen on top
  visit, groupId, memberList, asks, infos, members, got,
  screen, userList, searches, hits, invited, searched, hurried

M == INSTANCE Members WITH GroupIds <- 0..MaxGroups

memberVars == <<visit, groupId, memberList, asks, infos, members, got,
                screen, userList, searches, hits, invited, searched, hurried>>
vars == <<top, listVars, memberVars>>

Init == top = "groups" /\ InitList /\ M!InitMembers

-----------------------------------------------------------------------------
(* A tap on the screen on top.                                             *)
OnGroups ==
  /\ top = "groups"
  /\ \/ LoadList /\ UNCHANGED top
     \/ (\E t \in Texts \cup {NoText} : TextChanged(t)) /\ UNCHANGED top
     \/ listing # "unsent" /\ top' = "create" /\ UNCHANGED listVars
     \/ (\E r \in DOMAIN shown : OpenRow(r)) /\ top' = "detail"
  /\ UNCHANGED memberVars

OnCreate ==
  /\ top = "create" /\ top' = "groups"
  /\ (\E n \in Names : CreateTapped(n)) \/ UNCHANGED listVars
  /\ UNCHANGED memberVars

(* prepare(for:) of the detail view hands on the identifier of its group.  *)
OnDetail ==
  /\ top = "detail"
  /\ \/ top' = "members" /\ M!OpenMembers(opened.row.id)
     \/ top' = "groups" /\ UNCHANGED memberVars
  /\ UNCHANGED listVars

OnMembers ==
  /\ top = "members"
  /\ \/ top' = "search" /\ M!OpenSearch
     \/ top' = "detail" /\ UNCHANGED memberVars
  /\ UNCHANGED listVars

OnSearch ==
  /\ top = "search"
  /\ \/ (\E q \in Queries : M!SearchTapped(q)) /\ UNCHANGED top
     \/ M!InviteTapped /\ UNCHANGED top
     \/ top' = "members" /\ UNCHANGED memberVars
  /\ UNCHANGED listVars

User == Running /\ (OnGroups \/ OnCreate \/ OnDetail \/ OnMembers \/ OnSearch)
Background ==
  \/ (Reload \/ ListServer \/ ListNetwork) /\ UNCHANGED <<top, memberVars>>
  \/ Running /\ M!MembersNetwork /\ UNCHANGED <<top, listVars>>

Next == User \/ Background
Spec == Init /\ [][Next]_vars

-----------------------------------------------------------------------------
(* Types.  In particular the counter of a join never passes the number of  *)
(* members it is compared with (MembersInGroupNetworking 46-47).           *)
TypeOK ==
  /\ top \in {"groups", "create", "detail", "members", "search"}
  /\ ListTypeOK /\ M!MembersTypeOK

(* The members shown are all the members of the group whose row was        *)
(* tapped, each once, whatever of another group's is still on its way, and *)
(* none if a reply is missing or the row has no identifier                 *)
(* (MembersInGroupNetworking 39-50, DetailViewController 101-108).         *)
MembersOfTappedGroup ==
  top \in {"members", "search"} /\ memberList # <<>> =>
    groupId = opened.row.id /\ M!MembersAllOrNone

(* A user who waits for each search to end, with an answer or without,     *)
(* invites a user found by the latest search that found anybody, and for   *)
(* the group of the members screen underneath: replies only append to the  *)
(* list nobody sees, and the loop takes its last                           *)
(* (AddNewUserViewController 45-62).                                       *)
PatientInvitesLatest ==
  [][M!PatientInvite /\ (invited' # invited => invited'.group = opened.row.id)]_vars
=============================================================================
