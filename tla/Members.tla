------------------------------ MODULE Members ------------------------------
(***************************************************************************)
(* The members of a group, MembersControllerView, joined from one request  *)
(* per member; and the screen behind its button, AddNewUserViewController, *)
(* which searches for users and invites one of them.                       *)
(*                                                                         *)
(* Every opening of either screen makes a new controller, and the          *)
(* completions hold the one that issued the request: replies for an        *)
(* earlier one change nothing that can still be seen.                      *)
(***************************************************************************)
EXTENDS SequencesExt

CONSTANTS
  Users,
  NoUser,       \* the empty receiver of an invitation
  GroupIds,     \* identifiers a members screen is opened with ...
  NoId,         \* ... among them that of a row without one
  MembersOf,    \* the members of the groups that have one
  Queries,      \* names typed into the search
  FoundBy,      \* the users the server finds for each
  MaxVisits,    \* bound on the members screens opened
  MaxScreens,   \* bound on the search screens opened
  MaxSearches   \* bound on the searches

(* GET /api/group/<id>; GET /api/user/<id> for a member; GET /api/user?name *)
(* and GET /api/user/<id> for a user found, with the screen they are for.  *)
Ask == [visit : 1..MaxVisits, group : GroupIds]
Info == [visit : 1..MaxVisits, user : Users]
Search == [screen : 1..MaxScreens, n : 1..MaxSearches, query : Queries]
Hit == [screen : 1..MaxScreens, n : 1..MaxSearches, user : Users]

VARIABLES
  visit,       \* members screens opened
  groupId,     \* storageIdGroup of the newest
  memberList,  \* its memberList
  asks, infos, \* requests in flight for members
  members,     \* groupIds of each visit's reply
  got,         \* arrayInfoAboutUser of each visit; its length is counter
  screen,      \* search screens opened
  userList,    \* userList of the newest
  searches, hits, \* requests in flight for users
  invited,     \* the last PUT /api/invitation
  \* history, for the bound and the properties
  searched,    \* searches sent
  hurried      \* has a search been sent before another's answers had come?

joinVars   == <<visit, groupId, memberList, asks, infos, members, got>>
inviteVars == <<screen, userList, searches, hits, invited, searched, hurried>>
memberVars == <<joinVars, inviteVars>>

NotInvited == [receiver |-> NoUser, group |-> NoId]

InitMembers ==
  /\ visit = 0 /\ groupId = NoId /\ memberList = <<>>
  /\ asks = {} /\ infos = {}
  /\ members = [v \in 1..MaxVisits |-> {}] /\ got = [v \in 1..MaxVisits |-> <<>>]
  /\ screen = 0 /\ userList = <<>> /\ searches = {} /\ hits = {}
  /\ invited = NotInvited /\ searched = 0 /\ hurried = FALSE

-----------------------------------------------------------------------------
(* Main thread.                                                            *)

(* viewDidLoad.                                                            *)
OpenMembers(g) ==
  /\ visit < MaxVisits
  /\ visit' = visit + 1 /\ groupId' = g /\ memberList' = <<>>
  /\ asks' = asks \cup {[visit |-> visit + 1, group |-> g]}
  /\ UNCHANGED <<infos, members, got, inviteVars>>

(* addTapped.                                                              *)
OpenSearch ==
  /\ screen < MaxScreens
  /\ screen' = screen + 1 /\ userList' = <<>> /\ hurried' = FALSE
  /\ UNCHANGED <<joinVars, searches, hits, invited, searched>>

(* findUserButtonTapped.                                                   *)
SearchTapped(q) ==
  /\ searched < MaxSearches
  /\ searched' = searched + 1
  /\ searches' = searches \cup {[screen |-> screen, n |-> searched + 1, query |-> q]}
  /\ hurried' = (hurried \/ \E s \in searches \cup hits : s.screen = screen)
  /\ UNCHANGED <<joinVars, screen, userList, hits, invited>>

(* Mutant: the first user found is invited.                                *)
InviteTappedFirst ==
  /\ invited' = [receiver |-> IF userList = <<>> THEN NoUser ELSE Head(userList).user,
                 group |-> groupId]
  /\ UNCHANGED <<joinVars, screen, userList, searches, hits, searched, hurried>>

(* inviteUserButtonTapped: the loop leaves the last user of the list.      *)
InviteTapped ==
  /\ invited' = [receiver |-> IF userList = <<>> THEN NoUser ELSE Last(userList).user,
                 group |-> groupId]
  /\ UNCHANGED <<joinVars, screen, userList, searches, hits, searched, hurried>>

-----------------------------------------------------------------------------
(* URLSession's queue: the join.                                           *)

(* getMembersInGroup: one request for each member.  There is no such group *)
(* without an identifier.                                                  *)
GroupReply(a) ==
  /\ a \in asks /\ a.group # NoId
  /\ asks' = asks \ {a}
  /\ members' = [members EXCEPT ![a.visit] = MembersOf[a.group]]
  /\ infos' = infos \cup {[visit |-> a.visit, user |-> u] : u \in MembersOf[a.group]}
  /\ UNCHANGED <<visit, groupId, memberList, got, inviteVars>>

GroupFailure(a) ==
  /\ a \in asks
  /\ asks' = asks \ {a}
  /\ UNCHANGED <<visit, groupId, memberList, infos, members, got, inviteVars>>

(* Mutant: the list is shown with the first member.                        *)
InfoReplyShowsAtOnce(i) ==
  /\ i \in infos
  /\ infos' = infos \ {i}
  /\ got' = [got EXCEPT ![i.visit] = Append(@, i.user)]
  /\ memberList' = IF i.visit = visit THEN got'[visit] ELSE memberList
  /\ UNCHANGED <<visit, groupId, asks, members, inviteVars>>

(* Mutant: the array and the counter belong to the object of all visits.   *)
InfoReplyShared(i) ==
  /\ i \in infos
  /\ infos' = infos \ {i}
  /\ got' = [v \in DOMAIN got |-> Append(got[v], i.user)]
  /\ memberList' = IF i.visit = visit /\ Len(got'[visit]) = Cardinality(members[visit])
                   THEN got'[visit] ELSE memberList
  /\ UNCHANGED <<visit, groupId, asks, members, inviteVars>>

(* The list is handed over when the counter has reached the number of      *)
(* members.                                                                *)
InfoReply(i) ==
  /\ i \in infos
  /\ infos' = infos \ {i}
  /\ got' = [got EXCEPT ![i.visit] = Append(@, i.user)]
  /\ memberList' = IF i.visit = visit /\ Len(got'[visit]) = Cardinality(members[visit])
                   THEN got'[visit] ELSE memberList
  /\ UNCHANGED <<visit, groupId, asks, members, inviteVars>>

InfoFailure(i) ==
  /\ i \in infos
  /\ infos' = infos \ {i}
  /\ UNCHANGED <<visit, groupId, memberList, asks, members, got, inviteVars>>

-----------------------------------------------------------------------------
(* URLSession's queue: the search.                                         *)

(* searchUser: one request for each user found.                            *)
SearchReply(s) ==
  /\ s \in searches
  /\ searches' = searches \ {s}
  /\ hits' = hits \cup {[screen |-> s.screen, n |-> s.n, user |-> u] : u \in FoundBy[s.query]}
  /\ UNCHANGED <<joinVars, screen, userList, invited, searched, hurried>>

SearchFailure(s) ==
  /\ s \in searches
  /\ searches' = searches \ {s}
  /\ UNCHANGED <<joinVars, screen, userList, hits, invited, searched, hurried>>

(* getUserInfo.                                                            *)
HitReply(h) ==
  /\ h \in hits
  /\ hits' = hits \ {h}
  /\ userList' = IF h.screen = screen THEN Append(userList, h) ELSE userList
  /\ UNCHANGED <<joinVars, screen, searches, invited, searched, hurried>>

HitFailure(h) ==
  /\ h \in hits
  /\ hits' = hits \ {h}
  /\ UNCHANGED <<joinVars, screen, userList, searches, invited, searched, hurried>>

-----------------------------------------------------------------------------
MembersNetwork ==
  \/ \E a \in asks : GroupReply(a) \/ GroupFailure(a)
  \/ \E i \in infos : InfoReply(i) \/ InfoFailure(i)
  \/ \E s \in searches : SearchReply(s) \/ SearchFailure(s)
  \/ \E h \in hits : HitReply(h) \/ HitFailure(h)

-----------------------------------------------------------------------------
(* Types.  In particular a counter never passes the number of members, or  *)
(* the comparison for equality would miss it.                              *)
MembersTypeOK ==
  /\ visit \in 0..MaxVisits /\ groupId \in GroupIds
  /\ memberList \in Seq(Users)
  /\ asks \subseteq Ask /\ infos \subseteq Info
  /\ members \in [1..MaxVisits -> SUBSET Users]
  /\ got \in [1..MaxVisits -> Seq(Users)]
  /\ \A v \in 1..MaxVisits : Len(got[v]) <= Cardinality(members[v])
  /\ screen \in 0..MaxScreens /\ userList \in Seq(Hit)
  /\ searches \subseteq Search /\ hits \subseteq Hit
  /\ invited \in [receiver : Users \cup {NoUser}, group : GroupIds]
  /\ searched \in 0..MaxSearches /\ hurried \in BOOLEAN

(* The list of members is shown whole or not at all: every member once, in *)
(* whatever order the replies come, and none if any of them is missing     *)
(* (MembersInGroupNetworking 39-50).                                       *)
MembersAllOrNone ==
  \/ memberList = <<>>
  \/ /\ groupId # NoId
     /\ ToSet(memberList) = MembersOf[groupId]
     /\ Len(memberList) = Cardinality(MembersOf[groupId])

(* An invitation goes to the user found by the latest search that found    *)
(* anybody, if the user waited for each search to end; nothing on the      *)
(* screen says whom it goes to, and the order of replies decides else      *)
(* (AddNewUserViewController 45-62).                                       *)
PatientInvite ==
  invited' # invited =>
    \/ hurried \/ userList = <<>>
    \/ \E i \in DOMAIN userList :
         /\ userList[i].user = invited'.receiver
         /\ \A j \in DOMAIN userList : userList[j].n <= userList[i].n
=============================================================================
