------------------------------- MODULE Requests -------------------------------
(***************************************************************************)
(* Invitations and challenges between the users of Facebook: the rows of   *)
(* User, Request and Game that RequestManagerImpl, SessionManagerImpl and  *)
(* UserManagerImpl write, the filters and the callback of the web site     *)
(* that call them, and the requests ("links") that Facebook keeps for its  *)
(* users until they are followed or deleted.                               *)
(*                                                                         *)
(* The browser tells Facebook of a request and then, on its own, the site  *)
(* (Callback.action).  A user who follows a link gives its id to the page  *)
(* that is loaded.  HTTP requests run side by side, each in transactions   *)
(* that see the rows as of their first read and have no version columns:   *)
(* a transaction that reads before it writes is two actions.               *)
(***************************************************************************)
EXTENDS SequencesExt, FiniteSets, Naturals

CONSTANTS
  FbUsers,        \* users of Facebook: external ids of one operator
  Links,          \* ids Facebook gives to requests, each once
  MaxLoads,       \* bound: pages that are loaded
  MaxReceivers    \* bound: users the requests are sent to, counted for each

ASSUME FbUsersAssumption == IsFiniteSet(FbUsers)
ASSUME LinksAssumption == IsFiniteSet(Links)
ASSUME BoundsAssumption == MaxLoads \in Nat /\ MaxReceivers \in Nat

VARIABLES
  users,          \* table User with GameStats; the index is the id
  requests,       \* table Request with the Game of each; the index is the id
  account,        \* USER_ATTR of each user's HTTP session: a user id or 0
  load,           \* the page each user is loading
  post,           \* the Callback.action of each link
  clear,          \* FIRST_ACC_ATTR of each user's HTTP session, and the
                  \*   ClearRequests submitted and under way
  appUsers,       \* Facebook: the users that have used the site
  sent,           \* Facebook: from, to and type of each link
  inbox,          \* Facebook: the links a user can follow
  loads,          \* history: pages loaded,
  followed,       \*   links each user has given to a page,
  early,          \*   links looked up while their callback was under way,
  raced,          \*   users of whom two transactions saw no row at a time,
  miscounted      \*   inviters whose counter was read before another
                  \*     transaction changed it, or who were counted again
rows == <<users, requests>>
facebook == <<appUsers, sent, inbox>>
history == <<loads, followed, early, raced, miscounted>>
vars == <<rows, account, load, post, clear, facebook, history>>

Types == {"INVITATION", "CHALLENGE"}
NoUser == 0
NotSent == [type |-> "NONE"]
NoLoad == [at |-> "none"]

Init ==
  /\ users = << >> /\ requests = << >>
  /\ account = [e \in FbUsers |-> NoUser]
  /\ load = [e \in FbUsers |-> NoLoad]
  /\ post = [l \in Links |-> [to |-> {}, creating |-> {}]]
  /\ clear = [e \in FbUsers |-> [first |-> FALSE, due |-> 0, unknown |-> {}]]
  /\ appUsers = {}
  /\ sent = [l \in Links |-> NotSent]
  /\ inbox = [e \in FbUsers |-> {}]
  /\ loads = 0
  /\ followed = [e \in FbUsers |-> {}]
  /\ early = {} /\ raced = {} /\ miscounted = {}

-----------------------------------------------------------------------------
(* Queries and rows. *)

(* Mutant of UsersOf: users that were invited are not found.               *)
LiveUsersOf(e) ==
  {u \in DOMAIN users :
     users[u].externalId = e /\ users[u].status = "LIVE"}

UsersOf(e) == {u \in DOMAIN users : users[u].externalId = e}
RequestsOf(l) == {r \in DOMAIN requests : requests[r].externalRequestId = l}

(* A transaction has seen no user e and is about to store one.             *)
BeingCreated(e) ==
  load[e].at = "create" \/ \E l \in Links : e \in post[l].creating

NewUser(e, status) ==
  [externalId |-> e, status |-> status, sentInvites |-> 0,
   sentInvitesAccepted |-> 0]

(* Mutant of NewRequest: inviter and invitee are swapped.                  *)
NewRequestSwapped(l, inviter, invitee) ==
  [externalRequestId |-> l, type |-> sent[l].type, status |-> "PENDING",
   inviter |-> invitee, invitee |-> inviter, game |-> "PENDING"]

(* A Request and the Game that createGame(KALAHA, request) makes of it.    *)
NewRequest(l, inviter, invitee) ==
  [externalRequestId |-> l, type |-> sent[l].type, status |-> "PENDING",
   inviter |-> inviter, invitee |-> invitee, game |-> "PENDING"]

-----------------------------------------------------------------------------
(* How many users requests were sent to.                                   *)
Receivers ==
  Cardinality({mail \in Links \X FbUsers :
    sent[mail[1]] # NotSent /\ mail[2] \in sent[mail[1]].to})

(* fbInvite, fbChallenge: Facebook's dialog offers the friends who do not  *)
(* use the site, or those who do, and its answer is posted.                *)
Send(e, l) ==
  /\ account[e] # NoUser
  /\ sent[l] = NotSent
  /\ \E type \in Types, to \in (SUBSET (FbUsers \ {e})) \ {{}} :
       /\ Cardinality(to) + Receivers <= MaxReceivers
       /\ \A b \in to : (b \in appUsers) = (type = "CHALLENGE")
       /\ sent' = [sent EXCEPT ![l] = [type |-> type, from |-> e, to |-> to]]
       /\ inbox' = [b \in FbUsers |->
                      IF b \in to THEN inbox[b] \union {l} ELSE inbox[b]]
       /\ post' = [post EXCEPT ![l].to = to]
  /\ UNCHANGED <<rows, account, load, clear, appUsers, history>>

-----------------------------------------------------------------------------
(* CallbackActionBean, one receiver at a time, each in a transaction.      *)

(* invite's read of the invitee: it returns null when there is one.        *)
Invite(l, b) ==
  /\ sent[l].type = "INVITATION"
  /\ b \in post[l].to /\ post[l].creating = {}
  /\ IF UsersOf(b) = {}
     THEN /\ post' = [post EXCEPT ![l].creating = {b}]
          /\ raced' = IF BeingCreated(b) THEN raced \union {b} ELSE raced
     ELSE /\ post' = [post EXCEPT ![l].to = @ \ {b}]
          /\ raced' = raced
  /\ UNCHANGED <<rows, account, load, clear, facebook, loads, followed, early,
                 miscounted>>

(* The rest of invite.  The inviter is the User object that the HTTP       *)
(* session keeps from an earlier request and that belongs to no            *)
(* EntityManager any more: incrementSentInvites changes no row.            *)
StoreInvite(l, b) ==
  /\ b \in post[l].creating
  /\ users' = Append(users, NewUser(b, "INVITED"))
  /\ requests' =
       Append(requests, NewRequest(l, account[sent[l].from], Len(users) + 1))
  /\ post' = [post EXCEPT ![l] = [to |-> @.to \ {b}, creating |-> {}]]
  /\ UNCHANGED <<account, load, clear, facebook, history>>

(* challenge.  With no receiver the request cannot be stored, and the      *)
(* exception ends the callback with its other receivers.                   *)
Challenge(l, b) ==
  /\ sent[l].type = "CHALLENGE"
  /\ b \in post[l].to
  /\ IF UsersOf(b) = {}
     THEN /\ post' = [post EXCEPT ![l].to = {}]
          /\ requests' = requests
     ELSE /\ post' = [post EXCEPT ![l].to = @ \ {b}]
          /\ \E u \in UsersOf(b) :
               requests' =
                 Append(requests, NewRequest(l, account[sent[l].from], u))
  /\ UNCHANGED <<users, account, load, clear, facebook, history>>

-----------------------------------------------------------------------------
(* A page is loaded: by Facebook with a signed request, or again by the    *)
(* browser in its HTTP session.  Either may come with ids of links, those  *)
(* followed just now or before: the URL of a page can be loaded again.     *)
LoadPage(e) ==
  /\ load[e] = NoLoad
  /\ loads < MaxLoads
  /\ loads' = loads + 1
  /\ appUsers' = appUsers \union {e}
  /\ \E ids \in SUBSET (inbox[e] \union followed[e]), signed \in BOOLEAN :
       \E todo \in SetToSeqs(ids) :
         /\ signed \/ account[e] # NoUser
         /\ load' = [load EXCEPT ![e] =
                       [at |-> IF signed THEN "signIn" ELSE "links",
                        ids |-> ids, todo |-> todo, row |-> 0,
                        stats |-> << >>]]
         /\ clear' = [clear EXCEPT ![e].first = @ \/ signed]
         /\ followed' = [followed EXCEPT ![e] = @ \union ids]
  /\ UNCHANGED <<rows, account, post, sent, inbox, early, raced, miscounted>>

(* AuthFilter.createUserSessionDetails: getSessionByExternalId, when there *)
(* is a user, and its read when there is none.  With several rows it is    *)
(* the one of the session that is found, or any after sessions are reaped. *)
SignIn(e) ==
  /\ load[e].at = "signIn"
  /\ IF UsersOf(e) = {}
     THEN /\ load' = [load EXCEPT ![e].at = "create"]
          /\ raced' = IF BeingCreated(e) THEN raced \union {e} ELSE raced
          /\ account' = account
     ELSE /\ load' = [load EXCEPT ![e].at = "links"]
          /\ \E u \in UsersOf(e) : account' = [account EXCEPT ![e] = u]
          /\ raced' = raced
  /\ UNCHANGED <<rows, post, clear, facebook, loads, followed, early, miscounted>>

(* Its createUser and doCreateNewSession.                                  *)
CreateOnSignIn(e) ==
  /\ load[e].at = "create"
  /\ load' = [load EXCEPT ![e].at = "links"]
  /\ users' = Append(users, NewUser(e, "LIVE"))
  /\ account' = [account EXCEPT ![e] = Len(users')]
  /\ UNCHANGED <<requests, post, clear, facebook, history>>

(* What the counter of user u is to the EntityManager of e's page: read    *)
(* with the first request of that inviter and never again.                 *)
Stats(e, u) ==
  IF u \in DOMAIN load[e].stats THEN load[e].stats[u]
  ELSE users[u].sentInvitesAccepted

(* handleDirectRequests: updateRequestByExternalId finds the request.  It  *)
(* passes over ids of no request, and throws when several have the id:     *)
(* the page is not loaded and no link deleted.                             *)
FindRequest(e) ==
  /\ load[e].at = "links" /\ load[e].todo # << >>
  /\ LET l == Head(load[e].todo)
     IN  /\ early' = IF post[l].to # {} THEN early \union {l} ELSE early
         /\ \/ /\ RequestsOf(l) = {}
               /\ load' = [load EXCEPT ![e].todo = Tail(@)]
            \/ /\ Cardinality(RequestsOf(l)) > 1
               /\ load' = [load EXCEPT ![e] = NoLoad]
            \/ \E r \in RequestsOf(l) :
                 LET u == requests[r].inviter
                 IN  /\ RequestsOf(l) = {r}
                     /\ load' = [load EXCEPT
                          ![e].at = "update", ![e].row = r,
                          ![e].stats =
                            [v \in {u} \union DOMAIN load[e].stats |->
                               Stats(e, v)]]
  /\ UNCHANGED <<rows, account, post, clear, facebook, loads, followed, raced,
                 miscounted>>

(* Mutant of Count: a challenge counts as well.                            *)
CountAnyType(type) == 1

(* updateStats for ACCEPTED: incrementAccepted counts invitations only.    *)
Count(type) == IF type = "INVITATION" THEN 1 ELSE 0

(* Mutant of Accepted: only invitations are updated.                       *)
AcceptedInvitation(req) ==
  IF req.type = "INVITATION"
  THEN [req EXCEPT !.status = "ACCEPTED", !.game = "ACTIVE"] ELSE req

(* The row of a request that is accepted, and its game: setStatus, and     *)
(* updateGame by the status that was set.                                  *)
Accepted(req) == [req EXCEPT !.status = "ACCEPTED", !.game = "ACTIVE"]

(* The commit of updateRequest(id, ACCEPTED): the request, the inviter's   *)
(* counter, the invitee of an invitation and the game.                     *)
UpdateRequest(e) ==
  /\ load[e].at = "update"
  /\ LET r == load[e].row
         req == requests[r]
         u == req.inviter
         accepted == load[e].stats[u] + Count(req.type)
     IN  /\ requests' = [requests EXCEPT ![r] = Accepted(@)]
         /\ users' = [v \in DOMAIN users |->
              IF v = u /\ accepted # load[e].stats[u]
              THEN [users[v] EXCEPT !.sentInvitesAccepted = accepted]
              ELSE IF v = req.invitee /\ req.type = "INVITATION"
              THEN [users[v] EXCEPT !.status = "LIVE"] ELSE users[v]]
         /\ load' = [load EXCEPT ![e].at = "links", ![e].todo = Tail(@),
                                 ![e].stats[u] = accepted]
         /\ miscounted' =
              IF /\ req.type = "INVITATION"
                 /\ \/ req.status = "ACCEPTED"
                    \/ load[e].stats[u] # users[u].sentInvitesAccepted
              THEN miscounted \union {u} ELSE miscounted
  /\ UNCHANGED <<account, post, clear, facebook, loads, followed,
                 early, raced>>

(* The end of checkRequests: the links given are deleted at Facebook, and  *)
(* after a signed request a ClearRequests is submitted.  FIRST_ACC_ATTR    *)
(* tells so, and stays when a page ends with an exception.                 *)
DeleteLinks(e) ==
  /\ load[e].at = "links" /\ load[e].todo = << >>
  /\ inbox' = [inbox EXCEPT ![e] = @ \ load[e].ids]
  /\ clear' = IF clear[e].first
              THEN [clear EXCEPT ![e].first = FALSE, ![e].due = @ + 1]
              ELSE clear
  /\ load' = [load EXCEPT ![e] = NoLoad]
  /\ UNCHANGED <<rows, account, post, appUsers, sent, history>>

(* Mutant of Unknown: all links are deleted.                               *)
UnknownOrNot(e) == inbox[e]

Unknown(e) == {l \in inbox[e] : RequestsOf(l) = {}}

(* ClearRequests on its thread: it reads the user's links at Facebook and  *)
(* looks for their requests.  Several requests of one id end it.           *)
ClearRead(e) ==
  /\ clear[e].due > 0
  /\ clear' = [clear EXCEPT
       ![e].due = @ - 1,
       ![e].unknown = IF \E l \in inbox[e] : Cardinality(RequestsOf(l)) > 1
                      THEN @ ELSE @ \union Unknown(e)]
  /\ early' = early \union {l \in inbox[e] : post[l].to # {}}
  /\ UNCHANGED <<rows, account, load, post, facebook, loads, followed, raced,
                 miscounted>>

(* Its deletion of the links without a request, one by one.                *)
ClearDelete(e) ==
  \E l \in clear[e].unknown :
    /\ clear' = [clear EXCEPT ![e].unknown = @ \ {l}]
    /\ inbox' = [inbox EXCEPT ![e] = @ \ {l}]
    /\ UNCHANGED <<rows, account, load, post, appUsers, sent, history>>

-----------------------------------------------------------------------------
Next ==
  \/ \E e \in FbUsers, l \in Links : Send(e, l)
  \/ \E l \in Links, b \in FbUsers : Invite(l, b)
  \/ \E l \in Links, b \in FbUsers : StoreInvite(l, b)
  \/ \E l \in Links, b \in FbUsers : Challenge(l, b)
  \/ \E e \in FbUsers : LoadPage(e)
  \/ \E e \in FbUsers : SignIn(e)
  \/ \E e \in FbUsers : CreateOnSignIn(e)
  \/ \E e \in FbUsers : FindRequest(e)
  \/ \E e \in FbUsers : UpdateRequest(e)
  \/ \E e \in FbUsers : DeleteLinks(e)
  \/ \E e \in FbUsers : ClearRead(e)
  \/ \E e \in FbUsers : ClearDelete(e)

Spec == Init /\ [][Next]_vars

-----------------------------------------------------------------------------
(* Properties. *)

UserRows ==
  [externalId : FbUsers, status : {"LIVE", "INVITED"}, sentInvites : Nat,
   sentInvitesAccepted : Nat]

RequestRows ==
  [externalRequestId : Links, type : Types, status : {"PENDING", "ACCEPTED"},
   inviter : Nat, invitee : Nat, game : {"PENDING", "ACTIVE"}]

Posts == [to : SUBSET FbUsers, creating : SUBSET FbUsers]
Clears == [first : BOOLEAN, due : Nat, unknown : SUBSET Links]

(* Pages that have read the counters of some users.                        *)
Pages(read) ==
  [at : {"signIn", "create", "links", "update"}, ids : SUBSET Links,
   todo : Seq(Links), row : Nat, stats : [read -> Nat]]

LoadsOK ==
  /\ DOMAIN load = FbUsers
  /\ \A e \in FbUsers : load[e] # NoLoad =>
       \E read \in SUBSET DOMAIN users : load[e] \in Pages(read)

TypeOK ==
  /\ users \in Seq(UserRows)
  /\ requests \in Seq(RequestRows)
  /\ \A r \in DOMAIN requests :
       /\ requests[r].inviter \in DOMAIN users
       /\ requests[r].invitee \in DOMAIN users
  /\ account \in [FbUsers -> DOMAIN users \union {NoUser}]
  /\ LoadsOK
  /\ post \in [Links -> Posts]
  /\ \A l \in Links : post[l].creating \subseteq post[l].to
  /\ clear \in [FbUsers -> Clears]
  /\ appUsers \subseteq FbUsers
  /\ sent \in
       [Links -> [type : Types, from : FbUsers, to : SUBSET FbUsers]
                   \union {NotSent}]
  /\ inbox \in [FbUsers -> SUBSET Links]
  /\ loads \in 0 .. MaxLoads
  /\ followed \in [FbUsers -> SUBSET Links]
  /\ early \subseteq Links
  /\ raced \subseteq FbUsers
  /\ miscounted \subseteq DOMAIN users

Several(l) == sent[l] # NotSent /\ Cardinality(sent[l].to) > 1

(* A request that is meant for a user is stored for the user row that the  *)
(* user's pages have, and Home and Pending show its game there: signing in *)
(* finds the row an invitation has made and an invitation the row of a     *)
(* sign-in.  Only if two transactions saw no row of the user at a time are *)
(* there two.                                                              *)
RequestsReachTheirUser ==
  \A r \in DOMAIN requests : \A e \in FbUsers \ raced :
    e = users[requests[r].invitee].externalId /\ account[e] # NoUser =>
      requests[r].invitee = account[e]

(* A request is accepted because its own invitee followed the link.  The   *)
(* update goes by the link alone: only a link that Facebook sent to        *)
(* several can be followed by a user who has no request, for the request   *)
(* of another.                                                             *)
AcceptedByInvitee ==
  \A r \in DOMAIN requests :
    LET l == requests[r].externalRequestId
    IN  requests[r].status = "ACCEPTED" =>
          \/ l \in followed[users[requests[r].invitee].externalId]
          \/ Several(l)

(* A stored request that waits for its answer can be answered: the link is *)
(* still at Facebook.  It is lost if a page or ClearRequests looked for    *)
(* the request while its callback was under way.                           *)
PendingIsAnswerable ==
  \A r \in DOMAIN requests :
    LET l == requests[r].externalRequestId
    IN  requests[r].status = "PENDING" =>
          \/ l \in inbox[users[requests[r].invitee].externalId]
          \/ l \in early

(* The counter of accepted invitations is their number, unless one was     *)
(* accepted again, or a transaction wrote the counter it had read before   *)
(* another changed it.                                                     *)
AcceptedInvitesCounted ==
  \A u \in DOMAIN users \ miscounted :
    users[u].sentInvitesAccepted =
      Cardinality({r \in DOMAIN requests :
        /\ requests[r].inviter = u /\ requests[r].type = "INVITATION"
        /\ requests[r].status = "ACCEPTED"})

(* RequestManagerImplTest.testCreateInvite: an invitation is counted with  *)
(* its inviter.                                                            *)
SentInvitesCounted ==
  \A u \in DOMAIN users :
    users[u].sentInvites =
      Cardinality({r \in DOMAIN requests :
        requests[r].inviter = u /\ requests[r].type = "INVITATION"})

(* A page has not been loaded before the requests of all its links are     *)
(* accepted, if none of them is the link of several, and none was looked   *)
(* up while its callback was under way: no link is deleted in vain, and no *)
(* exception ends the page.                                                *)
FollowedIsAccepted ==
  [][\A e \in FbUsers :
       load[e] # NoLoad /\ load'[e] = NoLoad /\ (\A k \in load[e].ids : ~ Several(k)) =>
         \A l \in load[e].ids \ early : \A r \in RequestsOf(l) :
           requests[r].status = "ACCEPTED"]_vars
=============================================================================
