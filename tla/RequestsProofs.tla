---------------------------- MODULE RequestsProofs ----------------------------
(***************************************************************************)
(* Proofs about Requests, for any users, links and bounds.  In order:      *)
(*                                                                         *)
(*   what each action does to the tables, pages, callbacks and links,      *)
(*   stated once in terms of single rows and fields (UpdateFacts, ...);    *)
(*   TypeOK, inductive together with Linked;                               *)
(*   OneRow: RequestsReachTheirUser;                                       *)
(*   what every step keeps of links, rows and pages (LinksKept, ...), and  *)
(*   with it Followed: AcceptedByInvitee;                                  *)
(*   Settling: PendingIsAnswerable and FollowedIsAccepted;                 *)
(*   AcceptedInvitesCounted.                                               *)
(***************************************************************************)
EXTENDS Requests, SequenceTheorems, FiniteSetTheorems, TLAPS

(* What the prover does not see at once: a loaded page is not NoLoad, a    *)
(* link that was sent is not NotSent.                                      *)
LEMMA Absent ==
  /\ \A read : NoLoad \notin Pages(read)
  /\ NotSent \notin [type : Types, from : FbUsers, to : SUBSET FbUsers]
<1>1. \A read : NoLoad \notin Pages(read)
  BY DEF NoLoad, Pages
<1>2. NotSent \notin [type : Types, from : FbUsers, to : SUBSET FbUsers]
  BY DEF NotSent, Types
<1> QED BY <1>1, <1>2

(* The ids of links in any order, each of them.                            *)
LEMMA TodoOfIds ==
  ASSUME NEW ids \in SUBSET Links, NEW todo \in SetToSeqs(ids)
  PROVE  todo \in Seq(Links) /\ \A l : l \in ids <=> \E i \in DOMAIN todo : todo[i] = l
<1> DEFINE n == Cardinality(ids)
<1>1. IsFiniteSet(ids) /\ n \in Nat
  BY LinksAssumption, FS_Subset, FS_CardinalityType
<1>2. todo \in [1 .. n -> ids] /\ todo \in Injection(1 .. n, ids)
  BY DEF SetToSeqs, Injection, IsInjective
<1>3. IsFiniteSet(1 .. n) /\ Cardinality(1 .. n) = n
  BY <1>1, FS_Interval
<1>4. todo \in Surjection(1 .. n, ids)
  BY <1>1, <1>2, <1>3, FS_Injection
<1>5. todo \in Seq(Links)
  BY <1>1, <1>2, SeqDef
<1> QED BY <1>2, <1>4, <1>5 DEF Surjection

LEMMA AppendRow ==
  ASSUME NEW S, NEW s \in Seq(S), NEW row \in S
  PROVE  /\ Append(s, row) \in Seq(S)
         /\ Len(s) + 1 \in Nat \ {0} /\ Len(s) + 1 \notin DOMAIN s
         /\ DOMAIN Append(s, row) = DOMAIN s \union {Len(s) + 1}
         /\ \A i \in DOMAIN s : Append(s, row)[i] = s[i] /\ s[i] \in S
         /\ Append(s, row)[Len(s) + 1] = row
<1>1. /\ Len(s) \in Nat /\ DOMAIN s = 1 .. Len(s) /\ s \in [1 .. Len(s) -> S]
  BY LenProperties
<1>2. /\ Append(s, row) \in Seq(S)
      /\ DOMAIN Append(s, row) = 1 .. Len(s) + 1
  BY AppendProperties, LenProperties
<1>3. DOMAIN Append(s, row) = DOMAIN s \union {Len(s) + 1}
  BY <1>1, <1>2
<1> QED BY <1>1, <1>2, <1>3, AppendProperties

-----------------------------------------------------------------------------
(* Rows and pages: a link is only posted for the users it was sent to, by  *)
(* a user with an account; a page that is about to update a request has    *)
(* its row and the counter of its inviter.                                 *)

Linked ==
  /\ \A l \in Links : sent[l] # NotSent => account[sent[l].from] # NoUser
  /\ \A l \in Links : post[l].to # {} =>
       sent[l] # NotSent /\ post[l].to \subseteq sent[l].to
  /\ \A l \in Links : post[l].creating # {} => sent[l].type = "INVITATION"
  /\ \A e \in FbUsers : load[e].at = "update" =>
       /\ load[e].todo # << >>
       /\ load[e].row \in DOMAIN requests
       /\ requests[load[e].row].externalRequestId = Head(load[e].todo)
       /\ requests[load[e].row].inviter \in DOMAIN load[e].stats

(* The types of the rows.                                                  *)
LEMMA RowTypes ==
  ASSUME TypeOK
  PROVE  /\ Len(users) \in Nat /\ DOMAIN users = 1 .. Len(users)
         /\ Len(requests) \in Nat /\ DOMAIN requests = 1 .. Len(requests)
         /\ \A u \in DOMAIN users : users[u] \in UserRows
         /\ \A r \in DOMAIN requests :
              /\ requests[r] \in RequestRows
              /\ requests[r].inviter \in DOMAIN users
              /\ requests[r].invitee \in DOMAIN users
         /\ NoUser \notin DOMAIN users
<1>1. users \in Seq(UserRows) /\ requests \in Seq(RequestRows)
  BY DEF TypeOK
<1>2. /\ Len(users) \in Nat /\ users \in [1 .. Len(users) -> UserRows]
      /\ Len(requests) \in Nat
      /\ requests \in [1 .. Len(requests) -> RequestRows]
  BY <1>1, LenProperties
<1> QED BY <1>2 DEF TypeOK, NoUser

(* A page that is loaded, and one that stays.                              *)
LEMMA PageType ==
  ASSUME TypeOK, NEW e \in FbUsers, load[e] # NoLoad
  PROVE  /\ load[e].at \in {"signIn", "create", "links", "update"}
         /\ load[e].ids \in SUBSET Links
         /\ load[e].todo \in Seq(Links)
         /\ \E read \in SUBSET DOMAIN users : load[e] \in Pages(read)
BY DEF TypeOK, LoadsOK, Pages

LEMMA LoadsStay ==
  ASSUME TypeOK, NEW e \in FbUsers, NEW page,
         load' = [load EXCEPT ![e] = page],
         DOMAIN users \subseteq DOMAIN users',
         page # NoLoad => \E read \in SUBSET DOMAIN users' : page \in Pages(read)
  PROVE  /\ LoadsOK'
         /\ load'[e] = page
         /\ \A d \in FbUsers : d # e => load'[d] = load[d]
<1>1. /\ load'[e] = page /\ DOMAIN load' = FbUsers
      /\ \A d \in FbUsers : d # e => load'[d] = load[d]
  BY DEF TypeOK, LoadsOK
<1>2. ASSUME NEW d \in FbUsers, load'[d] # NoLoad
      PROVE  \E read \in SUBSET DOMAIN users' : load'[d] \in Pages(read)
  <2>1. CASE d = e
    BY <1>1, <1>2, <2>1
  <2>2. CASE d # e
    BY <1>1, <1>2, <2>2 DEF TypeOK, LoadsOK
  <2> QED BY <2>1, <2>2
<1> QED BY <1>1, <1>2 DEF LoadsOK, Pages

(* UpdateRequest, row by row.                                              *)
LEMMA UpdateFacts ==
  ASSUME TypeOK, Linked, NEW e \in FbUsers, UpdateRequest(e)
  PROVE  LET r == load[e].row
             u == requests[r].inviter
             accepted == load[e].stats[u] + Count(requests[r].type)
         IN  /\ load[e].at = "update" /\ load[e] # NoLoad
             /\ r \in DOMAIN requests /\ u \in DOMAIN users
             /\ load[e].stats[u] \in Nat
             /\ DOMAIN users' = DOMAIN users
             /\ DOMAIN requests' = DOMAIN requests
             /\ users' \in Seq(UserRows) /\ requests' \in Seq(RequestRows)
             /\ \A v \in DOMAIN users :
                  /\ users'[v].externalId = users[v].externalId
                  /\ users'[v].sentInvitesAccepted =
                       IF v = u /\ requests[r].type = "INVITATION" THEN accepted
                       ELSE users[v].sentInvitesAccepted
             /\ \A s \in DOMAIN requests : s # r => requests'[s] = requests[s]
             /\ requests'[r].status = "ACCEPTED"
             /\ requests'[r].externalRequestId = requests[r].externalRequestId
             /\ requests'[r].type = requests[r].type
             /\ requests'[r].inviter = requests[r].inviter
             /\ requests'[r].invitee = requests[r].invitee
             /\ load'[e] # NoLoad /\ LoadsOK'
             /\ load'[e].at = "links"
             /\ load'[e].ids = load[e].ids
             /\ load'[e].todo = Tail(load[e].todo)
             /\ \A d \in FbUsers : d # e => load'[d] = load[d]
<1> DEFINE r == load[e].row
           u == requests[r].inviter
           n == load[e].stats[u]
           accepted == n + Count(requests[r].type)
           page == [load[e] EXCEPT !.at = "links", !.todo = Tail(@),
                                   !.stats[u] = accepted]
           row(v) == IF v = u /\ accepted # n
                     THEN [users[v] EXCEPT !.sentInvitesAccepted = accepted]
                     ELSE IF v = requests[r].invitee
                               /\ requests[r].type = "INVITATION"
                     THEN [users[v] EXCEPT !.status = "LIVE"] ELSE users[v]
<1>1. load[e].at = "update" /\ load[e] # NoLoad
  BY DEF UpdateRequest, NoLoad
<1>2. PICK read \in SUBSET DOMAIN users : load[e] \in Pages(read)
  BY <1>1, PageType
<1>3. /\ r \in DOMAIN requests /\ requests[r] \in RequestRows
      /\ u \in DOMAIN users /\ u \in read /\ load[e].todo # << >>
      /\ requests[r].type \in Types
  BY <1>1, <1>2, RowTypes DEF Linked, Pages, RequestRows
<1>4. n \in Nat /\ load[e].stats \in [read -> Nat]
  BY <1>2, <1>3 DEF Pages
<1>5. accepted \in Nat
      /\ (accepted # n <=> requests[r].type = "INVITATION")
      /\ (requests[r].type # "INVITATION" => accepted = n)
  BY <1>3, <1>4 DEF Count, Types
<1>6. page \in Pages(read) /\ page # NoLoad
      /\ page.at = "links" /\ page.ids = load[e].ids
      /\ page.todo = Tail(load[e].todo)
  <2>1. Tail(load[e].todo) \in Seq(Links)
    BY <1>2, <1>3, HeadTailProperties DEF Pages
  <2>2. [load[e].stats EXCEPT ![u] = accepted] \in [read -> Nat]
    BY <1>4, <1>5
  <2>3. page = [load[e] EXCEPT !.at = "links", !.todo = Tail(load[e].todo),
                  !.stats = [load[e].stats EXCEPT ![u] = accepted]]
    BY <1>2 DEF Pages
  <2> HIDE DEF page, accepted, n
  <2>4. page \in Pages(read) /\ page.at = "links" /\ page.ids = load[e].ids
        /\ page.todo = Tail(load[e].todo)
    BY <1>2, <2>1, <2>2, <2>3 DEF Pages
  <2> QED BY <2>4, Absent
<1>7. /\ requests' = [requests EXCEPT ![r] = Accepted(@)]
      /\ users' = [v \in DOMAIN users |-> row(v)]
      /\ load' = [load EXCEPT ![e] = page]
  BY <1>1, <1>2, <1>3 DEF UpdateRequest, TypeOK, LoadsOK, Pages
<1>8. LoadsOK' /\ load'[e] = page
      /\ \A d \in FbUsers : d # e => load'[d] = load[d]
  <2>1. DOMAIN users' = DOMAIN users
    BY <1>7
  <2> HIDE DEF page
  <2> QED BY <1>6, <1>7, <2>1, LoadsStay
<1>9. /\ DOMAIN users' = DOMAIN users /\ users' \in Seq(UserRows)
      /\ \A v \in DOMAIN users :
           /\ users'[v].externalId = users[v].externalId
           /\ users'[v].sentInvitesAccepted =
                IF v = u /\ requests[r].type = "INVITATION" THEN accepted
                ELSE users[v].sentInvitesAccepted
  <2>1. \A v \in DOMAIN users :
          /\ row(v) \in UserRows
          /\ row(v).externalId = users[v].externalId
          /\ row(v).sentInvitesAccepted =
               IF v = u /\ requests[r].type = "INVITATION" THEN accepted
               ELSE users[v].sentInvitesAccepted
    <3> SUFFICES ASSUME NEW v \in DOMAIN users
                 PROVE  /\ row(v) \in UserRows
                        /\ row(v).externalId = users[v].externalId
                        /\ row(v).sentInvitesAccepted =
                             IF v = u /\ requests[r].type = "INVITATION"
                             THEN accepted ELSE users[v].sentInvitesAccepted
      OBVIOUS
    <3>1. users[v] \in UserRows
      BY RowTypes
    <3> HIDE DEF accepted, n
    <3> QED BY <1>5, <3>1 DEF UserRows
  <2> HIDE DEF row
  <2>2. users' \in [1 .. Len(users) -> UserRows]
    BY <1>7, <2>1, RowTypes
  <2> QED BY <1>7, <2>1, <2>2, RowTypes, SeqDef
<1>10. /\ DOMAIN requests' = DOMAIN requests
       /\ requests' \in Seq(RequestRows)
       /\ \A s \in DOMAIN requests : s # r => requests'[s] = requests[s]
       /\ requests'[r] = Accepted(requests[r])
  <2>1. Accepted(requests[r]) \in RequestRows
    BY <1>3 DEF Accepted, RequestRows
  <2>2. /\ requests' \in [1 .. Len(requests) -> RequestRows]
        /\ \A s \in DOMAIN requests : s # r => requests'[s] = requests[s]
        /\ requests'[r] = Accepted(requests[r])
    BY <1>3, <1>7, <2>1, RowTypes
  <2> QED BY <2>2, RowTypes, SeqDef
<1>11. /\ Accepted(requests[r]).status = "ACCEPTED"
       /\ Accepted(requests[r]).externalRequestId = requests[r].externalRequestId
       /\ Accepted(requests[r]).type = requests[r].type
       /\ Accepted(requests[r]).inviter = requests[r].inviter
       /\ Accepted(requests[r]).invitee = requests[r].invitee
  BY <1>3 DEF Accepted, RequestRows
<1> HIDE DEF page, row
<1> QED BY <1>1, <1>3, <1>4, <1>6, <1>8, <1>9, <1>10, <1>11

(* The rows that a step appends, and those that it keeps.                  *)
StepKeepsRows ==
  /\ DOMAIN users \subseteq DOMAIN users'
  /\ \A u \in DOMAIN users : users'[u].externalId = users[u].externalId
  /\ DOMAIN requests \subseteq DOMAIN requests'
  /\ \A r \in DOMAIN requests :
       /\ requests'[r].externalRequestId = requests[r].externalRequestId
       /\ requests'[r].type = requests[r].type
       /\ requests'[r].inviter = requests[r].inviter
       /\ requests'[r].invitee = requests[r].invitee
       /\ requests'[r].status \in {requests[r].status, "ACCEPTED"}

(* The fields of callbacks and of ClearRequests.                           *)
LEMMA PostFacts ==
  ASSUME TypeOK, NEW l \in Links, NEW to \in SUBSET FbUsers,
         post' = [post EXCEPT ![l].to = to]
  PROVE  /\ post' \in [Links -> Posts]
         /\ post'[l].to = to /\ post'[l].creating = post[l].creating
         /\ \A k \in Links : k # l => post'[k] = post[k]
<1> DEFINE p == [post[l] EXCEPT !.to = to]
<1>1. p \in Posts /\ p.to = to /\ p.creating = post[l].creating
  BY DEF TypeOK, Posts
<1>2. post' = [post EXCEPT ![l] = p]
  OBVIOUS
<1>3. post \in [Links -> Posts]
  BY DEF TypeOK
<1> HIDE DEF p
<1> QED BY <1>1, <1>2, <1>3

LEMMA SendFacts ==
  ASSUME TypeOK, Linked, NEW e \in FbUsers, NEW l \in Links, Send(e, l)
  PROVE  /\ account[e] # NoUser /\ sent[l] = NotSent
         /\ sent'[l] # NotSent
         /\ sent'[l].from = e /\ sent'[l].to \subseteq FbUsers
         /\ \A k \in Links : k # l => sent'[k] = sent[k]
         /\ sent' \in
              [Links -> [type : Types, from : FbUsers, to : SUBSET FbUsers]
                          \union {NotSent}]
         /\ inbox' \in [FbUsers -> SUBSET Links]
         /\ inbox' = [b \in FbUsers |->
                        IF b \in sent'[l].to THEN inbox[b] \union {l}
                        ELSE inbox[b]]
         /\ post[l].to = {} /\ post[l].creating = {}
         /\ post'[l].to = sent'[l].to /\ post'[l].creating = {}
         /\ \A k \in Links : k # l => post'[k] = post[k]
         /\ post' \in [Links -> Posts]
<1>1. PICK type \in Types, to \in (SUBSET (FbUsers \ {e})) \ {{}} :
        /\ sent' = [sent EXCEPT ![l] = [type |-> type, from |-> e, to |-> to]]
        /\ inbox' = [b \in FbUsers |->
                       IF b \in to THEN inbox[b] \union {l} ELSE inbox[b]]
        /\ post' = [post EXCEPT ![l].to = to]
  BY DEF Send
<1> DEFINE mail == [type |-> type, from |-> e, to |-> to]
<1>2. /\ mail \in [type : Types, from : FbUsers, to : SUBSET FbUsers]
      /\ mail.from = e /\ mail.to = to
  OBVIOUS
<1> HIDE DEF mail
<1>3. /\ sent'[l] = mail /\ sent'[l] # NotSent
      /\ \A k \in Links : k # l => sent'[k] = sent[k]
      /\ sent' \in [Links -> [type : Types, from : FbUsers, to : SUBSET FbUsers]
                               \union {NotSent}]
  BY <1>1, <1>2, Absent DEF TypeOK, mail
<1>4. inbox' \in [FbUsers -> SUBSET Links]
  BY <1>1 DEF TypeOK
<1>5. /\ account[e] # NoUser /\ sent[l] = NotSent
      /\ post[l].to = {} /\ post[l].creating = {}
  BY DEF Send, Linked, TypeOK
<1>6. /\ post' \in [Links -> Posts]
      /\ post'[l].to = to /\ post'[l].creating = {}
      /\ \A k \in Links : k # l => post'[k] = post[k]
  BY <1>1, <1>5, PostFacts
<1> QED BY <1>1, <1>2, <1>3, <1>4, <1>5, <1>6

LEMMA LoadPageFacts ==
  ASSUME TypeOK, NEW e \in FbUsers, LoadPage(e)
  PROVE  /\ load[e] = NoLoad /\ load'[e] # NoLoad /\ LoadsOK'
         /\ load'[e].at \in {"signIn", "links"}
         /\ load'[e].ids \subseteq inbox[e] \union followed[e]
         /\ \A l : l \in load'[e].ids <=>
              \E i \in DOMAIN load'[e].todo : load'[e].todo[i] = l
         /\ \A d \in FbUsers : d # e => load'[d] = load[d]
         /\ clear' \in [FbUsers -> Clears]
         /\ \A d \in FbUsers : clear'[d].unknown = clear[d].unknown
         /\ followed' \in [FbUsers -> SUBSET Links]
         /\ followed'[e] = followed[e] \union load'[e].ids
         /\ \A d \in FbUsers : d # e => followed'[d] = followed[d]
<1>1. PICK ids \in SUBSET (inbox[e] \union followed[e]), signed \in BOOLEAN :
        \E todo \in SetToSeqs(ids) :
          /\ load' = [load EXCEPT ![e] =
                        [at |-> IF signed THEN "signIn" ELSE "links",
                         ids |-> ids, todo |-> todo, row |-> 0,
                         stats |-> << >>]]
          /\ clear' = [clear EXCEPT ![e].first = @ \/ signed]
          /\ followed' = [followed EXCEPT ![e] = @ \union ids]
  BY DEF LoadPage
<1>2. PICK todo \in SetToSeqs(ids) :
        load' = [load EXCEPT ![e] =
                   [at |-> IF signed THEN "signIn" ELSE "links",
                    ids |-> ids, todo |-> todo, row |-> 0, stats |-> << >>]]
  BY <1>1
<1>3. /\ ids \in SUBSET Links /\ todo \in Seq(Links)
      /\ \A l : l \in ids <=> \E i \in DOMAIN todo : todo[i] = l
  BY TodoOfIds DEF TypeOK
<1> DEFINE page == [at |-> IF signed THEN "signIn" ELSE "links",
                    ids |-> ids, todo |-> todo, row |-> 0, stats |-> << >>]
<1>4. /\ page \in Pages({}) /\ page # NoLoad
      /\ page.at \in {"signIn", "links"}
      /\ page.ids = ids /\ page.todo = todo
  <2>1. << >> \in [{} -> Nat]
    OBVIOUS
  <2>2. page \in Pages({}) /\ page.at \in {"signIn", "links"}
        /\ page.ids = ids /\ page.todo = todo
    BY <1>3, <2>1 DEF Pages
  <2> QED BY <2>2, Absent
<1>5. load[e] = NoLoad /\ users' = users
  BY DEF LoadPage, rows
<1> HIDE DEF page
<1>6. /\ LoadsOK' /\ load'[e] = page
      /\ \A d \in FbUsers : d # e => load'[d] = load[d]
  BY <1>2, <1>4, <1>5, LoadsStay DEF page
<1>7. /\ clear' \in [FbUsers -> Clears]
      /\ \A d \in FbUsers : clear'[d].unknown = clear[d].unknown
  <2> DEFINE c == [clear[e] EXCEPT !.first = @ \/ signed]
  <2>1. /\ c \in Clears /\ c.unknown = clear[e].unknown
        /\ clear \in [FbUsers -> Clears]
    BY DEF TypeOK, Clears
  <2>2. clear' = [clear EXCEPT ![e] = c]
    BY <1>1
  <2> HIDE DEF c
  <2> QED BY <2>1, <2>2
<1>8. /\ followed' \in [FbUsers -> SUBSET Links]
      /\ followed'[e] = followed[e] \union ids
      /\ \A d \in FbUsers : d # e => followed'[d] = followed[d]
  BY <1>1, <1>3 DEF TypeOK
<1> QED BY <1>3, <1>4, <1>5, <1>6, <1>7, <1>8

(* A page that signs in or has a user stored.                              *)
LEMMA AtFacts ==
  ASSUME TypeOK, NEW e \in FbUsers, load[e] # NoLoad,
         NEW at \in {"create", "links"},
         load' = [load EXCEPT ![e].at = at],
         DOMAIN users \subseteq DOMAIN users'
  PROVE  /\ LoadsOK' /\ load'[e] # NoLoad
         /\ load'[e].at = at
         /\ load'[e].ids = load[e].ids /\ load'[e].todo = load[e].todo
         /\ \A d \in FbUsers : d # e => load'[d] = load[d]
<1> DEFINE page == [load[e] EXCEPT !.at = at]
<1>1. PICK read \in SUBSET DOMAIN users : load[e] \in Pages(read)
  BY PageType
<1>2. /\ page \in Pages(read) /\ page.at = at
      /\ page.ids = load[e].ids /\ page.todo = load[e].todo
  BY <1>1 DEF Pages
<1>3. load' = [load EXCEPT ![e] = page]
  OBVIOUS
<1> HIDE DEF page
<1>4. page # NoLoad /\ \E S \in SUBSET DOMAIN users' : page \in Pages(S)
  BY <1>2, Absent
<1> QED BY <1>2, <1>3, <1>4, LoadsStay

LEMMA SignInFacts ==
  ASSUME TypeOK, NEW e \in FbUsers, SignIn(e)
  PROVE  /\ LoadsOK' /\ load[e] # NoLoad /\ load'[e] # NoLoad
         /\ load'[e].at = IF UsersOf(e) = {} THEN "create" ELSE "links"
         /\ load'[e].ids = load[e].ids /\ load'[e].todo = load[e].todo
         /\ \A d \in FbUsers : d # e => load'[d] = load[d]
<1>1. load[e] # NoLoad /\ users' = users
  BY DEF SignIn, NoLoad, rows
<1>2. CASE UsersOf(e) = {}
  <2>1. load' = [load EXCEPT ![e].at = "create"]
    BY <1>2 DEF SignIn
  <2> QED BY <1>1, <1>2, <2>1, AtFacts
<1>3. CASE UsersOf(e) # {}
  <2>1. load' = [load EXCEPT ![e].at = "links"]
    BY <1>3 DEF SignIn
  <2> QED BY <1>1, <1>3, <2>1, AtFacts
<1> QED BY <1>2, <1>3

LEMMA InviteFacts ==
  ASSUME TypeOK, NEW l \in Links, NEW b \in FbUsers, Invite(l, b)
  PROVE  /\ b \in post[l].to /\ post[l].creating = {}
         /\ \/ /\ UsersOf(b) = {}
               /\ post'[l].to = post[l].to /\ post'[l].creating = {b}
               /\ raced' = IF BeingCreated(b) THEN raced \union {b} ELSE raced
            \/ /\ UsersOf(b) # {} /\ raced' = raced
               /\ post'[l].to = post[l].to \ {b} /\ post'[l].creating = {}
         /\ \A k \in Links : k # l => post'[k] = post[k]
         /\ post' \in [Links -> Posts]
<1>1. /\ b \in post[l].to /\ post[l].creating = {}
      /\ IF UsersOf(b) = {}
         THEN /\ post' = [post EXCEPT ![l].creating = {b}]
              /\ raced' = IF BeingCreated(b) THEN raced \union {b} ELSE raced
         ELSE /\ post' = [post EXCEPT ![l].to = @ \ {b}]
              /\ raced' = raced
  BY DEF Invite
<1>2. CASE UsersOf(b) = {}
  <2> DEFINE p == [post[l] EXCEPT !.creating = {b}]
  <2>1. p \in Posts /\ p.to = post[l].to /\ p.creating = {b}
    BY DEF TypeOK, Posts
  <2>2. post' = [post EXCEPT ![l] = p]
    BY <1>1, <1>2
  <2> HIDE DEF p
  <2>3. /\ post'[l] = p /\ post' \in [Links -> Posts]
        /\ \A k \in Links : k # l => post'[k] = post[k]
    BY <2>1, <2>2 DEF TypeOK
  <2> HIDE DEF Posts
  <2> QED BY <1>1, <1>2, <2>1, <2>3
<1>3. CASE UsersOf(b) # {}
  <2>1. post[l].to \ {b} \in SUBSET FbUsers
    BY DEF TypeOK, Posts
  <2>2. post' = [post EXCEPT ![l].to = post[l].to \ {b}]
    BY <1>1, <1>3 DEF TypeOK
  <2> QED BY <1>1, <1>3, <2>1, <2>2, PostFacts
<1> QED BY <1>2, <1>3

LEMMA ClearReadFacts ==
  ASSUME TypeOK, NEW e \in FbUsers, ClearRead(e)
  PROVE  /\ clear' \in [FbUsers -> Clears]
         /\ clear'[e].unknown \in
              {clear[e].unknown, clear[e].unknown \union Unknown(e)}
         /\ \A d \in FbUsers : d # e => clear'[d] = clear[d]
         /\ early' = early \union {l \in inbox[e] : post[l].to # {}}
         /\ early' \subseteq Links
<1> DEFINE unknown ==
      IF \E l \in inbox[e] : Cardinality(RequestsOf(l)) > 1
      THEN clear[e].unknown ELSE clear[e].unknown \union Unknown(e)
           c == [clear[e] EXCEPT !.due = @ - 1, !.unknown = unknown]
<1>1. /\ clear[e] \in Clears /\ clear[e].due > 0
      /\ clear' = [clear EXCEPT
           ![e].due = @ - 1,
           ![e].unknown = IF \E l \in inbox[e] : Cardinality(RequestsOf(l)) > 1
                          THEN @ ELSE @ \union Unknown(e)]
      /\ early' = early \union {l \in inbox[e] : post[l].to # {}}
  BY DEF ClearRead, TypeOK
<1>2. clear' = [clear EXCEPT ![e] = c]
  <2>1. clear[e] = [first |-> clear[e].first, due |-> clear[e].due,
                    unknown |-> clear[e].unknown] /\ e \in DOMAIN clear
    BY <1>1 DEF TypeOK, Clears
  <2> QED BY <1>1, <2>1
<1>3. inbox[e] \subseteq Links /\ Unknown(e) \subseteq Links
  BY DEF TypeOK, Unknown
<1>4. unknown \in {clear[e].unknown, clear[e].unknown \union Unknown(e)}
      /\ unknown \subseteq Links
  BY <1>1, <1>3 DEF Clears
<1> HIDE DEF unknown
<1>5. c \in Clears /\ c.unknown = unknown
  <2>1. clear[e].due - 1 \in Nat
    BY <1>1 DEF Clears
  <2> QED BY <1>1, <1>4, <2>1 DEF Clears
<1> HIDE DEF c
<1> QED BY <1>1, <1>2, <1>3, <1>4, <1>5 DEF TypeOK

LEMMA ClearDeleteFacts ==
  ASSUME TypeOK, NEW e \in FbUsers, ClearDelete(e)
  PROVE  /\ clear' \in [FbUsers -> Clears]
         /\ inbox' \in [FbUsers -> SUBSET Links]
         /\ \E l \in clear[e].unknown :
              /\ clear'[e].unknown = clear[e].unknown \ {l}
              /\ inbox'[e] = inbox[e] \ {l}
         /\ \A d \in FbUsers :
              d # e => clear'[d] = clear[d] /\ inbox'[d] = inbox[d]
<1>1. PICK l \in clear[e].unknown :
        /\ clear' = [clear EXCEPT ![e].unknown = @ \ {l}]
        /\ inbox' = [inbox EXCEPT ![e] = @ \ {l}]
  BY DEF ClearDelete
<1> DEFINE c == [clear[e] EXCEPT !.unknown = @ \ {l}]
<1>2. c \in Clears /\ c.unknown = clear[e].unknown \ {l}
  BY DEF TypeOK, Clears
<1>3. clear' = [clear EXCEPT ![e] = c]
  BY <1>1 DEF TypeOK
<1> HIDE DEF c
<1> QED BY <1>1, <1>2, <1>3 DEF TypeOK

LEMMA DeleteLinksFacts ==
  ASSUME TypeOK, NEW e \in FbUsers, DeleteLinks(e)
  PROVE  /\ inbox' \in [FbUsers -> SUBSET Links]
         /\ inbox'[e] = inbox[e] \ load[e].ids
         /\ clear' \in [FbUsers -> Clears]
         /\ \A d \in FbUsers : clear'[d].unknown = clear[d].unknown
         /\ \A d \in FbUsers : d # e => inbox'[d] = inbox[d]
<1>1. /\ inbox' = [inbox EXCEPT ![e] = @ \ load[e].ids]
      /\ clear' = IF clear[e].first
                  THEN [clear EXCEPT ![e].first = FALSE, ![e].due = @ + 1]
                  ELSE clear
  BY DEF DeleteLinks
<1>2. /\ inbox' \in [FbUsers -> SUBSET Links]
      /\ inbox'[e] = inbox[e] \ load[e].ids
      /\ \A d \in FbUsers : d # e => inbox'[d] = inbox[d]
  BY <1>1 DEF TypeOK
<1> DEFINE c == [clear[e] EXCEPT !.first = FALSE, !.due = clear[e].due + 1]
<1>3. clear \in [FbUsers -> Clears] /\ clear[e].due \in Nat
  BY DEF TypeOK, Clears
<1>4. clear[e].due + 1 \in Nat
  BY <1>3
<1>5. c \in Clears /\ c.unknown = clear[e].unknown
  BY <1>3, <1>4 DEF Clears
<1>6. clear' \in {clear, [clear EXCEPT ![e] = c]}
  BY <1>1
<1> HIDE DEF c
<1> QED BY <1>2, <1>3, <1>5, <1>6

(* Looking for the request of the next link.                               *)
LEMMA FindFacts ==
  ASSUME TypeOK, NEW e \in FbUsers, FindRequest(e)
  PROVE  LET l == Head(load[e].todo)
         IN  /\ load[e].at = "links" /\ load[e] # NoLoad
             /\ load[e].todo # << >> /\ l \in Links
             /\ early' = IF post[l].to # {} THEN early \union {l} ELSE early
             /\ LoadsOK'
             /\ \A d \in FbUsers : d # e => load'[d] = load[d]
             /\ \/ Cardinality(RequestsOf(l)) > 1 /\ load'[e] = NoLoad
                \/ /\ load'[e] # NoLoad /\ load'[e].ids = load[e].ids
                   /\ \/ /\ RequestsOf(l) = {}
                         /\ load'[e].at = "links"
                         /\ load'[e].todo = Tail(load[e].todo)
                      \/ /\ load'[e].row \in RequestsOf(l)
                         /\ RequestsOf(l) = {load'[e].row}
                         /\ load'[e].at = "update"
                         /\ load'[e].todo = load[e].todo
                         /\ requests[load'[e].row].inviter
                              \in DOMAIN load'[e].stats
<1> DEFINE l == Head(load[e].todo)
<1>1. /\ load[e].at = "links" /\ load[e].todo # << >>
      /\ load[e] # NoLoad
      /\ early' = IF post[l].to # {} THEN early \union {l} ELSE early
      /\ users' = users
  <2>1. load[e].at = "links" /\ load[e].todo # << >>
    BY DEF FindRequest
  <2>2. early' = IF post[l].to # {} THEN early \union {l} ELSE early
    BY Zenon DEF FindRequest
  <2>3. users' = users
    BY DEF FindRequest, rows
  <2> HIDE DEF l
  <2> QED BY <2>1, <2>2, <2>3 DEF NoLoad
<1>2. PICK read \in SUBSET DOMAIN users : load[e] \in Pages(read)
  BY <1>1, PageType
<1>3. l \in Links /\ Tail(load[e].todo) \in Seq(Links)
  BY <1>1, <1>2, HeadTailProperties DEF Pages
<1>4. ASSUME load' = [load EXCEPT ![e].todo = Tail(@)]
      PROVE  /\ load'[e] # NoLoad /\ LoadsOK' /\ load'[e].at = "links"
             /\ load'[e].ids = load[e].ids
             /\ load'[e].todo = Tail(load[e].todo)
             /\ \A d \in FbUsers : d # e => load'[d] = load[d]
  <2> DEFINE page == [load[e] EXCEPT !.todo = Tail(load[e].todo)]
  <2>1. /\ page \in Pages(read) /\ page.at = "links"
        /\ page.ids = load[e].ids /\ page.todo = Tail(load[e].todo)
    BY <1>1, <1>2, <1>3 DEF Pages
  <2>2. load' = [load EXCEPT ![e] = page]
    BY <1>4
  <2> HIDE DEF page
  <2>3. page # NoLoad
    BY <2>1, Absent
  <2> QED BY <1>1, <2>1, <2>2, <2>3, LoadsStay
<1>5. ASSUME load' = [load EXCEPT ![e] = NoLoad]
      PROVE  /\ load'[e] = NoLoad /\ LoadsOK'
             /\ \A d \in FbUsers : d # e => load'[d] = load[d]
  BY <1>1, <1>5, LoadsStay
<1>6. ASSUME NEW r \in RequestsOf(l), RequestsOf(l) = {r},
             load' = [load EXCEPT ![e].at = "update", ![e].row = r,
                        ![e].stats =
                          [v \in {requests[r].inviter}
                                   \union DOMAIN load[e].stats |-> Stats(e, v)]]
      PROVE  /\ load'[e] # NoLoad /\ LoadsOK'
             /\ load'[e].at = "update" /\ load'[e].row = r
             /\ load'[e].ids = load[e].ids /\ load'[e].todo = load[e].todo
             /\ requests[r].inviter \in DOMAIN load'[e].stats
             /\ \A d \in FbUsers : d # e => load'[d] = load[d]
  <2> DEFINE u == requests[r].inviter
             stats == [v \in {u} \union DOMAIN load[e].stats |-> Stats(e, v)]
             page == [load[e] EXCEPT !.at = "update", !.row = r, !.stats = stats]
  <2>1. u \in DOMAIN users /\ users[u] \in UserRows /\ r \in Nat
    BY <1>6, RowTypes DEF RequestsOf
  <2>2. DOMAIN load[e].stats = read
    BY <1>2 DEF Pages
  <2>3. stats \in [read \union {u} -> Nat]
    BY <1>2, <2>1, <2>2 DEF Pages, Stats, UserRows
  <2>4. load' = [load EXCEPT ![e] = page]
    BY <1>6
  <2> HIDE DEF stats, u
  <2>5. /\ page \in Pages(read \union {u}) /\ page.at = "update"
        /\ page.row = r /\ page.ids = load[e].ids
        /\ page.todo = load[e].todo /\ page.stats = stats
    BY <1>2, <2>1, <2>3 DEF Pages
  <2>6. (read \union {u}) \in SUBSET DOMAIN users
    BY <2>1
  <2>7. u \in DOMAIN stats
    BY <2>3
  <2> HIDE DEF page
  <2>9. page # NoLoad /\ \E S \in SUBSET DOMAIN users' : page \in Pages(S)
    BY <1>1, <2>5, <2>6, Absent
  <2>8. LoadsOK' /\ load'[e] = page /\ page # NoLoad
        /\ \A d \in FbUsers : d # e => load'[d] = load[d]
    BY <1>1, <2>4, <2>9, LoadsStay
  <2> QED BY <2>5, <2>7, <2>8 DEF u
<1>7. \/ RequestsOf(l) = {} /\ load' = [load EXCEPT ![e].todo = Tail(@)]
      \/ Cardinality(RequestsOf(l)) > 1 /\ load' = [load EXCEPT ![e] = NoLoad]
      \/ \E r \in RequestsOf(l) :
           /\ RequestsOf(l) = {r}
           /\ load' = [load EXCEPT ![e].at = "update", ![e].row = r,
                         ![e].stats =
                           [v \in {requests[r].inviter}
                                    \union DOMAIN load[e].stats |->
                              Stats(e, v)]]
  BY DEF FindRequest
<1>8. \/ Cardinality(RequestsOf(l)) > 1 /\ load'[e] = NoLoad
      \/ /\ load'[e] # NoLoad /\ load'[e].ids = load[e].ids
         /\ \/ /\ RequestsOf(l) = {}
               /\ load'[e].at = "links"
               /\ load'[e].todo = Tail(load[e].todo)
            \/ /\ load'[e].row \in RequestsOf(l)
               /\ RequestsOf(l) = {load'[e].row}
               /\ load'[e].at = "update"
               /\ load'[e].todo = load[e].todo
               /\ requests[load'[e].row].inviter \in DOMAIN load'[e].stats
  BY <1>4, <1>5, <1>6, <1>7
<1>9. LoadsOK' /\ \A d \in FbUsers : d # e => load'[d] = load[d]
  BY <1>4, <1>5, <1>6, <1>7
<1> QED BY <1>1, <1>3, <1>8, <1>9

(* A callback stores a request for a receiver with a row.                  *)
StoresRequest(l, b, invitee) ==
  /\ sent[l] # NotSent
  /\ account[sent[l].from] \in DOMAIN users
  /\ requests' =
       Append(requests, NewRequest(l, account[sent[l].from], invitee))
  /\ NewRequest(l, account[sent[l].from], invitee) \in RequestRows
  /\ invitee \in DOMAIN users'
  /\ users'[invitee].externalId = b
  /\ b \in post[l].to

LEMMA StoreInviteFacts ==
  ASSUME TypeOK, Linked, NEW l \in Links, NEW b \in FbUsers, StoreInvite(l, b)
  PROVE  LET u == Len(users) + 1
         IN  /\ b \in post[l].creating
             /\ users' \in Seq(UserRows) /\ u \in Nat \ {0}
             /\ DOMAIN users' = DOMAIN users \union {u} /\ u \notin DOMAIN users
             /\ \A v \in DOMAIN users : users'[v] = users[v]
             /\ users'[u].externalId = b /\ users'[u].sentInvitesAccepted = 0
             /\ StoresRequest(l, b, u)
             /\ post'[l].to = post[l].to \ {b} /\ post'[l].creating = {}
             /\ \A k \in Links : k # l => post'[k] = post[k]
             /\ post' \in [Links -> Posts]
<1> DEFINE u == Len(users) + 1
           row == NewUser(b, "INVITED")
           request == NewRequest(l, account[sent[l].from], u)
<1>1. /\ b \in post[l].creating /\ b \in post[l].to
      /\ users' = Append(users, row)
      /\ requests' = Append(requests, request)
      /\ post' = [post EXCEPT ![l] = [to |-> @.to \ {b}, creating |-> {}]]
  BY DEF StoreInvite, TypeOK
<1>2. row \in UserRows /\ row.externalId = b /\ row.sentInvitesAccepted = 0
  BY DEF NewUser, UserRows
<1>3. users \in Seq(UserRows) /\ requests \in Seq(RequestRows)
  BY DEF TypeOK
<1>4. /\ users' \in Seq(UserRows) /\ u \in Nat \ {0}
      /\ DOMAIN users' = DOMAIN users \union {u} /\ u \notin DOMAIN users
      /\ \A v \in DOMAIN users : users'[v] = users[v]
      /\ users'[u] = row
  <2> HIDE DEF row
  <2> QED BY <1>1, <1>2, <1>3, AppendRow
<1>5. /\ sent[l] # NotSent
      /\ sent[l] \in [type : Types, from : FbUsers, to : SUBSET FbUsers]
      /\ account[sent[l].from] \in DOMAIN users
  BY <1>1, RowTypes DEF Linked, TypeOK
<1>6. request \in RequestRows
  BY <1>4, <1>5, RowTypes DEF NewRequest, RequestRows
<1>7. /\ post'[l].to = post[l].to \ {b} /\ post'[l].creating = {}
      /\ \A k \in Links : k # l => post'[k] = post[k]
      /\ post' \in [Links -> Posts]
  <2> DEFINE p == [to |-> post[l].to \ {b}, creating |-> {}]
  <2>1. post \in [Links -> Posts] /\ post' = [post EXCEPT ![l] = p]
    BY <1>1 DEF TypeOK
  <2>2. p \in Posts /\ p.to = post[l].to \ {b} /\ p.creating = {}
    BY <2>1 DEF Posts
  <2> HIDE DEF p
  <2> QED BY <2>1, <2>2
<1> QED BY <1>1, <1>2, <1>4, <1>5, <1>6, <1>7 DEF StoresRequest

LEMMA ChallengeFacts ==
  ASSUME TypeOK, Linked, NEW l \in Links, NEW b \in FbUsers, Challenge(l, b)
  PROVE  /\ users' = users
         /\ b \in post[l].to
         /\ \/ post'[l].to = {} /\ requests' = requests
            \/ /\ post'[l].to = post[l].to \ {b}
               /\ \E u \in UsersOf(b) : StoresRequest(l, b, u)
         /\ post'[l].creating = post[l].creating
         /\ \A k \in Links : k # l => post'[k] = post[k]
         /\ post' \in [Links -> Posts]
<1>1. /\ users' = users
      /\ b \in post[l].to
      /\ \/ post' = [post EXCEPT ![l].to = {}] /\ requests' = requests
         \/ /\ post' = [post EXCEPT ![l].to = @ \ {b}]
            /\ \E u \in UsersOf(b) :
                 requests' =
                   Append(requests, NewRequest(l, account[sent[l].from], u))
  BY DEF Challenge
<1>2. /\ sent[l] # NotSent
      /\ sent[l] \in [type : Types, from : FbUsers, to : SUBSET FbUsers]
      /\ account[sent[l].from] \in DOMAIN users
  BY <1>1, RowTypes DEF Linked, TypeOK
<1>3. \A u \in UsersOf(b) :
        NewRequest(l, account[sent[l].from], u) \in RequestRows
  BY <1>2, RowTypes DEF NewRequest, RequestRows, UsersOf
<1>4. \A u \in UsersOf(b) : u \in DOMAIN users' /\ users'[u].externalId = b
  BY <1>1 DEF UsersOf
<1>5. post[l].to \ {b} \in SUBSET FbUsers /\ {} \in SUBSET FbUsers
  BY DEF TypeOK, Posts
<1>6. CASE post' = [post EXCEPT ![l].to = {}] /\ requests' = requests
  <2>1. /\ post'[l].to = {} /\ post'[l].creating = post[l].creating
        /\ \A k \in Links : k # l => post'[k] = post[k]
        /\ post' \in [Links -> Posts]
    BY <1>5, <1>6, PostFacts
  <2> QED BY <1>1, <1>6, <2>1
<1>7. CASE /\ post' = [post EXCEPT ![l].to = @ \ {b}]
           /\ \E u \in UsersOf(b) :
                requests' =
                  Append(requests, NewRequest(l, account[sent[l].from], u))
  <2>1. post' = [post EXCEPT ![l].to = post[l].to \ {b}]
    BY <1>7 DEF TypeOK
  <2>2. /\ post'[l].to = post[l].to \ {b}
        /\ post'[l].creating = post[l].creating
        /\ \A k \in Links : k # l => post'[k] = post[k]
        /\ post' \in [Links -> Posts]
    BY <1>5, <2>1, PostFacts
  <2> QED BY <1>1, <1>2, <1>3, <1>4, <1>7, <2>2 DEF StoresRequest
<1> QED BY <1>1, <1>6, <1>7

LEMMA CreateFacts ==
  ASSUME TypeOK, NEW e \in FbUsers, CreateOnSignIn(e)
  PROVE  LET u == Len(users) + 1
         IN  /\ users' \in Seq(UserRows) /\ u \in Nat \ {0}
             /\ DOMAIN users' = DOMAIN users \union {u} /\ u \notin DOMAIN users
             /\ \A v \in DOMAIN users : users'[v] = users[v]
             /\ users'[u].externalId = e /\ users'[u].sentInvitesAccepted = 0
             /\ account'[e] = u
             /\ \A d \in FbUsers : d # e => account'[d] = account[d]
             /\ LoadsOK' /\ load[e] # NoLoad /\ load'[e] # NoLoad
             /\ load'[e].at = "links"
             /\ load'[e].ids = load[e].ids /\ load'[e].todo = load[e].todo
             /\ \A d \in FbUsers : d # e => load'[d] = load[d]
<1> DEFINE u == Len(users) + 1
           row == NewUser(e, "LIVE")
<1>1. row \in UserRows /\ row.externalId = e /\ row.sentInvitesAccepted = 0
  BY DEF NewUser, UserRows
<1>2. users \in Seq(UserRows) /\ users' = Append(users, row)
      /\ account' = [account EXCEPT ![e] = Len(users')]
  BY DEF CreateOnSignIn, TypeOK
<1> HIDE DEF row
<1>3. Len(users') = u
  BY <1>1, <1>2, AppendProperties
<1>4. /\ users' \in Seq(UserRows) /\ u \in Nat \ {0}
      /\ DOMAIN users' = DOMAIN users \union {u} /\ u \notin DOMAIN users
      /\ \A v \in DOMAIN users : users'[v] = users[v]
      /\ users'[u] = row
  BY <1>1, <1>2, AppendRow
<1>5. account'[e] = u /\ \A d \in FbUsers : d # e => account'[d] = account[d]
  BY <1>2, <1>3 DEF TypeOK
<1>6. load[e] # NoLoad /\ load' = [load EXCEPT ![e].at = "links"]
  BY DEF CreateOnSignIn, NoLoad
<1>7. /\ LoadsOK' /\ load'[e] # NoLoad /\ load'[e].at = "links"
      /\ load'[e].ids = load[e].ids /\ load'[e].todo = load[e].todo
      /\ \A d \in FbUsers : d # e => load'[d] = load[d]
  BY <1>4, <1>6, AtFacts
<1> QED BY <1>1, <1>4, <1>5, <1>6, <1>7

LEMMA StoredFacts ==
  ASSUME TypeOK, NEW l \in Links, NEW b, NEW u, StoresRequest(l, b, u)
  PROVE  LET r == Len(requests) + 1
         IN  /\ requests' \in Seq(RequestRows)
             /\ DOMAIN requests' = DOMAIN requests \union {r}
             /\ r \notin DOMAIN requests
             /\ \A s \in DOMAIN requests : requests'[s] = requests[s]
             /\ requests'[r].externalRequestId = l
             /\ requests'[r].type = sent[l].type
             /\ requests'[r].status = "PENDING"
             /\ requests'[r].inviter = account[sent[l].from]
             /\ requests'[r].inviter \in DOMAIN users
             /\ requests'[r].invitee = u
             /\ u \in DOMAIN users'
<1> DEFINE row == NewRequest(l, account[sent[l].from], u)
<1>1. requests' = Append(requests, row) /\ row \in RequestRows
      /\ requests \in Seq(RequestRows)
  BY DEF StoresRequest, TypeOK
<1>2. /\ row.externalRequestId = l /\ row.type = sent[l].type
      /\ row.status = "PENDING" /\ row.inviter = account[sent[l].from]
      /\ row.invitee = u
  BY DEF NewRequest
<1> HIDE DEF row
<1> QED BY <1>1, <1>2, AppendRow DEF StoresRequest

LEMMA StoredRows ==
  ASSUME TypeOK, NEW l \in Links, NEW b, NEW u, StoresRequest(l, b, u),
         DOMAIN users \subseteq DOMAIN users'
  PROVE  \A r \in DOMAIN requests' :
           /\ requests'[r].inviter \in DOMAIN users'
           /\ requests'[r].invitee \in DOMAIN users'
<1> SUFFICES ASSUME NEW r \in DOMAIN requests'
             PROVE  /\ requests'[r].inviter \in DOMAIN users'
                    /\ requests'[r].invitee \in DOMAIN users'
  OBVIOUS
<1>1. CASE r \in DOMAIN requests
  BY <1>1, StoredFacts, RowTypes
<1>2. CASE r = Len(requests) + 1
  BY <1>2, StoredFacts
<1> QED BY <1>1, <1>2, StoredFacts

LEMMA RowsKept ==
  ASSUME TypeOK, Linked, [Next]_vars
  PROVE  StepKeepsRows
<1>1. ASSUME NEW l \in Links, NEW b, NEW u, StoresRequest(l, b, u)
      PROVE  /\ DOMAIN requests \subseteq DOMAIN requests'
             /\ \A r \in DOMAIN requests : requests'[r] = requests[r]
  BY <1>1, StoredFacts
<1>2. ASSUME NEW l \in Links, NEW b \in FbUsers, StoreInvite(l, b)
      PROVE  StepKeepsRows
  BY <1>1, <1>2, StoreInviteFacts DEF StepKeepsRows
<1>3. ASSUME NEW l \in Links, NEW b \in FbUsers, Challenge(l, b)
      PROVE  StepKeepsRows
  BY <1>1, <1>3, ChallengeFacts DEF StepKeepsRows
<1>4. ASSUME NEW e \in FbUsers, CreateOnSignIn(e)
      PROVE  StepKeepsRows
  BY <1>4, CreateFacts DEF StepKeepsRows, CreateOnSignIn
<1>5. ASSUME NEW e \in FbUsers, UpdateRequest(e)
      PROVE  StepKeepsRows
  BY <1>5, UpdateFacts DEF StepKeepsRows
<1>6. CASE UNCHANGED <<users, requests>>
  BY <1>6 DEF StepKeepsRows
<1> QED BY <1>2, <1>3, <1>4, <1>5, <1>6
        DEF Next, vars, rows, Send, Invite, LoadPage, SignIn, FindRequest,
            DeleteLinks, ClearRead, ClearDelete

LEMMA TypeStep == TypeOK /\ Linked /\ [Next]_vars => TypeOK' /\ Linked'
<1> SUFFICES ASSUME TypeOK, Linked, [Next]_vars
             PROVE  TypeOK' /\ Linked'
  OBVIOUS
<1>1. ASSUME NEW e \in FbUsers, NEW l \in Links, Send(e, l)
      PROVE  TypeOK' /\ Linked'
  <2>1. UNCHANGED <<users, requests, account, load, clear, appUsers, loads,
                    followed, early, raced, miscounted>>
    BY <1>1 DEF Send, rows, history
  <2>2. TypeOK'
    BY <1>1, <2>1, SendFacts, ZenonT(60) DEF TypeOK, LoadsOK, Pages
  <2>3. Linked'
    BY <1>1, <2>1, SendFacts DEF Linked
  <2> QED BY <2>2, <2>3
<1>2. ASSUME NEW l \in Links, NEW b \in FbUsers, Invite(l, b)
      PROVE  TypeOK' /\ Linked'
  <2>1. /\ post' \in [Links -> Posts]
        /\ \A k \in Links : /\ post'[k].creating \subseteq post'[k].to
                            /\ post'[k].to \subseteq post[k].to
                            /\ \/ post'[k].creating = post[k].creating
                               \/ sent[k].type = "INVITATION"
        /\ raced' \subseteq FbUsers
    BY <1>2, InviteFacts DEF TypeOK, Invite
  <2>2. UNCHANGED <<users, requests, account, load, clear, appUsers, sent,
                    inbox, loads, followed, early, miscounted>>
    BY <1>2 DEF Invite, rows, facebook
  <2>3. TypeOK'
    BY <2>1, <2>2 DEF TypeOK, LoadsOK, Pages
  <2>4. Linked'
    BY <2>1, <2>2 DEF Linked
  <2> QED BY <2>3, <2>4
<1>3. ASSUME NEW l \in Links, NEW b \in FbUsers, StoreInvite(l, b)
      PROVE  TypeOK' /\ Linked'
  <2>1. /\ users' \in Seq(UserRows) /\ requests' \in Seq(RequestRows)
        /\ DOMAIN users \subseteq DOMAIN users'
        /\ DOMAIN requests \subseteq DOMAIN requests'
        /\ \A r \in DOMAIN requests : requests'[r] = requests[r]
    BY <1>3, StoreInviteFacts, StoredFacts
  <2>2. \A r \in DOMAIN requests' :
          /\ requests'[r].inviter \in DOMAIN users'
          /\ requests'[r].invitee \in DOMAIN users'
    BY <1>3, <2>1, StoreInviteFacts, StoredRows
  <2>3. /\ post' \in [Links -> Posts]
        /\ \A k \in Links : /\ post'[k].creating \subseteq post'[k].to
                            /\ post'[k].to \subseteq post[k].to
                            /\ post'[k].creating \subseteq post[k].creating
    BY <1>3, StoreInviteFacts DEF TypeOK
  <2>4. UNCHANGED <<account, load, clear, appUsers, sent, inbox, loads,
                    followed, early, raced, miscounted>>
    BY <1>3 DEF StoreInvite, facebook, history
  <2>5. LoadsOK'
    BY <2>1, <2>4 DEF TypeOK, LoadsOK, Pages
  <2>6. account' \in [FbUsers -> DOMAIN users' \union {NoUser}]
        /\ miscounted' \subseteq DOMAIN users'
    BY <2>1, <2>4 DEF TypeOK
  <2>7. TypeOK'
    BY <2>1, <2>2, <2>3, <2>4, <2>5, <2>6 DEF TypeOK
  <2>8. Linked'
    BY <2>1, <2>3, <2>4 DEF Linked
  <2> QED BY <2>7, <2>8
<1>4. ASSUME NEW l \in Links, NEW b \in FbUsers, Challenge(l, b)
      PROVE  TypeOK' /\ Linked'
  <2>1. /\ requests' \in Seq(RequestRows)
        /\ DOMAIN requests \subseteq DOMAIN requests'
        /\ \A r \in DOMAIN requests : requests'[r] = requests[r]
        /\ users' = users
    BY <1>4, ChallengeFacts, StoredFacts DEF TypeOK
  <2>2. \A r \in DOMAIN requests' :
          /\ requests'[r].inviter \in DOMAIN users'
          /\ requests'[r].invitee \in DOMAIN users'
    <3>1. CASE requests' = requests
      BY <2>1, <3>1, RowTypes
    <3>2. CASE \E u \in UsersOf(b) : StoresRequest(l, b, u)
      BY <2>1, <3>2, StoredRows
    <3> QED BY <1>4, <3>1, <3>2, ChallengeFacts
  <2>3. /\ post' \in [Links -> Posts]
        /\ \A k \in Links : post'[k].to \subseteq post[k].to
    BY <1>4, ChallengeFacts
  <2>4. \A k \in Links : /\ post'[k].creating = post[k].creating
                         /\ post'[k].creating \subseteq post'[k].to
    <3>1. post[l].creating = {}
      BY <1>4 DEF Linked, Challenge
    <3> QED BY <1>4, <3>1, ChallengeFacts DEF TypeOK
  <2>5. UNCHANGED <<account, load, clear, appUsers, sent, inbox, loads,
                    followed, early, raced, miscounted>>
    BY <1>4 DEF Challenge, facebook, history
  <2>6. TypeOK'
    BY <2>1, <2>2, <2>3, <2>4, <2>5 DEF TypeOK, LoadsOK, Pages
  <2>7. Linked'
    BY <2>1, <2>3, <2>4, <2>5 DEF Linked
  <2> QED BY <2>6, <2>7
<1>5. ASSUME NEW e \in FbUsers, LoadPage(e)
      PROVE  TypeOK' /\ Linked'
  <2>1. UNCHANGED <<users, requests, account, post, sent, inbox, early, raced,
                    miscounted>>
    BY <1>5 DEF LoadPage, rows
  <2>2. appUsers' \subseteq FbUsers /\ loads' \in 0 .. MaxLoads
    BY <1>5, BoundsAssumption DEF LoadPage, TypeOK
  <2>3. TypeOK'
    BY <1>5, <2>1, <2>2, LoadPageFacts DEF TypeOK
  <2>4. Linked'
    BY <1>5, <2>1, LoadPageFacts DEF Linked
  <2> QED BY <2>3, <2>4
<1>6. ASSUME NEW e \in FbUsers, SignIn(e)
      PROVE  TypeOK' /\ Linked'
  <2>1. /\ \/ account' = account
           \/ \E u \in UsersOf(e) : account' = [account EXCEPT ![e] = u]
        /\ raced' \subseteq FbUsers
    BY <1>6 DEF SignIn, TypeOK
  <2>2. UNCHANGED <<users, requests, post, clear, appUsers, sent, inbox,
                    loads, followed, early, miscounted>>
    BY <1>6 DEF SignIn, rows, facebook
  <2>3. /\ account' \in [FbUsers -> DOMAIN users \union {NoUser}]
        /\ \A d \in FbUsers : account[d] # NoUser => account'[d] # NoUser
    BY <2>1, RowTypes DEF TypeOK, UsersOf
  <2>4. TypeOK'
    BY <1>6, <2>1, <2>2, <2>3, SignInFacts DEF TypeOK
  <2>5. \A l \in Links : sent[l] # NotSent => sent[l].from \in FbUsers
    BY DEF TypeOK
  <2>6. Linked'
    BY <1>6, <2>2, <2>3, <2>5, SignInFacts DEF Linked
  <2> QED BY <2>4, <2>6
<1>7. ASSUME NEW e \in FbUsers, CreateOnSignIn(e)
      PROVE  TypeOK' /\ Linked'
  <2>1. UNCHANGED <<requests, post, clear, appUsers, sent, inbox, loads,
                    followed, early, raced, miscounted>>
    BY <1>7 DEF CreateOnSignIn, facebook, history
  <2>2. /\ account' \in [FbUsers -> DOMAIN users' \union {NoUser}]
        /\ \A d \in FbUsers : account[d] # NoUser => account'[d] # NoUser
    BY <1>7, CreateFacts DEF TypeOK, NoUser, CreateOnSignIn
  <2>3. TypeOK'
    BY <1>7, <2>1, <2>2, CreateFacts DEF TypeOK
  <2>4. \A l \in Links : sent[l] # NotSent => sent[l].from \in FbUsers
    BY DEF TypeOK
  <2>5. Linked'
    BY <1>7, <2>1, <2>2, <2>4, CreateFacts DEF Linked
  <2> QED BY <2>3, <2>5
<1>8. ASSUME NEW e \in FbUsers, FindRequest(e)
      PROVE  TypeOK' /\ Linked'
  <2>1. UNCHANGED <<users, requests, account, post, clear, appUsers, sent,
                    inbox, loads, followed, raced, miscounted>>
    BY <1>8 DEF FindRequest, rows, facebook
  <2>2. LoadsOK' /\ early' \subseteq Links
    BY <1>8, FindFacts DEF TypeOK
  <2>3. TypeOK'
    BY <2>1, <2>2 DEF TypeOK
  <2>4. Linked'
    <3>1. \A d \in FbUsers : d # e => load'[d] = load[d]
      BY <1>8, FindFacts
    <3>2. load'[e].at = "update" =>
            /\ load'[e].todo # << >>
            /\ load'[e].row \in DOMAIN requests
            /\ requests[load'[e].row].externalRequestId = Head(load'[e].todo)
            /\ requests[load'[e].row].inviter \in DOMAIN load'[e].stats
      <4>1. NoLoad.at # "update"
        BY DEF NoLoad
      <4>2. ASSUME load'[e].at = "update"
            PROVE  /\ load'[e].row \in RequestsOf(Head(load[e].todo))
                   /\ load'[e].todo = load[e].todo /\ load[e].todo # << >>
                   /\ requests[load'[e].row].inviter \in DOMAIN load'[e].stats
        BY <1>8, <4>1, <4>2, FindFacts
      <4> QED BY <4>2 DEF RequestsOf
    <3> QED BY <2>1, <3>1, <3>2 DEF Linked
  <2> QED BY <2>3, <2>4
<1>9. ASSUME NEW e \in FbUsers, UpdateRequest(e)
      PROVE  TypeOK' /\ Linked'
  <2>1. UNCHANGED <<account, post, clear, appUsers, sent, inbox, loads,
                    followed, early, raced>>
    BY <1>9 DEF UpdateRequest, facebook
  <2>2. miscounted' \subseteq DOMAIN users'
    <3>1. PICK u \in DOMAIN users : miscounted' \subseteq miscounted \union {u}
      BY <1>9, UpdateFacts DEF UpdateRequest
    <3> QED BY <1>9, <3>1, UpdateFacts DEF TypeOK
  <2>3. TypeOK'
    <3>1. \A r \in DOMAIN requests' :
            /\ requests'[r].inviter \in DOMAIN users'
          /\ requests'[r].invitee \in DOMAIN users'
      BY <1>9, UpdateFacts, RowTypes, RowsKept DEF StepKeepsRows, Next
    <3>2. /\ users' \in Seq(UserRows) /\ requests' \in Seq(RequestRows)
          /\ DOMAIN users' = DOMAIN users /\ LoadsOK'
      BY <1>9, UpdateFacts
    <3> QED BY <2>1, <2>2, <3>1, <3>2 DEF TypeOK
  <2>4. Linked'
    <3>1. /\ load'[e].at = "links"
          /\ \A d \in FbUsers : d # e => load'[d] = load[d]
      BY <1>9, UpdateFacts
    <3>2. StepKeepsRows
      BY <1>9, RowsKept DEF Next
    <3> QED BY <2>1, <3>1, <3>2 DEF Linked, StepKeepsRows
  <2> QED BY <2>3, <2>4
<1>10. ASSUME NEW e \in FbUsers, DeleteLinks(e)
       PROVE  TypeOK' /\ Linked'
  <2>1. /\ inbox' \in [FbUsers -> SUBSET Links]
        /\ clear' \in [FbUsers -> Clears]
    BY <1>10, DeleteLinksFacts
  <2>2. UNCHANGED <<users, requests, account, post, appUsers, sent, loads,
                    followed, early, raced, miscounted>>
    BY <1>10 DEF DeleteLinks, rows, history
  <2>3. /\ LoadsOK' /\ load'[e] = NoLoad
        /\ \A d \in FbUsers : d # e => load'[d] = load[d]
    BY <1>10, <2>2, LoadsStay DEF DeleteLinks
  <2>4. TypeOK'
    BY <2>1, <2>2, <2>3 DEF TypeOK
  <2>5. Linked'
    BY <2>2, <2>3 DEF Linked, NoLoad
  <2> QED BY <2>4, <2>5
<1>11. ASSUME NEW e \in FbUsers, ClearRead(e)
       PROVE  TypeOK' /\ Linked'
  <2>1. clear' \in [FbUsers -> Clears] /\ early' \subseteq Links
    BY <1>11, ClearReadFacts
  <2>2. UNCHANGED <<users, requests, account, load, post, appUsers, sent,
                    inbox, loads, followed, raced, miscounted>>
    BY <1>11 DEF ClearRead, rows, facebook
  <2> QED BY <2>1, <2>2 DEF TypeOK, LoadsOK, Pages, Linked
<1>12. ASSUME NEW e \in FbUsers, ClearDelete(e)
       PROVE  TypeOK' /\ Linked'
  <2>1. clear' \in [FbUsers -> Clears] /\ inbox' \in [FbUsers -> SUBSET Links]
    BY <1>12, ClearDeleteFacts
  <2>2. UNCHANGED <<users, requests, account, load, post, appUsers, sent,
                    loads, followed, early, raced, miscounted>>
    BY <1>12 DEF ClearDelete, rows, history
  <2> QED BY <2>1, <2>2 DEF TypeOK, LoadsOK, Pages, Linked
<1>13. CASE UNCHANGED vars
  BY <1>13 DEF vars, rows, facebook, history, TypeOK, LoadsOK, Pages, Linked
<1> QED BY <1>1, <1>2, <1>3, <1>4, <1>5, <1>6, <1>7, <1>8, <1>9, <1>10,
           <1>11, <1>12, <1>13 DEF Next

LEMMA TypeInit == Init => TypeOK /\ Linked
<1> SUFFICES ASSUME Init
             PROVE  TypeOK /\ Linked
  OBVIOUS
<1>1. /\ users = << >> /\ requests = << >> /\ loads = 0
      /\ account = [e \in FbUsers |-> NoUser]
      /\ load = [e \in FbUsers |-> NoLoad]
      /\ post = [l \in Links |-> [to |-> {}, creating |-> {}]]
      /\ clear =
           [e \in FbUsers |-> [first |-> FALSE, due |-> 0, unknown |-> {}]]
      /\ appUsers = {}
      /\ sent = [l \in Links |-> NotSent]
      /\ inbox = [e \in FbUsers |-> {}]
      /\ followed = [e \in FbUsers |-> {}]
      /\ early = {} /\ raced = {} /\ miscounted = {}
  BY DEF Init
<1>2. << >> \in Seq(UserRows) /\ << >> \in Seq(RequestRows)
      /\ DOMAIN << >> = {}
  OBVIOUS
<1>3. [to |-> {}, creating |-> {}] \in Posts
  BY DEF Posts
<1>4. [first |-> FALSE, due |-> 0, unknown |-> {}] \in Clears
  BY DEF Clears
<1>5. LoadsOK
  BY <1>1 DEF LoadsOK
<1>6. TypeOK
  BY <1>1, <1>2, <1>3, <1>4, <1>5, BoundsAssumption DEF TypeOK
<1>7. Linked
  BY <1>1 DEF Linked, NoLoad
<1> QED BY <1>6, <1>7

LEMMA TypesHold == Spec => [](TypeOK /\ Linked)
BY TypeInit, TypeStep, PTL DEF Spec

(* The tables, the pages and what Facebook keeps have their types: each    *)
(* request belongs to two users that have rows.                            *)
THEOREM TypeCorrect == Spec => []TypeOK
BY TypesHold, PTL

-----------------------------------------------------------------------------
(* One row for each user: while a transaction is about to store a user     *)
(* there is no row and no other such transaction, unless two saw no row at *)
(* a time, which "raced" remembers.                                        *)

OneRowOf(e) ==
  /\ \A u, v \in UsersOf(e) : u = v
  /\ BeingCreated(e) => UsersOf(e) = {}
  /\ load[e].at = "create" => \A l \in Links : e \notin post[l].creating
  /\ \A l, k \in Links :
       e \in post[l].creating /\ e \in post[k].creating => l = k

OneRow ==
  /\ \A e \in FbUsers : account[e] # NoUser => account[e] \in UsersOf(e)
  /\ \A l \in Links : \A b, c \in post[l].creating : b = c
  /\ \A e \in FbUsers \ raced : OneRowOf(e)

(* Steps that create no user and begin to create none.                     *)
SameCreators ==
  /\ UNCHANGED <<account, raced>>
  /\ DOMAIN users' = DOMAIN users
  /\ \A u \in DOMAIN users : users'[u].externalId = users[u].externalId
  /\ \A l \in Links : post'[l].creating = post[l].creating
  /\ \A e \in FbUsers : load'[e].at = "create" => load[e].at = "create"

LEMMA OneRowStep ==
  TypeOK /\ Linked /\ OneRow /\ [Next]_vars => OneRow'
<1> SUFFICES ASSUME TypeOK, Linked, OneRow, [Next]_vars
             PROVE  OneRow'
  OBVIOUS
<1>0. NoLoad.at # "create"
  BY DEF NoLoad
<1>1. ASSUME SameCreators
      PROVE  OneRow'
  BY <1>1 DEF SameCreators, OneRow, OneRowOf, UsersOf, BeingCreated
<1>2. ASSUME NEW l \in Links, NEW b \in FbUsers, Invite(l, b)
      PROVE  OneRow'
  <2>1. UNCHANGED <<users, account, load>>
    BY <1>2 DEF Invite, rows
  <2>2. \A e : UsersOf(e)' = UsersOf(e)
    BY <2>1 DEF UsersOf
  <2>3. CASE UsersOf(b) = {}
    <3>1. /\ post[l].creating = {} /\ post'[l].creating = {b}
          /\ \A k \in Links : k # l => post'[k] = post[k]
          /\ raced' = IF BeingCreated(b) THEN raced \union {b} ELSE raced
      BY <1>2, <2>3, InviteFacts
    <3> QED BY <2>1, <2>2, <2>3, <3>1 DEF OneRow, OneRowOf, BeingCreated
  <2>4. CASE UsersOf(b) # {}
    <3>1. /\ raced' = raced
          /\ \A k \in Links : post'[k].creating = post[k].creating
      BY <1>2, <2>4, InviteFacts
    <3> QED BY <1>1, <2>1, <3>1 DEF SameCreators
  <2> QED BY <2>3, <2>4
<1>3. ASSUME NEW l \in Links, NEW b \in FbUsers, StoreInvite(l, b)
      PROVE  OneRow'
  <2> DEFINE u == Len(users) + 1
  <2>1. /\ b \in post[l].creating
        /\ DOMAIN users' = DOMAIN users \union {u} /\ u \notin DOMAIN users
        /\ \A v \in DOMAIN users : users'[v] = users[v]
        /\ users'[u].externalId = b
        /\ post'[l].creating = {}
        /\ \A k \in Links : k # l => post'[k] = post[k]
        /\ UNCHANGED <<account, load, raced>>
    <3>1. UNCHANGED <<account, load, raced>>
      BY <1>3 DEF StoreInvite, history
    <3> QED BY <1>3, <3>1, StoreInviteFacts
  <2> HIDE DEF u
  <2>2. \A e : UsersOf(e)' = IF e = b THEN UsersOf(e) \union {u} ELSE UsersOf(e)
    BY <2>1 DEF UsersOf
  <2>3. b \in raced \/ UsersOf(b) = {}
    BY <2>1 DEF OneRow, OneRowOf, BeingCreated
  <2> QED BY <2>1, <2>2, <2>3 DEF OneRow, OneRowOf, BeingCreated
<1>4. ASSUME NEW e \in FbUsers, SignIn(e)
      PROVE  OneRow'
  <2>1. UNCHANGED <<users, post>>
        /\ \A d \in FbUsers : d # e => load'[d] = load[d]
    BY <1>4 DEF SignIn, rows, TypeOK, LoadsOK
  <2>2. \A d : UsersOf(d)' = UsersOf(d)
    BY <2>1 DEF UsersOf
  <2>3. CASE UsersOf(e) = {}
    <3>1. /\ raced' = IF BeingCreated(e) THEN raced \union {e} ELSE raced
          /\ account' = account
      BY <1>4, <2>3 DEF SignIn
    <3> QED BY <2>1, <2>2, <2>3, <3>1 DEF OneRow, OneRowOf, BeingCreated
  <2>4. CASE UsersOf(e) # {}
    <3>1. /\ raced' = raced
          /\ \E u \in UsersOf(e) : account' = [account EXCEPT ![e] = u]
          /\ load' = [load EXCEPT ![e].at = "links"]
      BY <1>4, <2>4 DEF SignIn
    <3>2. /\ account'[e] \in UsersOf(e)
          /\ \A d \in FbUsers : d # e => account'[d] = account[d]
      BY <3>1 DEF TypeOK
    <3>3. load'[e].at # "create"
      BY <1>4, <2>4, SignInFacts
    <3> QED BY <2>1, <2>2, <2>4, <3>1, <3>2, <3>3
            DEF OneRow, OneRowOf, BeingCreated
  <2> QED BY <2>3, <2>4
<1>5. ASSUME NEW e \in FbUsers, CreateOnSignIn(e)
      PROVE  OneRow'
  <2> DEFINE u == Len(users) + 1
  <2>1. /\ load[e].at = "create"
        /\ DOMAIN users' = DOMAIN users \union {u} /\ u \notin DOMAIN users
        /\ \A v \in DOMAIN users : users'[v] = users[v]
        /\ users'[u].externalId = e
        /\ account'[e] = u
        /\ \A d \in FbUsers : d # e => account'[d] = account[d]
        /\ UNCHANGED <<post, raced>>
        /\ load'[e].at # "create"
        /\ \A d \in FbUsers : d # e => load'[d] = load[d]
    <3>1. load[e].at = "create" /\ UNCHANGED <<post, raced>>
      BY <1>5 DEF CreateOnSignIn, history
    <3> QED BY <1>5, <3>1, CreateFacts
  <2> HIDE DEF u
  <2>2. \A d : UsersOf(d)' = IF d = e THEN UsersOf(d) \union {u} ELSE UsersOf(d)
    BY <2>1 DEF UsersOf
  <2>3. e \in raced \/ UsersOf(e) = {}
    BY <2>1 DEF OneRow, OneRowOf, BeingCreated
  <2> QED BY <2>1, <2>2, <2>3 DEF OneRow, OneRowOf, BeingCreated
<1>6. ASSUME NEW e \in FbUsers, NEW l \in Links, Send(e, l)
      PROVE  OneRow'
  <2>1. UNCHANGED <<users, account, load, raced>>
    BY <1>6 DEF Send, rows, history
  <2>2. \A k \in Links : post'[k].creating = post[k].creating
    BY <1>6, SendFacts
  <2> QED BY <1>1, <2>1, <2>2 DEF SameCreators
<1>7. ASSUME NEW l \in Links, NEW b \in FbUsers, Challenge(l, b)
      PROVE  OneRow'
  BY <1>1, <1>7, ChallengeFacts DEF SameCreators, Challenge, history
<1>8. ASSUME NEW e \in FbUsers, LoadPage(e)
      PROVE  OneRow'
  <2>1. UNCHANGED <<users, account, post, raced>>
    BY <1>8 DEF LoadPage, rows
  <2>2. \A d \in FbUsers : load'[d].at = "create" => load[d].at = "create"
    BY <1>8, LoadPageFacts
  <2> QED BY <1>1, <2>1, <2>2 DEF SameCreators
<1>9. ASSUME NEW e \in FbUsers, FindRequest(e)
      PROVE  OneRow'
  <2>1. UNCHANGED <<users, account, post, raced>>
    BY <1>9 DEF FindRequest, rows
  <2>2. \A d \in FbUsers : load'[d].at = "create" => load[d].at = "create"
    BY <1>0, <1>9, FindFacts
  <2> QED BY <1>1, <2>1, <2>2 DEF SameCreators
<1>10. ASSUME NEW e \in FbUsers, UpdateRequest(e)
       PROVE  OneRow'
  <2>1. UNCHANGED <<account, post, raced>>
    BY <1>10 DEF UpdateRequest
  <2>2. /\ DOMAIN users' = DOMAIN users
        /\ \A u \in DOMAIN users : users'[u].externalId = users[u].externalId
        /\ \A d \in FbUsers : load'[d].at = "create" => load[d].at = "create"
    BY <1>10, UpdateFacts
  <2> QED BY <1>1, <2>1, <2>2 DEF SameCreators
<1>11. ASSUME NEW e \in FbUsers, DeleteLinks(e)
       PROVE  OneRow'
  <2>1. UNCHANGED <<users, account, post, raced>>
    BY <1>11 DEF DeleteLinks, rows, history
  <2>2. \A d \in FbUsers : load'[d].at = "create" => load[d].at = "create"
    BY <1>0, <1>11 DEF DeleteLinks, TypeOK, LoadsOK
  <2> QED BY <1>1, <2>1, <2>2 DEF SameCreators
<1>12. CASE UNCHANGED <<users, account, load, post, raced>>
  BY <1>1, <1>12 DEF SameCreators
<1> QED BY <1>2, <1>3, <1>4, <1>5, <1>6, <1>7, <1>8, <1>9, <1>10, <1>11, <1>12
        DEF Next, vars, rows, facebook, history, ClearRead, ClearDelete

LEMMA OneRowHolds == Spec => []OneRow
<1>1. Init => OneRow
  BY DEF Init, OneRow, OneRowOf, UsersOf, BeingCreated, NoLoad
<1> QED BY <1>1, OneRowStep, TypesHold, PTL DEF Spec

(* A request is stored for the row that its user's pages have.             *)
THEOREM RequestsAlwaysReachTheirUser == Spec => []RequestsReachTheirUser
<1>1. TypeOK /\ OneRow => RequestsReachTheirUser
  BY RowTypes DEF OneRow, OneRowOf, UsersOf, RequestsReachTheirUser
<1> QED BY <1>1, TypesHold, OneRowHolds, PTL

-----------------------------------------------------------------------------
(* Links and requests: only the users a link was sent to have it, give it  *)
(* to a page or have a request of it, and each of them has one.            *)

Invitee(r) == users[requests[r].invitee].externalId
InTodo(e, l) == \E i \in DOMAIN load[e].todo : load[e].todo[i] = l

Followed ==
  /\ \A e \in FbUsers : \A l \in inbox[e] \union followed[e] :
       sent[l] # NotSent /\ e \in sent[l].to
  /\ \A e \in FbUsers : load[e] # NoLoad =>
       /\ load[e].ids \subseteq followed[e]
       /\ \A l : InTodo(e, l) => l \in load[e].ids
  /\ \A r \in DOMAIN requests :
       LET l == requests[r].externalRequestId
       IN  sent[l] # NotSent /\ Invitee(r) \in sent[l].to \ post[l].to
  /\ \A r, s \in DOMAIN requests :
       /\ requests[r].externalRequestId = requests[s].externalRequestId
       /\ Invitee(r) = Invitee(s)
       => r = s

LEMMA TailElements ==
  ASSUME NEW S, NEW seq \in Seq(S), seq # << >>, NEW x
  PROVE  (\E i \in DOMAIN seq : seq[i] = x) <=>
           \/ x = Head(seq)
           \/ \E i \in DOMAIN Tail(seq) : Tail(seq)[i] = x
<1>1. /\ Len(seq) \in Nat \ {0} /\ DOMAIN seq = 1 .. Len(seq)
      /\ Head(seq) = seq[1] /\ DOMAIN Tail(seq) = 1 .. Len(seq) - 1
      /\ \A i \in 1 .. Len(seq) - 1 : Tail(seq)[i] = seq[i + 1]
  <2>1. Len(seq) \in Nat \ {0} /\ DOMAIN seq = 1 .. Len(seq)
    BY EmptySeq, LenProperties
  <2>2. Tail(seq) \in Seq(S) /\ Len(Tail(seq)) = Len(seq) - 1
    BY HeadTailProperties
  <2> QED BY <2>1, <2>2, HeadTailProperties, LenProperties
<1>2. ASSUME NEW i \in DOMAIN seq, seq[i] = x
      PROVE  \/ x = Head(seq)
             \/ \E j \in DOMAIN Tail(seq) : Tail(seq)[j] = x
  <2>1. CASE i = 1
    BY <1>1, <1>2, <2>1
  <2>2. CASE i # 1
    <3>1. i - 1 \in 1 .. Len(seq) - 1 /\ (i - 1) + 1 = i
      BY <1>1, <2>2
    <3> QED BY <1>1, <1>2, <3>1
  <2> QED BY <2>1, <2>2
<1>3. ASSUME NEW j \in DOMAIN Tail(seq)
      PROVE  j + 1 \in DOMAIN seq /\ Tail(seq)[j] = seq[j + 1]
  BY <1>1
<1>4. 1 \in DOMAIN seq /\ seq[1] = Head(seq)
  BY <1>1
<1> QED BY <1>2, <1>3, <1>4

(* What a step does with the links, the rows and Facebook.                 *)
LEMMA LinksKept ==
  ASSUME TypeOK, Linked, [Next]_vars
  PROVE  /\ \A l \in Links : sent[l] # NotSent =>
              sent'[l] = sent[l] /\ post'[l].to \subseteq post[l].to
         /\ \A e \in FbUsers : followed[e] \subseteq followed'[e]
         /\ \A e \in FbUsers : \A l \in inbox'[e] \union followed'[e] :
              \/ l \in inbox[e] \union followed[e]
              \/ l \in Links /\ sent'[l] # NotSent /\ e \in sent'[l].to
         /\ early \subseteq early'
<1>1. ASSUME NEW l \in Links, NEW b \in FbUsers, Challenge(l, b)
      PROVE  \A k \in Links : post'[k].to \subseteq post[k].to
  BY <1>1, ChallengeFacts
<1>2. ASSUME NEW l \in Links, NEW b \in FbUsers,
             Invite(l, b) \/ StoreInvite(l, b)
      PROVE  \A k \in Links : post'[k].to \subseteq post[k].to
  BY <1>2, InviteFacts, StoreInviteFacts
<1>3. CASE \E e \in FbUsers, l \in Links : Send(e, l)
  <2>1. PICK e \in FbUsers, l \in Links : Send(e, l)
    BY <1>3
  <2>2. UNCHANGED <<followed, early>>
    BY <2>1 DEF Send, history
  <2>3. \A k \in Links : sent[k] # NotSent =>
          sent'[k] = sent[k] /\ post'[k] = post[k]
    BY <2>1, SendFacts
  <2>4. \A d \in FbUsers : \A k \in inbox'[d] :
          \/ k \in inbox[d]
          \/ k \in Links /\ sent'[k] # NotSent /\ d \in sent'[k].to
    <3>1. /\ sent'[l] # NotSent
          /\ inbox' = [d \in FbUsers |->
                         IF d \in sent'[l].to THEN inbox[d] \union {l}
                         ELSE inbox[d]]
      BY <2>1, SendFacts
    <3> QED BY <3>1
  <2> QED BY <2>2, <2>3, <2>4
<1>4. CASE \E l \in Links, b \in FbUsers :
             Invite(l, b) \/ StoreInvite(l, b) \/ Challenge(l, b)
  <2>1. UNCHANGED <<sent, inbox, followed, early>>
    BY <1>4 DEF Invite, StoreInvite, Challenge, facebook, history
  <2> QED BY <1>1, <1>2, <1>4, <2>1
<1>5. CASE \E e \in FbUsers : LoadPage(e)
  <2>1. UNCHANGED <<sent, inbox, post, early>>
    BY <1>5 DEF LoadPage
  <2>2. PICK e \in FbUsers : LoadPage(e)
    BY <1>5
  <2> QED BY <2>1, <2>2, LoadPageFacts
<1>6. CASE \E e \in FbUsers :
             SignIn(e) \/ CreateOnSignIn(e) \/ UpdateRequest(e)
  <2>1. UNCHANGED <<sent, inbox, followed, post, early>>
    BY <1>6 DEF SignIn, CreateOnSignIn, UpdateRequest, facebook, history
  <2> QED BY <2>1
<1>7. CASE \E e \in FbUsers : FindRequest(e) \/ ClearRead(e)
  <2>1. UNCHANGED <<sent, inbox, followed, post>>
    BY <1>7 DEF FindRequest, ClearRead, facebook
  <2>2. early \subseteq early'
    BY <1>7, FindFacts, ClearReadFacts
  <2> QED BY <2>1, <2>2
<1>8. CASE \E e \in FbUsers : DeleteLinks(e) \/ ClearDelete(e)
  <2>1. UNCHANGED <<sent, followed, post, early>>
    BY <1>8 DEF DeleteLinks, ClearDelete, history
  <2>2. \A d \in FbUsers : inbox'[d] \subseteq inbox[d]
    BY <1>8, DeleteLinksFacts, ClearDeleteFacts
  <2> QED BY <2>1, <2>2
<1>9. CASE UNCHANGED <<sent, inbox, followed, post, early>>
  BY <1>9
<1> QED BY <1>3, <1>4, <1>5, <1>6, <1>7, <1>8, <1>9
        DEF Next, vars, facebook, history

(* The steps that store a request, and those that change one.              *)
LEMMA NewRow ==
  ASSUME TypeOK, Linked, [Next]_vars, NEW r \in DOMAIN requests',
         r \notin DOMAIN requests
  PROVE  \E l \in Links, b \in FbUsers : \E u :
           /\ StoresRequest(l, b, u)
           /\ post'[l].to = post[l].to \ {b}
<1>1. ASSUME NEW l \in Links, NEW b \in FbUsers, StoreInvite(l, b)
      PROVE  \E u : /\ StoresRequest(l, b, u)
                    /\ post'[l].to = post[l].to \ {b}
  BY <1>1, StoreInviteFacts
<1>2. ASSUME NEW l \in Links, NEW b \in FbUsers, Challenge(l, b)
      PROVE  \E u : /\ StoresRequest(l, b, u)
                    /\ post'[l].to = post[l].to \ {b}
  BY <1>2, ChallengeFacts
<1>3. \A e \in FbUsers : ~ UpdateRequest(e)
  BY UpdateFacts
<1>4. requests' # requests
  OBVIOUS
<1> QED BY <1>1, <1>2, <1>3, <1>4
        DEF Next, vars, rows, Send, Invite, LoadPage, SignIn, CreateOnSignIn,
            FindRequest, DeleteLinks, ClearRead, ClearDelete

LEMMA RowsChanged ==
  ASSUME TypeOK, Linked, [Next]_vars, NEW r \in DOMAIN requests,
         requests'[r].status # requests[r].status
  PROVE  \E e \in FbUsers : UpdateRequest(e) /\ load[e].row = r
<1>1. ASSUME NEW l \in Links, NEW b, NEW u, StoresRequest(l, b, u)
      PROVE  requests'[r] = requests[r]
  BY <1>1, StoredFacts
<1>2. ASSUME NEW l \in Links, NEW b \in FbUsers,
             StoreInvite(l, b) \/ Challenge(l, b)
      PROVE  FALSE
  BY <1>1, <1>2, StoreInviteFacts, ChallengeFacts
<1>3. ASSUME NEW e \in FbUsers, UpdateRequest(e)
      PROVE  load[e].row = r
  BY <1>3, UpdateFacts
<1>4. requests' # requests
  OBVIOUS
<1> QED BY <1>2, <1>3, <1>4
        DEF Next, vars, rows, Send, Invite, LoadPage, SignIn, CreateOnSignIn,
            FindRequest, DeleteLinks, ClearRead, ClearDelete

(* The request that a step may store is of a receiver whose turn it was.   *)
LEMMA RequestsKept ==
  ASSUME TypeOK, Linked, [Next]_vars
  PROVE  /\ \A r \in DOMAIN requests : Invitee(r)' = Invitee(r)
         /\ \A r \in DOMAIN requests' : r \notin DOMAIN requests =>
              LET l == requests'[r].externalRequestId
              IN  /\ l \in Links /\ sent[l] # NotSent
                  /\ Invitee(r)' \in post[l].to
                  /\ Invitee(r)' \notin post'[l].to
                  /\ \A s \in DOMAIN requests' :
                       s \notin DOMAIN requests => s = r
<1>1. \A r \in DOMAIN requests : Invitee(r)' = Invitee(r)
  BY RowsKept, RowTypes DEF StepKeepsRows, Invitee
<1>2. ASSUME NEW l \in Links, NEW b, NEW u, StoresRequest(l, b, u),
             NEW r \in DOMAIN requests', r \notin DOMAIN requests
      PROVE  /\ requests'[r].externalRequestId = l /\ sent[l] # NotSent
             /\ Invitee(r)' = b /\ b \in post[l].to
             /\ r = Len(requests) + 1
  BY <1>2, StoredFacts DEF StoresRequest, Invitee
<1>3. ASSUME NEW r \in DOMAIN requests', r \notin DOMAIN requests
      PROVE  LET l == requests'[r].externalRequestId
             IN  /\ l \in Links /\ sent[l] # NotSent
                 /\ Invitee(r)' \in post[l].to
                 /\ Invitee(r)' \notin post'[l].to
                 /\ \A s \in DOMAIN requests' :
                      s \notin DOMAIN requests => s = r
  <2>1. PICK l \in Links, b \in FbUsers : \E u :
          /\ StoresRequest(l, b, u)
          /\ post'[l].to = post[l].to \ {b}
    BY <1>3, NewRow
  <2>2. \A s \in DOMAIN requests' : s \notin DOMAIN requests =>
          /\ requests'[s].externalRequestId = l /\ sent[l] # NotSent
          /\ Invitee(s)' = b /\ b \in post[l].to
          /\ s = Len(requests) + 1
    BY <1>2, <2>1
  <2> QED BY <1>3, <2>1, <2>2
<1> QED BY <1>1, <1>3

(* A page that stays has its links, and may have done with the first.      *)
LEMMA PagesKept ==
  ASSUME TypeOK, Linked, [Next]_vars, NEW e \in FbUsers, load'[e] # NoLoad
  PROVE  \/ LoadPage(e)
         \/ /\ load[e] # NoLoad /\ load'[e].ids = load[e].ids
            /\ \/ load'[e].todo = load[e].todo
               \/ /\ load[e].todo # << >>
                  /\ load'[e].todo = Tail(load[e].todo)
<1>1. ASSUME NEW d \in FbUsers, LoadPage(d)
      PROVE  d = e \/ load'[e] = load[e]
  BY <1>1, LoadPageFacts
<1>2. ASSUME NEW d \in FbUsers, SignIn(d)
      PROVE  \/ load'[e] = load[e]
             \/ /\ load[e] # NoLoad /\ load'[e].ids = load[e].ids
                /\ load'[e].todo = load[e].todo
  BY <1>2, SignInFacts
<1>3. ASSUME NEW d \in FbUsers, CreateOnSignIn(d)
      PROVE  \/ load'[e] = load[e]
             \/ /\ load[e] # NoLoad /\ load'[e].ids = load[e].ids
                /\ load'[e].todo = load[e].todo
  BY <1>3, CreateFacts
<1>4. ASSUME NEW d \in FbUsers, FindRequest(d)
      PROVE  \/ load'[e] = load[e]
             \/ /\ load[e] # NoLoad /\ load'[e].ids = load[e].ids
                /\ \/ load'[e].todo = load[e].todo
                   \/ /\ load[e].todo # << >>
                      /\ load'[e].todo = Tail(load[e].todo)
  BY <1>4, FindFacts
<1>5. ASSUME NEW d \in FbUsers, UpdateRequest(d)
      PROVE  \/ load'[e] = load[e]
             \/ /\ load[e] # NoLoad /\ load'[e].ids = load[e].ids
                /\ load[e].todo # << >>
                /\ load'[e].todo = Tail(load[e].todo)
  BY <1>5, UpdateFacts DEF Linked
<1>6. ASSUME NEW d \in FbUsers, DeleteLinks(d)
      PROVE  load'[e] = load[e]
  BY <1>6 DEF DeleteLinks, TypeOK, LoadsOK
<1>7. load' = load => load'[e] = load[e]
  OBVIOUS
<1> QED BY <1>1, <1>2, <1>3, <1>4, <1>5, <1>6, <1>7
        DEF Next, vars, Send, Invite, StoreInvite, Challenge, ClearRead,
            ClearDelete

LEMMA FollowedStep ==
  TypeOK /\ Linked /\ Followed /\ [Next]_vars => Followed'
<1> SUFFICES ASSUME TypeOK, Linked, Followed, [Next]_vars
             PROVE  Followed'
  OBVIOUS
<1>1. \A e \in FbUsers : \A l \in inbox[e] \union followed[e] : l \in Links
  BY DEF TypeOK
<1>2. \A r \in DOMAIN requests : requests[r].externalRequestId \in Links
  BY RowTypes DEF RequestRows
<1>3. \A e \in FbUsers : \A l \in inbox'[e] \union followed'[e] :
        sent'[l] # NotSent /\ e \in sent'[l].to
  BY <1>1, LinksKept DEF Followed
<1>4. ASSUME NEW e \in FbUsers, load'[e] # NoLoad
      PROVE  /\ load'[e].ids \subseteq followed'[e]
             /\ \A l : InTodo(e, l)' => l \in load'[e].ids
  <2>1. CASE LoadPage(e)
    BY <2>1, LoadPageFacts DEF InTodo
  <2>2. CASE /\ load[e] # NoLoad /\ load'[e].ids = load[e].ids
             /\ \/ load'[e].todo = load[e].todo
                \/ /\ load[e].todo # << >>
                   /\ load'[e].todo = Tail(load[e].todo)
    <3>1. \A l : InTodo(e, l)' => InTodo(e, l)
      <4>1. load[e].todo \in Seq(Links)
        BY <2>2, PageType
      <4>2. load[e].todo # << >> => \A l :
              (\E i \in DOMAIN Tail(load[e].todo) : Tail(load[e].todo)[i] = l)
                => InTodo(e, l)
        BY <4>1, TailElements DEF InTodo
      <4> QED BY <2>2, <4>2 DEF InTodo
    <3> QED BY <2>2, <3>1, LinksKept DEF Followed
  <2> QED BY <1>4, <2>1, <2>2, PagesKept
<1>5. ASSUME NEW r \in DOMAIN requests'
      PROVE  LET l == requests'[r].externalRequestId
             IN  sent'[l] # NotSent /\ Invitee(r)' \in sent'[l].to \ post'[l].to
  <2>1. CASE r \in DOMAIN requests
    <3>1. requests'[r].externalRequestId = requests[r].externalRequestId
      BY <2>1, RowsKept DEF StepKeepsRows
    <3> QED BY <1>2, <2>1, <3>1, LinksKept, RequestsKept DEF Followed
  <2>2. CASE r \notin DOMAIN requests
    BY <1>5, <2>2, LinksKept, RequestsKept DEF Linked
  <2> QED BY <2>1, <2>2
<1>6. ASSUME NEW r \in DOMAIN requests', NEW s \in DOMAIN requests',
             requests'[r].externalRequestId = requests'[s].externalRequestId,
             Invitee(r)' = Invitee(s)', r # s
      PROVE  FALSE
  <2>1. CASE r \in DOMAIN requests /\ s \in DOMAIN requests
    <3>1. /\ requests'[r].externalRequestId = requests[r].externalRequestId
          /\ requests'[s].externalRequestId = requests[s].externalRequestId
      BY <2>1, RowsKept DEF StepKeepsRows
    <3>2. Invitee(r)' = Invitee(r) /\ Invitee(s)' = Invitee(s)
      BY <2>1, RequestsKept
    <3> QED BY <1>6, <2>1, <3>1, <3>2 DEF Followed
  <2>2. ASSUME NEW q \in DOMAIN requests', q \notin DOMAIN requests,
               NEW k \in DOMAIN requests,
               requests'[q].externalRequestId = requests'[k].externalRequestId
        PROVE  Invitee(q)' # Invitee(k)'
    <3>1. requests'[k].externalRequestId = requests[k].externalRequestId
      BY RowsKept DEF StepKeepsRows
    <3> QED BY <2>2, <3>1, RequestsKept DEF Followed
  <2>3. CASE r \notin DOMAIN requests /\ s \notin DOMAIN requests
    BY <1>6, <2>3, RequestsKept
  <2> QED BY <1>6, <2>1, <2>2, <2>3
<1> QED BY <1>3, <1>4, <1>5, <1>6 DEF Followed

LEMMA FollowedHolds == Spec => []Followed
<1>1. Init => Followed
  BY DEF Init, Followed
<1> QED BY <1>1, FollowedStep, TypesHold, PTL DEF Spec

(* The steps that take the first link from the list of a page, and those   *)
(* that are at its request.                                                *)
LEMMA TodoChanged ==
  ASSUME TypeOK, Linked, [Next]_vars, NEW e \in FbUsers,
         load[e] # NoLoad, load'[e] # NoLoad, load'[e].todo # load[e].todo
  PROVE  FindRequest(e) \/ UpdateRequest(e)
<1>1. ASSUME NEW d \in FbUsers, d = e => ~ (FindRequest(e) \/ UpdateRequest(e)),
             \/ LoadPage(d) \/ SignIn(d) \/ CreateOnSignIn(d)
             \/ FindRequest(d) \/ UpdateRequest(d)
      PROVE  FALSE
  BY <1>1, LoadPageFacts, SignInFacts, CreateFacts, FindFacts, UpdateFacts
<1>2. ASSUME NEW d \in FbUsers, DeleteLinks(d)
      PROVE  FALSE
  BY <1>2 DEF DeleteLinks, TypeOK, LoadsOK
<1>3. load' # load
  OBVIOUS
<1> QED BY <1>1, <1>2, <1>3
        DEF Next, vars, Send, Invite, StoreInvite, Challenge, ClearRead,
            ClearDelete

LEMMA SentNow ==
  ASSUME TypeOK, Linked, [Next]_vars, NEW l \in Links, sent[l] = NotSent,
         NEW b \in post'[l].to
  PROVE  l \in inbox'[b]
<1>1. post[l].to = {}
  BY DEF Linked
<1>2. ASSUME NEW k \in Links, NEW c \in FbUsers,
             Invite(k, c) \/ StoreInvite(k, c) \/ Challenge(k, c)
      PROVE  FALSE
  BY <1>1, <1>2, InviteFacts, StoreInviteFacts, ChallengeFacts
<1>3. PICK e \in FbUsers, k \in Links : Send(e, k)
  <2>1. post' # post
    BY <1>1
  <2> QED BY <1>2, <2>1
          DEF Next, vars, LoadPage, SignIn, CreateOnSignIn, FindRequest,
              UpdateRequest, DeleteLinks, ClearRead, ClearDelete
<1>4. l = k /\ b \in sent'[l].to /\ b \in FbUsers
  BY <1>1, <1>3, SendFacts DEF Posts
<1> QED BY <1>3, <1>4, SendFacts

LEMMA UpdateStays ==
  ASSUME TypeOK, Linked, [Next]_vars, NEW e \in FbUsers,
         load'[e].at = "update"
  PROVE  FindRequest(e) \/ load'[e] = load[e]
<1>1. ASSUME NEW d \in FbUsers, LoadPage(d) \/ SignIn(d)
      PROVE  load'[e] = load[e]
  BY <1>1, LoadPageFacts, SignInFacts
<1>2. ASSUME NEW d \in FbUsers, CreateOnSignIn(d) \/ UpdateRequest(d)
      PROVE  load'[e] = load[e]
  BY <1>2, CreateFacts, UpdateFacts
<1>3. ASSUME NEW d \in FbUsers, d # e, FindRequest(d)
      PROVE  load'[e] = load[e]
  BY <1>3, FindFacts
<1>4. ASSUME NEW d \in FbUsers, DeleteLinks(d)
      PROVE  load'[e] = load[e]
  BY <1>4 DEF DeleteLinks, TypeOK, LoadsOK, NoLoad
<1>5. load' = load => load'[e] = load[e]
  OBVIOUS
<1> QED BY <1>1, <1>2, <1>3, <1>4, <1>5
        DEF Next, vars, Send, Invite, StoreInvite, Challenge, ClearRead,
            ClearDelete

-----------------------------------------------------------------------------
(* Who accepts. *)

(* A set of at most one.                                                   *)
LEMMA AtMostOne ==
  ASSUME NEW S, IsFiniteSet(S), ~ (Cardinality(S) > 1)
  PROVE  \A x, y \in S : x = y
<1>1. Cardinality(S) \in Nat
  BY FS_CardinalityType
<1>2. Cardinality(S) = 0 \/ Cardinality(S) = 1
  BY <1>1
<1>3. CASE Cardinality(S) = 0
  BY <1>3, FS_EmptySet
<1>4. CASE Cardinality(S) = 1
  <2>1. \E x : S = {x}
    BY <1>4, FS_Singleton
  <2> QED BY <2>1
<1> QED BY <1>2, <1>3, <1>4

LEMMA OneReceiver ==
  ASSUME TypeOK, NEW l \in Links, sent[l] # NotSent, ~ Several(l)
  PROVE  \A b, c \in sent[l].to : b = c
<1>1. sent[l].to \subseteq FbUsers
  BY DEF TypeOK
<1>2. IsFiniteSet(sent[l].to)
  BY <1>1, FbUsersAssumption, FS_Subset
<1>3. ~ (Cardinality(sent[l].to) > 1)
  BY DEF Several
<1> QED BY <1>2, <1>3, AtMostOne

LEMMA AcceptedStep ==
  TypeOK /\ Linked /\ Followed /\ AcceptedByInvitee /\ [Next]_vars
    => AcceptedByInvitee'
<1> SUFFICES ASSUME TypeOK, Linked, Followed, AcceptedByInvitee, [Next]_vars,
                    NEW r \in DOMAIN requests',
                    NEW l, l = requests'[r].externalRequestId,
                    requests'[r].status = "ACCEPTED"
             PROVE  l \in followed'[Invitee(r)'] \/ Several(l)'
  BY DEF AcceptedByInvitee, Invitee, Several
<1>1. CASE r \notin DOMAIN requests
  <2>1. requests'[r].status = "PENDING"
    <3>1. ASSUME NEW k \in Links, NEW b, NEW u, StoresRequest(k, b, u)
          PROVE  requests'[r].status = "PENDING"
      BY <1>1, <3>1, StoredFacts
    <3>2. \E k \in Links : \E b, u : StoresRequest(k, b, u)
      BY <1>1, NewRow
    <3> QED BY <3>1, <3>2
  <2> QED BY <2>1
<1>2. CASE r \in DOMAIN requests
  <2>1. /\ requests[r].externalRequestId = l /\ Invitee(r)' = Invitee(r)
        /\ l \in Links /\ sent[l] # NotSent /\ Invitee(r) \in sent[l].to
        /\ Invitee(r) \in FbUsers
    BY <1>2, RowsKept, RequestsKept, RowTypes
       DEF StepKeepsRows, Followed, RequestRows, Invitee, UserRows
  <2>2. /\ followed[Invitee(r)] \subseteq followed'[Invitee(r)]
        /\ Several(l) => Several(l)'
    BY <2>1, LinksKept DEF Several
  <2>3. CASE requests[r].status = "ACCEPTED"
    BY <1>2, <2>1, <2>2, <2>3 DEF AcceptedByInvitee, Invitee
  <2>4. CASE requests[r].status # "ACCEPTED"
    <3>1. PICK e \in FbUsers : UpdateRequest(e) /\ load[e].row = r
      BY <1>2, <2>4, RowsChanged
    <3>2. /\ load[e] # NoLoad /\ load[e].todo # << >>
          /\ l = Head(load[e].todo) /\ load[e].todo \in Seq(Links)
      BY <3>1, UpdateFacts, PageType DEF Linked
    <3>3. InTodo(e, l)
      BY <3>2, TailElements DEF InTodo
    <3>4. l \in followed[e] /\ e \in sent[l].to
      <4>1. l \in followed[e]
        BY <3>2, <3>3 DEF Followed
      <4> QED BY <4>1 DEF Followed
    <3>5. CASE Several(l)
      BY <2>1, <2>2, <3>5
    <3>6. CASE ~ Several(l)
      <4>1. e = Invitee(r)
        BY <2>1, <3>4, <3>6, OneReceiver
      <4> QED BY <2>1, <2>2, <3>4, <4>1
    <3> QED BY <3>5, <3>6
  <2> QED BY <2>3, <2>4
<1> QED BY <1>1, <1>2

(* A request is accepted because its own invitee followed the link, unless *)
(* the link was sent to several.                                           *)
THEOREM OnlyInviteesAccept == Spec => []AcceptedByInvitee
<1>1. Init => AcceptedByInvitee
  BY DEF Init, AcceptedByInvitee
<1> QED BY <1>1, AcceptedStep, FollowedHolds, TypesHold, PTL DEF Spec

-----------------------------------------------------------------------------
(* Links and answers: a link whose callback is over and whose requests are *)
(* accepted is settled for good.  Only such links are taken from Facebook, *)
(* but for those that were looked up too early.                            *)

Settled(l) ==
  /\ sent[l] # NotSent /\ post[l].to = {}
  /\ \A r \in RequestsOf(l) : requests[r].status = "ACCEPTED"

Settling ==
  /\ \A e \in FbUsers : load[e] # NoLoad =>
       \A l \in load[e].ids \ early : InTodo(e, l) \/ Settled(l)
  /\ \A e \in FbUsers : load[e].at = "update" =>
       LET l == Head(load[e].todo)
       IN  l \notin early =>
             post[l].to = {} /\ RequestsOf(l) = {load[e].row}
  /\ \A e \in FbUsers : \A l \in clear[e].unknown \ early : Settled(l)
  /\ \A l \in Links \ early : \A b \in post[l].to : l \in inbox[b]
  /\ \A r \in DOMAIN requests :
       LET l == requests[r].externalRequestId
       IN  requests[r].status = "PENDING" /\ l \notin early =>
             l \in inbox[Invitee(r)]

(* When its callback is over no request is stored for a link.              *)
LEMMA NoneAdded ==
  ASSUME TypeOK, Linked, [Next]_vars, NEW l \in Links, post[l].to = {}
  PROVE  RequestsOf(l)' = RequestsOf(l)
<1>1. \A r \in DOMAIN requests' : r \notin DOMAIN requests =>
        requests'[r].externalRequestId # l
  BY RequestsKept
<1>2. \A r \in DOMAIN requests :
        /\ r \in DOMAIN requests'
        /\ requests'[r].externalRequestId = requests[r].externalRequestId
  BY RowsKept DEF StepKeepsRows
<1> QED BY <1>1, <1>2 DEF RequestsOf

LEMMA SettledStays ==
  ASSUME TypeOK, Linked, [Next]_vars, NEW l \in Links, Settled(l)
  PROVE  Settled(l)'
<1>1. sent'[l] # NotSent /\ post'[l].to = {}
  BY LinksKept DEF Settled
<1>2. RequestsOf(l)' = RequestsOf(l)
  BY NoneAdded DEF Settled
<1>3. ASSUME NEW r \in RequestsOf(l)
      PROVE  requests'[r].status = "ACCEPTED"
  BY RowsKept DEF StepKeepsRows, Settled, RequestsOf
<1> QED BY <1>1, <1>2, <1>3 DEF Settled

(* The step that takes a link from a page's list settles it.               *)
LEMMA PagesSettle ==
  ASSUME TypeOK, Linked, Followed, Settling, [Next]_vars,
         NEW e \in FbUsers, load'[e] # NoLoad,
         NEW l \in load'[e].ids \ early'
  PROVE  InTodo(e, l)' \/ Settled(l)'
<1>1. l \notin early
  BY LinksKept
<1>2. CASE LoadPage(e)
  BY <1>2, LoadPageFacts DEF InTodo
<1>3. CASE load[e] # NoLoad /\ load'[e].ids = load[e].ids
  <2>1. l \in Links /\ sent[l] # NotSent
    BY <1>3, PageType DEF Followed
  <2>2. CASE Settled(l)
    BY <2>1, <2>2, SettledStays
  <2>3. CASE InTodo(e, l) /\ load'[e].todo = load[e].todo
    BY <2>3 DEF InTodo
  <2>4. CASE /\ InTodo(e, l) /\ load[e].todo # << >>
             /\ load'[e].todo = Tail(load[e].todo)
    <3>1. l = Head(load[e].todo) \/ InTodo(e, l)'
      <4>1. load[e].todo \in Seq(Links)
        BY <1>3, PageType
      <4>2. \/ l = Head(load[e].todo)
            \/ \E i \in DOMAIN Tail(load[e].todo) : Tail(load[e].todo)[i] = l
        <5>1. PICK todo \in Seq(Links) : todo = load[e].todo
          BY <4>1
        <5>2. todo # << >> /\ \E i \in DOMAIN todo : todo[i] = l
          BY <2>4, <5>1 DEF InTodo
        <5>3. \/ l = Head(todo)
              \/ \E i \in DOMAIN Tail(todo) : Tail(todo)[i] = l
          BY <5>2, TailElements
        <5> QED BY <5>1, <5>3
      <4> QED BY <2>4, <4>2 DEF InTodo
    <3>2. CASE /\ l = Head(load[e].todo)
               /\ load'[e].todo # load[e].todo
      <4>1. FindRequest(e) \/ UpdateRequest(e)
        BY <1>3, <3>2, TodoChanged
      <4>2. CASE FindRequest(e)
        <5>1. RequestsOf(l) = {} /\ post[l].to = {}
          BY <3>2, <4>2, FindFacts
        <5>2. Settled(l)
          BY <2>1, <5>1 DEF Settled
        <5> QED BY <2>1, <5>2, SettledStays
      <4>3. CASE UpdateRequest(e)
        <5>1. post[l].to = {} /\ RequestsOf(l) = {load[e].row}
          BY <1>1, <3>2, <4>3, UpdateFacts DEF Settling
        <5>2. RequestsOf(l)' = {load[e].row}
          BY <2>1, <5>1, NoneAdded, UpdateFacts
        <5>3. requests'[load[e].row].status = "ACCEPTED"
          BY <4>3, UpdateFacts
        <5>4. sent'[l] # NotSent /\ post'[l].to = {}
          BY <2>1, <5>1, LinksKept
        <5>5. \A r \in RequestsOf(l)' : requests'[r].status = "ACCEPTED"
          BY <5>2, <5>3
        <5> QED BY <5>4, <5>5 DEF Settled
      <4> QED BY <4>1, <4>2, <4>3
    <3> QED BY <2>3, <2>4, <3>1, <3>2
  <2>5. InTodo(e, l) \/ Settled(l)
    BY <1>1, <1>3 DEF Settling
  <2>6. ~ LoadPage(e)
    BY <1>3, LoadPageFacts
  <2> QED BY <2>2, <2>3, <2>4, <2>5, <2>6, PagesKept
<1> QED BY <1>2, <1>3, PagesKept

(* A page at a request that is not early stays there with its row.         *)
LEMMA UpdatesStay ==
  ASSUME TypeOK, Linked, Followed, Settling, [Next]_vars,
         NEW e \in FbUsers, load'[e].at = "update",
         NEW l \in Links \ early', l = Head(load'[e].todo)
  PROVE  post'[l].to = {} /\ RequestsOf(l)' = {load'[e].row}
<1>0. l \notin early /\ NoLoad.at # "update"
  BY LinksKept DEF NoLoad
<1>1. CASE FindRequest(e)
  <2>1. RequestsOf(l) = {load'[e].row} /\ post[l].to = {}
    BY <1>0, <1>1, FindFacts
  <2>2. UNCHANGED <<requests, post>>
    BY <1>1 DEF FindRequest, rows
  <2>3. RequestsOf(l)' = RequestsOf(l)
    BY <2>2 DEF RequestsOf
  <2> QED BY <2>1, <2>2, <2>3
<1>2. CASE load'[e] = load[e]
  <2>1. post[l].to = {} /\ RequestsOf(l) = {load[e].row}
    BY <1>0, <1>2 DEF Settling
  <2>2. sent[l] # NotSent
    <3>1. load[e].row \in DOMAIN requests
          /\ requests[load[e].row].externalRequestId = l
      BY <1>2 DEF Linked
    <3> QED BY <3>1 DEF Followed
  <2>3. post'[l].to = {}
    BY <2>1, <2>2, LinksKept
  <2>4. RequestsOf(l)' = {load[e].row}
    BY <2>1, NoneAdded
  <2> QED BY <1>2, <2>3, <2>4
<1>3. FindRequest(e) \/ load'[e] = load[e]
  BY UpdateStays
<1> QED BY <1>1, <1>2, <1>3

(* Links that are deleted, by a page or by ClearRequests, are settled.     *)
LEMMA DeletedAreSettled ==
  ASSUME TypeOK, Linked, Followed, Settling, [Next]_vars,
         NEW e \in FbUsers, NEW l \in inbox[e] \ early, l \notin inbox'[e]
  PROVE  Settled(l)
<1>1. CASE \E d \in FbUsers : DeleteLinks(d)
  <2>1. PICK d \in FbUsers : DeleteLinks(d)
    BY <1>1
  <2>2. d = e /\ l \in load[e].ids
    BY <2>1, DeleteLinksFacts
  <2>3. load[e] # NoLoad /\ load[e].todo = << >>
    BY <2>1, <2>2 DEF DeleteLinks, NoLoad
  <2> QED BY <2>2, <2>3 DEF Settling, InTodo
<1>2. CASE \E d \in FbUsers : ClearDelete(d)
  <2>1. PICK d \in FbUsers : ClearDelete(d)
    BY <1>2
  <2>2. d = e /\ l \in clear[e].unknown
    BY <2>1, ClearDeleteFacts
  <2> QED BY <2>2 DEF Settling
<1>3. CASE \E d \in FbUsers, k \in Links : Send(d, k)
  BY <1>3, SendFacts
<1>4. inbox' # inbox
  OBVIOUS
<1> QED BY <1>1, <1>2, <1>3, <1>4
        DEF Next, vars, facebook, Invite, StoreInvite, Challenge, LoadPage,
            SignIn, CreateOnSignIn, FindRequest, UpdateRequest, ClearRead

(* Links that ClearRequests is going to delete.                            *)
LEMMA UnknownsSettled ==
  ASSUME TypeOK, Linked, Followed, Settling, [Next]_vars,
         NEW e \in FbUsers, NEW l \in clear'[e].unknown \ early'
  PROVE  l \in Links /\ Settled(l)
<1>0. l \notin early
  BY LinksKept
<1>1. CASE l \in clear[e].unknown
  BY <1>0, <1>1 DEF Settling, TypeOK, Clears
<1>2. CASE l \notin clear[e].unknown
  <2>1. ASSUME NEW d \in FbUsers, ClearRead(d)
        PROVE  d = e /\ l \in Unknown(e) /\ post[l].to = {}
    <3>1. d = e /\ l \in Unknown(e)
      BY <1>2, <2>1, ClearReadFacts
    <3> QED BY <2>1, <3>1, ClearReadFacts DEF Unknown
  <2>2. ASSUME NEW d \in FbUsers,
               LoadPage(d) \/ DeleteLinks(d) \/ ClearDelete(d)
        PROVE  FALSE
    BY <1>2, <2>2, LoadPageFacts, DeleteLinksFacts, ClearDeleteFacts
  <2>3. clear' # clear
    BY <1>2
  <2>4. l \in Unknown(e) /\ post[l].to = {}
    BY <2>1, <2>2, <2>3
       DEF Next, vars, Send, Invite, StoreInvite, Challenge, SignIn,
           CreateOnSignIn, FindRequest, UpdateRequest
  <2>5. l \in Links /\ sent[l] # NotSent /\ RequestsOf(l) = {}
    BY <2>4 DEF Unknown, Followed, TypeOK
  <2> QED BY <2>4, <2>5 DEF Settled
<1> QED BY <1>1, <1>2

LEMMA SettlingStep ==
  TypeOK /\ Linked /\ Followed /\ Settling /\ [Next]_vars => Settling'
<1> SUFFICES ASSUME TypeOK, Linked, Followed, Settling, [Next]_vars
             PROVE  Settling'
  OBVIOUS
<1>1. ASSUME NEW e \in FbUsers, load'[e] # NoLoad,
             NEW l \in load'[e].ids \ early'
      PROVE  InTodo(e, l)' \/ Settled(l)'
  BY <1>1, PagesSettle
<1>2. ASSUME NEW e \in FbUsers, load'[e].at = "update"
      PROVE  LET l == Head(load'[e].todo)
             IN  l \notin early' =>
                   /\ post'[l].to = {}
                   /\ {r \in DOMAIN requests' :
                         requests'[r].externalRequestId = l} = {load'[e].row}
  <2>1. load'[e].todo # << >> /\ load'[e].todo \in Seq(Links)
    <3>1. TypeOK' /\ Linked'
      BY TypeStep
    <3>2. load'[e].todo # << >> /\ load'[e] # NoLoad
      BY <1>2, <3>1 DEF Linked, NoLoad
    <3> QED BY <3>1, <3>2 DEF TypeOK, LoadsOK, Pages
  <2>2. Head(load'[e].todo) \in Links
    BY <2>1, HeadTailProperties
  <2> QED BY <1>2, <2>2, UpdatesStay DEF RequestsOf
<1>3. ASSUME NEW e \in FbUsers, NEW l \in clear'[e].unknown \ early'
      PROVE  Settled(l)'
  BY <1>3, UnknownsSettled, SettledStays
<1>4. ASSUME NEW l \in Links \ early', NEW b \in post'[l].to
      PROVE  l \in inbox'[b]
  <2>1. l \notin early
    BY LinksKept
  <2>2. CASE sent[l] # NotSent
    <3>1. b \in post[l].to /\ b \in FbUsers /\ l \in inbox[b]
      BY <1>4, <2>1, <2>2, LinksKept DEF Settling, TypeOK, Posts
    <3> QED BY <2>1, <3>1, DeletedAreSettled DEF Settled
  <2>3. CASE sent[l] = NotSent
    BY <1>4, <2>3, SentNow
  <2> QED BY <2>2, <2>3
<1>5. ASSUME NEW r \in DOMAIN requests', requests'[r].status = "PENDING",
             NEW l, l = requests'[r].externalRequestId, l \notin early'
      PROVE  l \in inbox'[Invitee(r)']
  <2>1. l \notin early
    BY <1>5, LinksKept
  <2>2. CASE r \in DOMAIN requests
    <3>1. /\ requests[r].externalRequestId = l /\ l \in Links
          /\ requests[r].status = "PENDING"
          /\ Invitee(r)' = Invitee(r) /\ Invitee(r) \in FbUsers
      BY <1>5, <2>2, RowsKept, RequestsKept, RowTypes
         DEF StepKeepsRows, RequestRows, UserRows, Invitee
    <3>2. l \in inbox[Invitee(r)] /\ ~ Settled(l)
      BY <2>1, <2>2, <3>1 DEF Settling, Settled, RequestsOf
    <3> QED BY <2>1, <3>1, <3>2, DeletedAreSettled
  <2>3. CASE r \notin DOMAIN requests
    <3>1. l \in Links /\ Invitee(r)' \in post[l].to
      BY <1>5, <2>3, RequestsKept
    <3>2. Invitee(r)' \in FbUsers /\ l \in inbox[Invitee(r)']
      BY <2>1, <3>1 DEF Settling, TypeOK, Posts
    <3>3. ~ Settled(l)
      BY <3>1 DEF Settled
    <3> QED BY <2>1, <3>2, <3>3, DeletedAreSettled
  <2> QED BY <2>2, <2>3
<1> QED BY <1>1, <1>2, <1>3, <1>4, <1>5 DEF Settling, RequestsOf, Invitee

LEMMA SettlingHolds == Spec => []Settling
<1>1. Init => Settling
  BY DEF Init, Settling, NoLoad
<1> QED BY <1>1, SettlingStep, FollowedHolds, TypesHold, PTL DEF Spec

(* A request that waits for its answer can be answered: its link is still  *)
(* at Facebook, unless it was looked up while its callback was under way.  *)
THEOREM PendingIsAlwaysAnswerable == Spec => []PendingIsAnswerable
<1>1. Settling => PendingIsAnswerable
  BY DEF Settling, PendingIsAnswerable, Invitee
<1> QED BY <1>1, SettlingHolds, PTL

(* The exception for several requests of one link cannot end a page whose  *)
(* links were each sent to one: the requests of a link belong to different *)
(* receivers of it.                                                        *)
LEMMA OneRequest ==
  ASSUME TypeOK, Followed, NEW l \in Links, ~ Several(l)
  PROVE  ~ (Cardinality(RequestsOf(l)) > 1)
<1>1. \A q, s \in RequestsOf(l) : q = s
  <2> SUFFICES ASSUME NEW q \in RequestsOf(l), NEW s \in RequestsOf(l)
               PROVE  q = s
    OBVIOUS
  <2>1. /\ Invitee(q) \in sent[l].to /\ Invitee(s) \in sent[l].to
        /\ sent[l] # NotSent
    BY DEF Followed, RequestsOf
  <2>2. Invitee(q) = Invitee(s)
    BY <2>1, OneReceiver
  <2> QED BY <2>2 DEF Followed, RequestsOf
<1>2. RequestsOf(l) = {} \/ \E q : RequestsOf(l) = {q}
  BY <1>1
<1>3. CASE RequestsOf(l) = {}
  <2>1. Cardinality(RequestsOf(l)) = 0
    BY <1>3, FS_EmptySet
  <2> QED BY <2>1
<1>4. CASE \E q : RequestsOf(l) = {q}
  <2>1. Cardinality(RequestsOf(l)) = 1
    BY <1>4, FS_Singleton
  <2> QED BY <2>1
<1> QED BY <1>2, <1>3, <1>4

LEMMA EndedAreAccepted ==
  ASSUME TypeOK, Linked, Followed, Settling, Next,
         NEW e \in FbUsers, load[e] # NoLoad, load'[e] = NoLoad,
         \A k \in load[e].ids : ~ Several(k),
         NEW l \in load[e].ids \ early, NEW r \in RequestsOf(l)
  PROVE  requests[r].status = "ACCEPTED"
<1>1. CASE DeleteLinks(e)
  <2>1. ~ InTodo(e, l)
    BY <1>1 DEF DeleteLinks, InTodo
  <2> QED BY <2>1 DEF Settling, Settled
<1>2. CASE FindRequest(e)
  <2>1. PICK k \in Links : k = Head(load[e].todo)
    BY <1>2, FindFacts
  <2>2. /\ Cardinality(RequestsOf(k)) > 1
        /\ load[e].todo # << >> /\ load[e].todo \in Seq(Links)
    BY <1>2, <2>1, FindFacts, PageType
  <2>3. InTodo(e, k)
    BY <2>1, <2>2, TailElements DEF InTodo
  <2>4. k \in load[e].ids
    BY <2>3 DEF Followed
  <2> QED BY <2>2, <2>4, OneRequest
<1>3. ASSUME NEW d \in FbUsers, d # e \/ ~ (DeleteLinks(d) \/ FindRequest(d)),
             \/ LoadPage(d) \/ SignIn(d) \/ CreateOnSignIn(d)
             \/ FindRequest(d) \/ UpdateRequest(d) \/ DeleteLinks(d)
      PROVE  FALSE
  <2>1. CASE DeleteLinks(d)
    BY <1>3, <2>1 DEF DeleteLinks, TypeOK, LoadsOK
  <2> QED BY <1>3, <2>1, LoadPageFacts, SignInFacts, CreateFacts, FindFacts,
             UpdateFacts
<1>4. load' # load
  OBVIOUS
<1> QED BY <1>1, <1>2, <1>3, <1>4
        DEF Next, Send, Invite, StoreInvite, Challenge, ClearRead, ClearDelete

(* A page is over when the requests of its links are accepted: no link is  *)
(* deleted in vain, and no exception ends the page.                        *)
THEOREM FollowingAccepts == Spec => FollowedIsAccepted
<1> DEFINE Accepts ==
      \A e \in FbUsers :
        load[e] # NoLoad /\ load'[e] = NoLoad
          /\ (\A k \in load[e].ids : ~ Several(k)) =>
          \A l \in load[e].ids \ early : \A r \in RequestsOf(l) :
            requests[r].status = "ACCEPTED"
<1>1. TypeOK /\ Linked /\ Followed /\ Settling /\ [Next]_vars => [Accepts]_vars
  BY EndedAreAccepted
<1>2. Spec => [][Accepts]_vars
  <2> HIDE DEF Accepts
  <2> QED BY <1>1, TypesHold, FollowedHolds, SettlingHolds, PTL DEF Spec
<1> QED BY <1>2 DEF FollowedIsAccepted

-----------------------------------------------------------------------------
(* Counting. *)

Counted(u) ==
  {r \in DOMAIN requests :
     /\ requests[r].inviter = u /\ requests[r].type = "INVITATION"
     /\ requests[r].status = "ACCEPTED"}

LEMMA CountedFinite ==
  ASSUME TypeOK, NEW u
  PROVE  IsFiniteSet(Counted(u)) /\ Cardinality(Counted(u)) \in Nat
<1>1. IsFiniteSet(DOMAIN requests)
  BY RowTypes, FS_Interval
<1>2. Counted(u) \subseteq DOMAIN requests
  BY DEF Counted
<1> QED BY <1>1, <1>2, FS_Subset, FS_CardinalityType

(* Only UpdateRequest accepts, and counts.                                 *)
LEMMA OthersCountNothing ==
  ASSUME TypeOK, Linked, [Next]_vars, \A e \in FbUsers : ~ UpdateRequest(e)
  PROVE  /\ miscounted' = miscounted
         /\ \A u \in DOMAIN users :
              /\ users'[u].sentInvitesAccepted = users[u].sentInvitesAccepted
              /\ Counted(u)' = Counted(u)
         /\ \A u \in DOMAIN users' : u \notin DOMAIN users =>
              users'[u].sentInvitesAccepted = 0 /\ Counted(u)' = {}
<1>1. miscounted' = miscounted
  BY DEF Next, vars, history, Send, Invite, StoreInvite, Challenge, LoadPage,
         SignIn, CreateOnSignIn, FindRequest, DeleteLinks, ClearRead, ClearDelete
<1>2. /\ \A u \in DOMAIN users :
           users'[u].sentInvitesAccepted = users[u].sentInvitesAccepted
      /\ \A u \in DOMAIN users' : u \notin DOMAIN users =>
           users'[u].sentInvitesAccepted = 0
  <2>1. ASSUME NEW l \in Links, NEW b \in FbUsers, StoreInvite(l, b)
        PROVE  /\ \A u \in DOMAIN users : users'[u] = users[u]
               /\ \A u \in DOMAIN users' : u \notin DOMAIN users =>
                    users'[u].sentInvitesAccepted = 0
    BY <2>1, StoreInviteFacts
  <2>2. ASSUME NEW e \in FbUsers, CreateOnSignIn(e)
        PROVE  /\ \A u \in DOMAIN users : users'[u] = users[u]
               /\ \A u \in DOMAIN users' : u \notin DOMAIN users =>
                    users'[u].sentInvitesAccepted = 0
    BY <2>2, CreateFacts
  <2> QED BY <2>1, <2>2
          DEF Next, vars, rows, Send, Invite, Challenge, LoadPage, SignIn,
              FindRequest, DeleteLinks, ClearRead, ClearDelete
<1>3. \A r \in DOMAIN requests :
        /\ r \in DOMAIN requests'
        /\ requests'[r].inviter = requests[r].inviter
        /\ requests'[r].type = requests[r].type
        /\ requests'[r].status = requests[r].status
  BY RowsKept, RowsChanged DEF StepKeepsRows
<1>4. ASSUME NEW r \in DOMAIN requests', r \notin DOMAIN requests
      PROVE  requests'[r].status = "PENDING"
  BY <1>4, NewRow, StoredFacts
<1>5. \A u : Counted(u)' = Counted(u)
  BY <1>3, <1>4 DEF Counted
<1>6. ASSUME NEW u, u \notin DOMAIN users
      PROVE  Counted(u) = {}
  BY <1>6, RowTypes DEF Counted
<1> QED BY <1>1, <1>2, <1>5, <1>6

LEMMA CountStep ==
  TypeOK /\ Linked /\ AcceptedInvitesCounted /\ [Next]_vars
    => AcceptedInvitesCounted'
<1> SUFFICES ASSUME TypeOK, Linked, AcceptedInvitesCounted, [Next]_vars,
                    NEW v \in DOMAIN users' \ miscounted'
             PROVE  users'[v].sentInvitesAccepted = Cardinality(Counted(v)')
  BY DEF AcceptedInvitesCounted, Counted
<1>1. \A u \in DOMAIN users \ miscounted :
        users[u].sentInvitesAccepted = Cardinality(Counted(u))
  BY DEF AcceptedInvitesCounted, Counted
<1>2. CASE \A e \in FbUsers : ~ UpdateRequest(e)
  <2>1. Cardinality({}) = 0
    BY FS_EmptySet
  <2>2. CASE v \in DOMAIN users
    BY <1>1, <1>2, <2>2, OthersCountNothing
  <2>3. CASE v \notin DOMAIN users
    BY <1>2, <2>1, <2>3, OthersCountNothing
  <2> QED BY <2>2, <2>3
<1>3. ASSUME NEW e \in FbUsers, UpdateRequest(e)
      PROVE  users'[v].sentInvitesAccepted = Cardinality(Counted(v)')
  <2> DEFINE r == load[e].row
             u == requests[r].inviter
             n == load[e].stats[u]
  <2>1. /\ r \in DOMAIN requests /\ v \in DOMAIN users
        /\ DOMAIN requests' = DOMAIN requests
        /\ \A s \in DOMAIN requests : s # r => requests'[s] = requests[s]
        /\ requests'[r].status = "ACCEPTED"
        /\ requests'[r].type = requests[r].type
        /\ requests[r].inviter = u /\ requests'[r].inviter = u
        /\ requests[r].type = "INVITATION" => Count(requests[r].type) = 1
    BY <1>3, UpdateFacts DEF Count
  <2>2. users'[v].sentInvitesAccepted =
          IF v = u /\ requests[r].type = "INVITATION"
          THEN n + Count(requests[r].type) ELSE users[v].sentInvitesAccepted
    BY <1>3, <2>1, UpdateFacts
  <2>3. /\ miscounted \subseteq miscounted'
        /\ u \notin miscounted' /\ requests[r].type = "INVITATION" =>
             requests[r].status # "ACCEPTED" /\ n = users[u].sentInvitesAccepted
    BY <1>3 DEF UpdateRequest
  <2> HIDE DEF r, u, n
  <2>4. CASE v = u /\ requests[r].type = "INVITATION"
    <3>1. Counted(v)' = Counted(v) \union {r} /\ r \notin Counted(v)
      BY <2>1, <2>3, <2>4 DEF Counted
    <3>2. Cardinality(Counted(v)') = Cardinality(Counted(v)) + 1
      BY <3>1, CountedFinite, FS_AddElement
    <3>3. users'[v].sentInvitesAccepted = users[v].sentInvitesAccepted + 1
      BY <2>1, <2>2, <2>3, <2>4
    <3> QED BY <1>1, <2>1, <2>3, <3>2, <3>3
  <2>5. CASE ~ (v = u /\ requests[r].type = "INVITATION")
    <3>1. Counted(v)' = Counted(v)
      BY <2>1, <2>5 DEF Counted
    <3> QED BY <1>1, <2>1, <2>2, <2>3, <2>5, <3>1
  <2> QED BY <2>4, <2>5
<1> QED BY <1>2, <1>3

(* An inviter's counter is the number of invitations accepted, unless a    *)
(* transaction wrote what it had read before another or counted again.     *)
THEOREM AcceptedInvitesAreCounted == Spec => []AcceptedInvitesCounted
<1>1. Init => AcceptedInvitesCounted
  BY DEF Init, AcceptedInvitesCounted
<1> QED BY <1>1, CountStep, TypesHold, PTL DEF Spec
=============================================================================
