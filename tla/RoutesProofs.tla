---------------------------- MODULE RoutesProofs ----------------------------
(* Proofs about the routes that write several tables, or one they read     *)
(* before, with no transaction around it (Team, Deliveries and Reviews),   *)
(* and about the look-ups that read what others are storing (ScoreLookup), *)
(* for any number of requests, rows, addresses, sends and tickets.         *)
EXTENDS Team, Deliveries, Reviews, ScoreLookup, SequenceTheorems, TLAPS

TeamRequests ==
  {NoRequest}
    \cup [op : {"invite"}, at : {"begun"}, who : Emails, locals : {<< >>}]
    \cup [op : {"invite"}, at : {"member"}, who : Emails, locals : Ids]
    \cup [op : {"accept"}, at : {"begun", "marked"}, who : Emails, locals : Ids]

\* The requests that hold the row they inserted, or the row of a token.
Inviting(s) == requests[s].op = "invite" /\ requests[s].at = "member"
Accepting(s) == requests[s].op = "accept"

TeamTypes ==
  /\ requests \in [Slots -> TeamRequests]
  /\ members \in [Ids -> [status : {"none", "invited", "active", "suspended"},
                          joined : BOOLEAN]]
  /\ invites \in [Ids -> [state : {"none", "open", "expired", "accepted"}]]
  /\ inserted \in [Emails -> Nat]

\* The number of a row is never used again, so a request that holds a row
\* holds that one or none.
RowsAreNumbered ==
  /\ \A id \in Ids : Present(id) \/ invites[id] # NoInvite => id[2] <= inserted[id[1]]
  /\ \A s \in Slots : Inviting(s) \/ Accepting(s) =>
       requests[s].locals[2] <= inserted[requests[s].locals[1]]
  /\ \A s, t \in Slots : Inviting(s) /\ Inviting(t) /\ s # t =>
       requests[s].locals # requests[t].locals

\* A row that waits for its invite has none; one that is being accepted has
\* its own, accepted when it was marked.
HeldRows ==
  \A s \in Slots :
    LET id == requests[s].locals IN
    /\ Inviting(s) /\ Present(id) => invites[id] = NoInvite
    /\ Accepting(s) /\ Present(id) =>
         /\ invites[id] # NoInvite
         /\ requests[s].at = "marked" => invites[id].state = "accepted"

TeamInv ==
  /\ TeamTypes /\ RowsAreNumbered /\ HeldRows
  /\ JoinedByOwnInvite

----------------------------------------------------------------------------
RetryRequests ==
  {NoRequest}
    \cup [op : {"test"}, at : {"begun"}, who : {0}, locals : {<< >>}]
    \cup [op : {"retry"}, at : {"begun", "deliver"}, who : Deliverable,
          locals : [attempts : Nat]]
    \cup [op : {"retry"}, at : {"update"}, who : Deliverable,
          locals : [attempts : Nat, result : Results]]

DeliveryTypes ==
  /\ requests \in [Slots -> RetryRequests]
  /\ log \in [Deliverable -> [status : {"none", "2xx", "5xx"}, error : {"none", "timeout"},
                              attempts : Nat]]
  /\ sends \in [Deliverable -> Nat]
  /\ outcomes \in [Deliverable -> SUBSET Results]
  /\ retried \in [Deliverable -> BOOLEAN]

\* The copy of a retry is no more than the sends of its row, not counting the
\* one it made itself, whose outcome it holds.
RetriesCopyTheRow ==
  /\ \A s \in Slots : requests[s].op = "retry" =>
       LET n == requests[s].who
           mine == requests[s].locals
       IN
       /\ Logged(n) /\ mine.attempts >= 1
       /\ mine.attempts + (IF requests[s].at = "update" THEN 1 ELSE 0) <= sends[n]
       /\ requests[s].at = "update" => mine.result \in outcomes[n]
  /\ \A n \in Deliverable : retried[n] => Logged(n)

DeliveriesInv == DeliveryTypes /\ RetriesCopyTheRow /\ LogNeverBoasts

----------------------------------------------------------------------------
TicketRequests ==
  {NoRequest}
    \cup [op : {"appeal"}, at : {"begun", "audit", "notify"}, who : {"none"},
          locals : [ticket : Nat, analysis : Analyses, verdict : {"false_positive"}]]
    \cup [op : {"feedback"}, at : {"begun", "audit"}, who : {"none"},
          locals : [ticket : Nat, analysis : Analyses \cup {NoAnalysis}, verdict : Verdicts]]

FormNames == {"appeal", "feedback"}
Forms == [busy : BOOLEAN, says : {"nothing", "failed", "recorded"}, ticket : Nat]
Notifications == [ticket : Nat, customer : {OwnerOf[a] : a \in Analyses}, read : BOOLEAN]

ReviewTypes ==
  /\ requests \in [Slots -> TicketRequests]
  /\ notifications \subseteq Notifications
  /\ scores \in Seq(Analyses)
  /\ tickets \in Nat
  /\ forms \in [FormNames -> Forms]

\* A request has written the rows of the steps behind it.
RowsBehind ==
  \A s \in Slots :
    LET r == requests[s]
        mine == r.locals
    IN
    /\ r.at \in {"audit", "notify"} =>
         \E f \in feedback : /\ f.ticket = mine.ticket /\ f.analysis = mine.analysis
                             /\ f.verdict = mine.verdict
    /\ r.at = "notify" =>
         \E e \in audit : /\ e.ticket = mine.ticket /\ e.analysis = mine.analysis
                          /\ e.event = "appealed"

\* A ticket is handed out once, and the form that waits for it sent it.
TicketsAreNumbered ==
  /\ \A s \in Slots : requests[s] # NoRequest =>
       /\ requests[s].locals.ticket \in 1..tickets
       /\ \A f \in DOMAIN forms :
            forms[f].ticket = requests[s].locals.ticket => f = requests[s].op
  /\ \A f \in DOMAIN forms :
       forms[f].ticket <= tickets /\ (forms[f].busy => forms[f].says # "recorded")

ReviewsInv ==
  ReviewTypes /\ RowsBehind /\ TicketsAreNumbered /\ OneStory /\ AppealConfirmed

\* An idle slot.
LEMMA IdleSlot == NoRequest.op = "none" /\ NoRequest.at = "idle"
  BY DEF NoRequest

----------------------------------------------------------------------------
(* Team.                                                                   *)

\* The forms of a request in progress.
LEMMA TeamRequestForms ==
  ASSUME NEW r \in TeamRequests
  PROVE  /\ r # NoRequest <=> r.op \in {"invite", "accept"}
         /\ r.op = "invite" => r.at \in {"begun", "member"} /\ r.who \in Emails
         /\ r.op = "invite" /\ r.at = "member" => r.locals \in Ids
         /\ r.op = "accept" => /\ r.at \in {"begun", "marked"} /\ r.who \in Emails
                               /\ r.locals \in Ids
  BY DEF TeamRequests, NoRequest

\* A row's parts.
LEMMA RowNames ==
  ASSUME NEW id \in Ids
  PROVE  id[1] \in Emails /\ id[2] \in 1..MaxRows
  BY DEF Ids

\* Where rows and invites stay and no request takes hold of a row.
LEMMA TeamRequestMoves ==
  ASSUME TeamInv, NEW s \in Slots, NEW new \in TeamRequests,
         requests' = [requests EXCEPT ![s] = new], UNCHANGED teamTables,
         new.op = "invite" => new.at = "begun",
         new.op = "accept" => new.at = "begun" /\ invites[new.locals] # NoInvite
  PROVE  TeamInv'
<1> USE DEF teamTables
<1>0. TeamTypes /\ RowsAreNumbered /\ HeldRows /\ JoinedByOwnInvite  BY DEF TeamInv
<1>1. \A t \in Slots : requests'[t] = IF t = s THEN new ELSE requests[t]
  BY <1>0 DEF TeamTypes
<1>2. TeamTypes'  BY <1>0 DEF TeamTypes
<1>3. \A id \in Ids : Present(id)' = Present(id)  BY DEF Present
<1>4. \A t \in Slots \ {s} : Inviting(t)' = Inviting(t) /\ Accepting(t)' = Accepting(t)
                              /\ requests'[t] = requests[t]
  BY <1>1 DEF Inviting, Accepting
<1>5. ~Inviting(s)'  BY <1>1 DEF Inviting
<1>6. Accepting(s)' => /\ requests'[s].locals \in Ids /\ requests'[s].at = "begun"
                       /\ invites[requests'[s].locals] # NoInvite
  BY <1>1, TeamRequestForms DEF Accepting
<1>7. RowsAreNumbered'
  BY <1>0, <1>3, <1>4, <1>5, <1>6 DEF RowsAreNumbered
<1>8. HeldRows'
  <2>1. ASSUME NEW t \in Slots, Inviting(t)' \/ Accepting(t)'
        PROVE  requests'[t].locals \in Ids
    BY <1>2, <2>1, TeamRequestForms DEF TeamTypes, Inviting, Accepting
  <2>2. ASSUME NEW t \in Slots, NEW id \in Ids, id = requests'[t].locals
        PROVE  /\ Inviting(t)' /\ Present(id) => invites[id] = NoInvite
               /\ Accepting(t)' /\ Present(id) =>
                    /\ invites[id] # NoInvite
                    /\ requests'[t].at = "marked" => invites[id].state = "accepted"
    <3>1. CASE t = s  BY <1>5, <1>6, <2>2, <3>1
    <3>2. CASE t # s  BY <1>0, <1>4, <2>2, <3>2 DEF HeldRows
    <3> QED  BY <3>1, <3>2
  <2> QED  BY <2>1, <2>2, <1>3 DEF HeldRows
<1>9. JoinedByOwnInvite'  BY <1>0 DEF JoinedByOwnInvite
<1> QED  BY <1>2, <1>7, <1>8, <1>9 DEF TeamInv

\* The requests that begin, and the one that ends without writing.
LEMMA TeamQuiet ==
  ASSUME TeamInv, NEW s \in Slots,
         \/ \E e \in Emails : InviteSelect(s, e)
         \/ \E id \in Ids : AcceptSelect(s, id)
         \/ Ends(s) /\ UNCHANGED teamTables
  PROVE  TeamInv'
<1>1. CASE \E e \in Emails : InviteSelect(s, e)
  <2>1. PICK e \in Emails : InviteSelect(s, e)  BY <1>1
  <2> DEFINE new == [op |-> "invite", at |-> "begun", who |-> e, locals |-> << >>]
  <2>2. new \in TeamRequests /\ new.op = "invite" /\ new.at = "begun"  BY DEF TeamRequests
  <2>3. requests' = [requests EXCEPT ![s] = new] /\ UNCHANGED teamTables
    BY <2>1 DEF InviteSelect, Begins
  <2> HIDE DEF new
  <2> QED  BY <2>2, <2>3, TeamRequestMoves
<1>2. CASE \E id \in Ids : AcceptSelect(s, id)
  <2>1. PICK id \in Ids : AcceptSelect(s, id)  BY <1>2
  <2> DEFINE new == [op |-> "accept", at |-> "begun", who |-> id[1], locals |-> id]
  <2>2. new \in TeamRequests /\ new.op = "accept" /\ new.at = "begun" /\ new.locals = id
    BY RowNames DEF TeamRequests
  <2>3. requests' = [requests EXCEPT ![s] = new] /\ UNCHANGED teamTables
    BY <2>1 DEF AcceptSelect, Begins
  <2>4. invites[id] # NoInvite  BY <2>1 DEF AcceptSelect, NoInvite
  <2> HIDE DEF new
  <2> QED  BY <2>2, <2>3, <2>4, TeamRequestMoves
<1>3. CASE Ends(s) /\ UNCHANGED teamTables
  BY <1>3, TeamRequestForms, TeamRequestMoves DEF Ends, TeamRequests
<1> QED  BY <1>1, <1>2, <1>3

\* The member is inserted: its row is a new one.
LEMMA InsertMemberKeeps ==
  ASSUME TeamInv, NEW s \in Slots, InsertMember(s)
  PROVE  TeamInv'
<1>0. TeamTypes /\ RowsAreNumbered /\ HeldRows /\ JoinedByOwnInvite  BY DEF TeamInv
<1>1. CASE MembersAt(requests[s].who) # {}
  BY <1>1, TeamQuiet DEF InsertMember
<1>2. CASE MembersAt(requests[s].who) = {}
  <2>1. requests[s].op = "invite" /\ requests[s].who \in Emails
    BY <1>0, TeamRequestForms DEF InsertMember, Reached, TeamTypes
  <2>2. PICK e \in Emails : e = requests[s].who  BY <2>1
  <2>3. PICK id \in Ids :
          /\ id = <<e, inserted[e] + 1>>
          /\ members' = [members EXCEPT ![id] = [status |-> "invited", joined |-> FALSE]]
          /\ inserted' = [inserted EXCEPT ![e] = @ + 1]
          /\ Continues(s, "member", id) /\ UNCHANGED invites
    BY <1>2, <2>2 DEF InsertMember
  <2> DEFINE new == [op |-> "invite", at |-> "member", who |-> e, locals |-> id]
  <2>4. /\ new \in TeamRequests /\ new.op = "invite" /\ new.at = "member"
        /\ new.locals = id
    BY DEF TeamRequests
  <2>5. requests' = [requests EXCEPT ![s] = new]
    BY <1>0, <2>1, <2>2, <2>3 DEF Continues, TeamTypes
  <2> HIDE DEF new
  <2>6. \A t \in Slots : requests'[t] = IF t = s THEN new ELSE requests[t]
    BY <1>0, <2>5 DEF TeamTypes
  <2>7. /\ id[1] = e /\ id[2] = inserted[e] + 1 /\ inserted[e] \in Nat
        /\ inserted'[e] = inserted[e] + 1
        /\ \A f \in Emails \ {e} : inserted'[f] = inserted[f]
        /\ \A f \in Emails : inserted[f] <= inserted'[f] /\ inserted'[f] \in Nat
                              /\ inserted[f] \in Nat
    BY <1>0, <2>3 DEF TeamTypes
  <2>8. ~(id[2] <= inserted[id[1]])  BY <2>7
  <2>9. /\ ~Present(id) /\ invites[id] = NoInvite
        /\ \A t \in Slots : Inviting(t) \/ Accepting(t) => requests[t].locals # id
    BY <1>0, <2>8 DEF RowsAreNumbered
  <2>10. \A j \in Ids \ {id} : members'[j] = members[j] /\ Present(j)' = Present(j)
    BY <1>0, <2>3 DEF TeamTypes, Present
  <2>11. members'[id].joined = FALSE  BY <1>0, <2>3 DEF TeamTypes
  <2>12. TeamTypes'  BY <1>0, <2>3, <2>4, <2>5 DEF TeamTypes
  <2>13. \A t \in Slots \ {s} : Inviting(t)' = Inviting(t) /\ Accepting(t)' = Accepting(t)
                                 /\ requests'[t] = requests[t]
    BY <2>6 DEF Inviting, Accepting
  <2>14. requests'[s].locals = id /\ ~Accepting(s)'
    BY <2>4, <2>6 DEF Accepting
  <2>15. \A t \in Slots : Inviting(t) \/ Accepting(t) => requests[t].locals \in Ids
    BY <1>0, TeamRequestForms DEF TeamTypes, Inviting, Accepting
  <2>16. \A j \in Ids : j[1] \in Emails /\ j[2] \in Nat  BY RowNames
  <2>17. RowsAreNumbered'
    <3>1. \A j \in Ids : Present(j)' \/ invites'[j] # NoInvite => j[2] <= inserted'[j[1]]
      <4>1. id[2] <= inserted'[id[1]]  BY <2>7
      <4>2. \A j \in Ids \ {id} : Present(j)' \/ invites'[j] # NoInvite =>
              j[2] <= inserted[j[1]]
        BY <1>0, <2>3, <2>10 DEF RowsAreNumbered
      <4> QED  BY <2>7, <2>16, <4>1, <4>2
    <3>2. \A t \in Slots : Inviting(t)' \/ Accepting(t)' =>
            requests'[t].locals[2] <= inserted'[requests'[t].locals[1]]
      <4>1. requests'[s].locals[2] <= inserted'[requests'[s].locals[1]]  BY <2>7, <2>14
      <4>2. \A t \in Slots \ {s} : Inviting(t)' \/ Accepting(t)' =>
              /\ requests'[t].locals[2] <= inserted[requests'[t].locals[1]]
              /\ requests'[t].locals \in Ids
        BY <1>0, <2>13, <2>15 DEF RowsAreNumbered
      <4> QED  BY <2>7, <2>16, <4>1, <4>2
    <3>3. \A t, u \in Slots : Inviting(t)' /\ Inviting(u)' /\ t # u =>
            requests'[t].locals # requests'[u].locals
      BY <1>0, <2>9, <2>13, <2>14 DEF RowsAreNumbered
    <3> QED  BY <3>1, <3>2, <3>3 DEF RowsAreNumbered
  <2>18. HeldRows'
    <3>1. \A t \in Slots \ {s} : Inviting(t)' \/ Accepting(t)' =>
            requests'[t].locals \in Ids \ {id}
      BY <2>9, <2>13, <2>15
    <3>2. ASSUME NEW t \in Slots, NEW j \in Ids, j = requests'[t].locals
          PROVE  /\ Inviting(t)' /\ Present(j)' => invites'[j] = NoInvite
                 /\ Accepting(t)' /\ Present(j)' =>
                      /\ invites'[j] # NoInvite
                      /\ requests'[t].at = "marked" => invites'[j].state = "accepted"
      <4>1. CASE t = s  BY <2>3, <2>9, <2>14, <3>2, <4>1
      <4>2. CASE t # s
        <5>1. Inviting(t)' \/ Accepting(t)' => Present(j)' = Present(j)
          BY <2>10, <3>1, <3>2, <4>2
        <5> QED  BY <1>0, <2>3, <2>13, <3>2, <4>2, <5>1 DEF HeldRows
      <4> QED  BY <4>1, <4>2
    <3>3. \A t \in Slots : Inviting(t)' \/ Accepting(t)' => requests'[t].locals \in Ids
      BY <2>14, <3>1
    <3> QED  BY <3>2, <3>3 DEF HeldRows, Present
  <2>19. JoinedByOwnInvite'
    BY <1>0, <2>3, <2>10, <2>11 DEF JoinedByOwnInvite
  <2> QED  BY <2>12, <2>17, <2>18, <2>19 DEF TeamInv
<1> QED  BY <1>1, <1>2

\* The numbers, where no row is inserted.
LEMMA NumbersStay ==
  ASSUME TeamInv, UNCHANGED inserted,
         \A id \in Ids : Present(id)' => Present(id),
         \A id \in Ids : invites'[id] # NoInvite =>
           \/ invites[id] # NoInvite
           \/ \E s \in Slots : Inviting(s) /\ requests[s].locals = id,
         \A s \in Slots : Inviting(s)' \/ Accepting(s)' =>
           requests'[s].locals = requests[s].locals /\ (Inviting(s) \/ Accepting(s)),
         \A s \in Slots : Inviting(s)' => Inviting(s)
  PROVE  RowsAreNumbered'
<1>1. RowsAreNumbered  BY DEF TeamInv
<1>2. \A id \in Ids : Present(id)' \/ invites'[id] # NoInvite => id[2] <= inserted'[id[1]]
  BY <1>1 DEF RowsAreNumbered
<1>3. \A s \in Slots : Inviting(s)' \/ Accepting(s)' =>
        requests'[s].locals[2] <= inserted'[requests'[s].locals[1]]
  BY <1>1 DEF RowsAreNumbered
<1>4. \A s, t \in Slots : Inviting(s)' /\ Inviting(t)' /\ s # t =>
        requests'[s].locals # requests'[t].locals
  BY <1>1 DEF RowsAreNumbered
<1> QED  BY <1>2, <1>3, <1>4 DEF RowsAreNumbered

\* The states of the invites.
LEMMA InviteStates ==
  /\ NoInvite.state = "none"
  /\ \A st \in {"none", "open", "expired", "accepted"} :
       /\ [state |-> st] \in [state : {"none", "open", "expired", "accepted"}]
       /\ [state |-> st].state = st
  /\ \A i \in [state : {"none", "open", "expired", "accepted"}] :
       i = NoInvite <=> i.state = "none"
  BY DEF NoInvite

\* The invite is inserted for the row, if that is still there.
LEMMA InsertInviteKeeps ==
  ASSUME TeamInv, NEW s \in Slots, InsertInvite(s)
  PROVE  TeamInv'
<1>0. TeamTypes /\ RowsAreNumbered /\ HeldRows /\ JoinedByOwnInvite  BY DEF TeamInv
<1>1. Inviting(s) /\ requests' = [requests EXCEPT ![s] = NoRequest]
      /\ UNCHANGED <<members, inserted>>
  BY DEF InsertInvite, Ends, Inviting, Reached
<1>2. PICK id \in Ids : id = requests[s].locals
  BY <1>0, <1>1, TeamRequestForms DEF TeamTypes, Inviting
<1>3. /\ \A j \in Ids : Present(j)' = Present(j)
      /\ \A t \in Slots : requests'[t] = IF t = s THEN NoRequest ELSE requests[t]
  BY <1>0, <1>1 DEF Present, TeamTypes
<1>4. \A t \in Slots : Inviting(t)' \/ Accepting(t)' =>
        /\ t # s /\ requests'[t] = requests[t]
        /\ Inviting(t)' = Inviting(t) /\ Accepting(t)' = Accepting(t)
  BY <1>3, IdleSlot DEF Inviting, Accepting
<1>5. /\ invites' \in [Ids -> [state : {"none", "open", "expired", "accepted"}]]
      /\ \A j \in Ids \ {id} : invites'[j] = invites[j]
      /\ Present(id) => invites'[id].state = "open"
      /\ ~Present(id) => invites'[id] = invites[id]
  <2>1. CASE Present(id)
    <3>1. invites' = [invites EXCEPT ![id] = [state |-> "open"]]
      BY <1>2, <2>1 DEF InsertInvite
    <3> QED  BY <1>0, <2>1, <3>1, InviteStates DEF TeamTypes
  <2>2. CASE ~Present(id)
    BY <1>0, <1>2, <2>2 DEF InsertInvite, TeamTypes
  <2> QED  BY <2>1, <2>2
<1>6. TeamTypes'  BY <1>0, <1>1, <1>5, TeamRequestForms DEF TeamTypes, TeamRequests
<1>7. RowsAreNumbered'
  <2>1. \A j \in Ids : invites'[j] # NoInvite =>
          \/ invites[j] # NoInvite
          \/ \E t \in Slots : Inviting(t) /\ requests[t].locals = j
    BY <1>1, <1>2, <1>5
  <2> QED  BY <1>1, <1>3, <1>4, <2>1, NumbersStay
<1>8. Present(id) => invites[id] = NoInvite  BY <1>0, <1>1, <1>2 DEF HeldRows
<1>9. HeldRows'
  <2>1. \A t \in Slots : Inviting(t)' \/ Accepting(t)' => requests'[t].locals \in Ids
    BY <1>6, TeamRequestForms DEF TeamTypes, Inviting, Accepting
  <2>2. ASSUME NEW t \in Slots, NEW j \in Ids, j = requests'[t].locals,
               Inviting(t)' \/ Accepting(t)', Present(j)
        PROVE  j # id
    <3>1. t # s /\ requests[t].locals = j /\ (Inviting(t) \/ Accepting(t))
      BY <1>4, <2>2
    <3>2. CASE Inviting(t)
      BY <1>0, <1>1, <1>2, <3>1, <3>2 DEF RowsAreNumbered
    <3>3. CASE Accepting(t)
      <4>1. invites[j] # NoInvite  BY <1>0, <2>2, <3>1, <3>3 DEF HeldRows
      <4> QED  BY <1>8, <2>2, <4>1
    <3> QED  BY <3>1, <3>2, <3>3
  <2>3. ASSUME NEW t \in Slots, NEW j \in Ids, j = requests'[t].locals
        PROVE  /\ Inviting(t)' /\ Present(j) => invites'[j] = NoInvite
               /\ Accepting(t)' /\ Present(j) =>
                    /\ invites'[j] # NoInvite
                    /\ requests'[t].at = "marked" => invites'[j].state = "accepted"
    BY <1>0, <1>4, <1>5, <2>2, <2>3 DEF HeldRows
  <2> QED  BY <1>3, <2>1, <2>3 DEF HeldRows
<1>10. JoinedByOwnInvite'
  <2>1. Present(id) => ~members[id].joined
    BY <1>0, <1>8, InviteStates DEF JoinedByOwnInvite
  <2> QED  BY <1>0, <1>1, <1>5, <2>1 DEF JoinedByOwnInvite
<1> QED  BY <1>6, <1>7, <1>9, <1>10 DEF TeamInv

\* PATCH: the status of a member; DELETE: its row and the invite of it.  And
\* an invite that grows too old.
LEMMA MemberKeeps ==
  ASSUME TeamInv, NEW id \in Ids, PatchMember(id) \/ DeleteMember(id) \/ InviteExpires(id)
  PROVE  TeamInv'
<1>0. TeamTypes /\ RowsAreNumbered /\ HeldRows /\ JoinedByOwnInvite  BY DEF TeamInv
<1>1. UNCHANGED <<requests, inserted>>  BY DEF PatchMember, DeleteMember, InviteExpires
<1>2. \A t \in Slots : Inviting(t)' = Inviting(t) /\ Accepting(t)' = Accepting(t)
  BY <1>1 DEF Inviting, Accepting
<1>3. \A t \in Slots : Inviting(t) \/ Accepting(t) => requests[t].locals \in Ids
  BY <1>0, TeamRequestForms DEF TeamTypes, Inviting, Accepting
<1>4. /\ members' \in [Ids -> [status : {"none", "invited", "active", "suspended"},
                               joined : BOOLEAN]]
      /\ invites' \in [Ids -> [state : {"none", "open", "expired", "accepted"}]]
      /\ \A j \in Ids : /\ Present(j)' => Present(j)
                        /\ members'[j].joined => members[j].joined
                        /\ invites'[j] # NoInvite => invites[j] # NoInvite
                        /\ invites[j].state = "accepted" =>
                             invites'[j] = invites[j] \/ (~Present(j)' /\ ~members'[j].joined)
                        /\ Present(j)' /\ invites[j] # NoInvite => invites'[j] # NoInvite
  <2>1. CASE PatchMember(id)
    <3>1. PICK status \in {"active", "suspended"} :
            members' = [members EXCEPT ![id].status = status]
      BY <2>1 DEF PatchMember
    <3>2. UNCHANGED invites /\ Present(id)  BY <2>1 DEF PatchMember
    <3>3. members' \in [Ids -> [status : {"none", "invited", "active", "suspended"},
                                joined : BOOLEAN]]
      BY <1>0, <3>1 DEF TeamTypes
    <3>4. \A j \in Ids : members'[j].joined = members[j].joined
                         /\ (j # id => members'[j] = members[j])
      BY <1>0, <3>1 DEF TeamTypes
    <3> QED  BY <1>0, <3>2, <3>3, <3>4 DEF Present, TeamTypes
  <2>2. CASE DeleteMember(id)
    <3>1. /\ members' = [members EXCEPT ![id] = NoMember]
          /\ invites' = [invites EXCEPT ![id] = NoInvite]
      BY <2>2 DEF DeleteMember
    <3>2. /\ members' \in [Ids -> [status : {"none", "invited", "active", "suspended"},
                                   joined : BOOLEAN]]
          /\ members'[id] = NoMember /\ NoMember.joined = FALSE
          /\ \A j \in Ids \ {id} : members'[j] = members[j]
      BY <1>0, <3>1 DEF TeamTypes, NoMember
    <3>3. /\ invites' \in [Ids -> [state : {"none", "open", "expired", "accepted"}]]
          /\ invites'[id] = NoInvite
          /\ \A j \in Ids \ {id} : invites'[j] = invites[j]
      BY <1>0, <3>1 DEF TeamTypes, NoInvite
    <3> QED  BY <3>2, <3>3 DEF Present
  <2>3. CASE InviteExpires(id)
    <3>1. /\ invites' = [invites EXCEPT ![id].state = "expired"]
          /\ invites[id].state = "open" /\ UNCHANGED members
      BY <2>3 DEF InviteExpires
    <3>2. /\ invites' \in [Ids -> [state : {"none", "open", "expired", "accepted"}]]
          /\ invites'[id].state = "expired"
          /\ \A j \in Ids \ {id} : invites'[j] = invites[j]
      BY <1>0, <3>1 DEF TeamTypes
    <3>3. invites[id] # NoInvite /\ invites'[id] # NoInvite
      BY <3>1, <3>2, InviteStates
    <3> QED  BY <1>0, <3>1, <3>2, <3>3 DEF Present, TeamTypes
  <2> QED  BY <2>1, <2>2, <2>3
<1>5. TeamTypes'  BY <1>0, <1>1, <1>4 DEF TeamTypes
<1>6. RowsAreNumbered'
  BY <1>1, <1>2, <1>4, NumbersStay
<1>7. HeldRows'
  <2>1. ASSUME NEW t \in Slots, NEW j \in Ids, j = requests[t].locals
        PROVE  /\ Inviting(t) /\ Present(j)' => invites'[j] = NoInvite
               /\ Accepting(t) /\ Present(j)' =>
                    /\ invites'[j] # NoInvite
                    /\ requests[t].at = "marked" => invites'[j].state = "accepted"
    BY <1>0, <1>4, <2>1 DEF HeldRows
  <2> QED  BY <1>1, <1>2, <1>3, <2>1 DEF HeldRows, Present
<1>8. JoinedByOwnInvite'
  BY <1>0, <1>4 DEF JoinedByOwnInvite
<1> QED  BY <1>5, <1>6, <1>7, <1>8 DEF TeamInv

\* The invite is marked accepted, if it is still there.
LEMMA AcceptMarkKeeps ==
  ASSUME TeamInv, NEW s \in Slots, AcceptMark(s)
  PROVE  TeamInv'
<1>0. TeamTypes /\ RowsAreNumbered /\ HeldRows /\ JoinedByOwnInvite  BY DEF TeamInv
<1>1. /\ requests[s].op = "accept" /\ requests[s].locals \in Ids /\ requests[s].who \in Emails
      /\ requests[s] \in TeamRequests /\ UNCHANGED <<members, inserted>>
  BY <1>0, TeamRequestForms DEF AcceptMark, Reached, TeamTypes
<1>2. PICK id \in Ids, e \in Emails : id = requests[s].locals /\ e = requests[s].who
  BY <1>1
<1> DEFINE new == [op |-> "accept", at |-> "marked", who |-> e, locals |-> id]
<1>3. /\ new \in TeamRequests /\ new.op = "accept" /\ new.at = "marked" /\ new.locals = id
  BY DEF TeamRequests
<1>4. requests' = [requests EXCEPT ![s] = new]
  BY <1>0, <1>1, <1>2 DEF AcceptMark, Continues, TeamTypes
<1> HIDE DEF new
<1>5. \A t \in Slots : requests'[t] = IF t = s THEN new ELSE requests[t]
  BY <1>0, <1>4 DEF TeamTypes
<1>6. /\ invites' \in [Ids -> [state : {"none", "open", "expired", "accepted"}]]
      /\ \A j \in Ids \ {id} : invites'[j] = invites[j]
      /\ invites[id] = NoInvite => invites'[id] = NoInvite
      /\ invites[id] # NoInvite => invites'[id].state = "accepted"
  <2>1. CASE invites[id] = NoInvite
    BY <1>0, <1>2, <2>1 DEF AcceptMark, TeamTypes
  <2>2. CASE invites[id] # NoInvite
    <3>1. invites' = [invites EXCEPT ![id].state = "accepted"]
      BY <1>2, <2>2 DEF AcceptMark
    <3> QED  BY <1>0, <2>2, <3>1 DEF TeamTypes
  <2> QED  BY <2>1, <2>2
<1>7. TeamTypes'  BY <1>0, <1>1, <1>3, <1>4, <1>6 DEF TeamTypes
<1>8. \A j \in Ids : /\ Present(j)' = Present(j)
                     /\ (invites'[j] = NoInvite) = (invites[j] = NoInvite)
                     /\ invites[j].state = "accepted" => invites'[j].state = "accepted"
  BY <1>0, <1>1, <1>6, InviteStates DEF Present, TeamTypes
<1>9. \A t \in Slots : /\ Inviting(t)' = Inviting(t) /\ Accepting(t)' = Accepting(t)
                       /\ Accepting(t) \/ Inviting(t) =>
                            requests'[t].locals = requests[t].locals
                       /\ t # s => requests'[t] = requests[t]
  BY <1>1, <1>2, <1>3, <1>5 DEF Inviting, Accepting
<1>10. RowsAreNumbered'
  BY <1>1, <1>8, <1>9, NumbersStay
<1>11. HeldRows'
  <2>1. \A t \in Slots : Inviting(t)' \/ Accepting(t)' => requests'[t].locals \in Ids
    BY <1>7, TeamRequestForms DEF TeamTypes, Inviting, Accepting
  <2>2. ASSUME NEW t \in Slots, NEW j \in Ids, j = requests'[t].locals
        PROVE  /\ Inviting(t)' /\ Present(j) => invites'[j] = NoInvite
               /\ Accepting(t)' /\ Present(j) =>
                    /\ invites'[j] # NoInvite
                    /\ requests'[t].at = "marked" => invites'[j].state = "accepted"
    <3>1. CASE t = s
      <4>1. j = id /\ Accepting(s) /\ ~Inviting(s)
        BY <1>1, <1>3, <1>5, <2>2, <3>1 DEF Accepting, Inviting
      <4>2. Present(id) => invites[id] # NoInvite  BY <1>0, <1>2, <4>1 DEF HeldRows
      <4> QED  BY <1>6, <1>8, <1>9, <3>1, <4>1, <4>2
    <3>2. CASE t # s
      BY <1>0, <1>8, <1>9, <2>2, <3>2 DEF HeldRows
    <3> QED  BY <3>1, <3>2
  <2> QED  BY <1>8, <2>1, <2>2 DEF HeldRows
<1>12. JoinedByOwnInvite'
  BY <1>0, <1>1, <1>8 DEF JoinedByOwnInvite
<1> QED  BY <1>7, <1>10, <1>11, <1>12 DEF TeamInv

\* The row, if it is still there, becomes an active member.
LEMMA AcceptActivateKeeps ==
  ASSUME TeamInv, NEW s \in Slots, AcceptActivate(s)
  PROVE  TeamInv'
<1>0. TeamTypes /\ RowsAreNumbered /\ HeldRows /\ JoinedByOwnInvite  BY DEF TeamInv
<1>1. /\ Accepting(s) /\ requests[s].at = "marked"
      /\ requests' = [requests EXCEPT ![s] = NoRequest] /\ UNCHANGED <<invites, inserted>>
  BY DEF AcceptActivate, Reached, Accepting, Ends
<1>2. PICK id \in Ids : id = requests[s].locals
  BY <1>0, <1>1, TeamRequestForms DEF TeamTypes, Accepting
<1>3. /\ members' \in [Ids -> [status : {"none", "invited", "active", "suspended"},
                               joined : BOOLEAN]]
      /\ \A j \in Ids : j # id \/ ~Present(id) => members'[j] = members[j]
      /\ Present(id) => members'[id] = [status |-> "active", joined |-> TRUE]
  <2>1. members' = [j \in Ids |-> IF j \in {id} /\ Present(j)
                                  THEN [status |-> "active", joined |-> TRUE]
                                  ELSE members[j]]
    BY <1>2 DEF AcceptActivate, Joins
  <2> QED  BY <1>0, <2>1 DEF TeamTypes
<1>4. \A j \in Ids : Present(j)' => Present(j)
  BY <1>3 DEF Present
<1>5. \A t \in Slots : requests'[t] = IF t = s THEN NoRequest ELSE requests[t]
  BY <1>0, <1>1 DEF TeamTypes
<1>6. TeamTypes'
  BY <1>0, <1>1, <1>3 DEF TeamTypes, TeamRequests
<1>7. \A t \in Slots : Inviting(t)' \/ Accepting(t)' =>
        /\ t # s /\ requests'[t] = requests[t]
        /\ Inviting(t)' = Inviting(t) /\ Accepting(t)' = Accepting(t)
  BY <1>5, IdleSlot DEF Inviting, Accepting
<1>8. RowsAreNumbered'  BY <1>1, <1>4, <1>7, NumbersStay
<1>9. HeldRows'
  <2>1. \A t \in Slots : Inviting(t)' \/ Accepting(t)' => requests'[t].locals \in Ids
    BY <1>6, TeamRequestForms DEF TeamTypes, Inviting, Accepting
  <2>2. ASSUME NEW t \in Slots, NEW j \in Ids, j = requests'[t].locals
        PROVE  /\ Inviting(t)' /\ Present(j)' => invites[j] = NoInvite
               /\ Accepting(t)' /\ Present(j)' =>
                    /\ invites[j] # NoInvite
                    /\ requests'[t].at = "marked" => invites[j].state = "accepted"
    BY <1>0, <1>4, <1>7, <2>2 DEF HeldRows
  <2> QED  BY <1>1, <2>1, <2>2 DEF HeldRows, Present
<1>10. JoinedByOwnInvite'
  <2>1. Present(id) => invites[id].state = "accepted"
    BY <1>0, <1>1, <1>2 DEF HeldRows
  <2> QED  BY <1>0, <1>1, <1>3, <2>1 DEF JoinedByOwnInvite
<1> QED  BY <1>6, <1>8, <1>9, <1>10 DEF TeamInv

\* The process dies between any two statements.
LEMMA TeamLostKeeps ==
  ASSUME TeamInv, AllLost, UNCHANGED teamTables
  PROVE  TeamInv'
<1> USE DEF teamTables
<1>0. TeamTypes /\ RowsAreNumbered /\ HeldRows /\ JoinedByOwnInvite  BY DEF TeamInv
<1>1. requests' = [s \in Slots |-> NoRequest]  BY DEF AllLost
<1>2. TeamTypes'  BY <1>0, <1>1 DEF TeamTypes, TeamRequests
<1>3. \A s \in Slots : ~Inviting(s)' /\ ~Accepting(s)'
  BY <1>1, IdleSlot DEF Inviting, Accepting
<1>4. RowsAreNumbered'  BY <1>0, <1>3 DEF RowsAreNumbered, Present
<1>5. HeldRows'  BY <1>3 DEF HeldRows
<1>6. JoinedByOwnInvite'  BY <1>0 DEF JoinedByOwnInvite
<1> QED  BY <1>2, <1>4, <1>5, <1>6 DEF TeamInv

\* However members are invited, patched, deleted and invited again while
\* tokens are used, old ones too (routes/team.ts): the invariant holds.
THEOREM TeamInvariance == TeamSpec => []TeamInv
<1>1. TeamInit => TeamInv
  <2> SUFFICES ASSUME TeamInit PROVE TeamInv  OBVIOUS
  <2>1. /\ \A s \in Slots : ~Inviting(s) /\ ~Accepting(s)
        /\ \A id \in Ids : /\ ~Present(id) /\ invites[id] = NoInvite
                           /\ members[id].joined = FALSE
    BY IdleSlot DEF TeamInit, Inviting, Accepting, Present, NoMember
  <2>2. TeamTypes
    <3>1. requests \in [Slots -> TeamRequests]  BY DEF TeamInit, TeamRequests
    <3> QED  BY <3>1 DEF TeamInit, TeamTypes, NoMember, NoInvite
  <2> QED  BY <2>1, <2>2 DEF TeamInv, RowsAreNumbered, HeldRows, JoinedByOwnInvite
<1>2. TeamInv /\ [TeamNext]_teamVars => TeamInv'
  <2> SUFFICES ASSUME TeamInv, [TeamNext]_teamVars PROVE TeamInv'  OBVIOUS
  <2>1. CASE TeamFault
    BY <2>1, TeamQuiet, TeamLostKeeps DEF TeamFault
  <2>2. CASE UNCHANGED teamVars
    <3>1. UNCHANGED <<requests, members, invites, inserted>>
      BY <2>2 DEF teamVars, teamTables
    <3>2. TeamTypes'  BY <3>1 DEF TeamInv, TeamTypes
    <3>3. \A s \in Slots : Inviting(s)' = Inviting(s) /\ Accepting(s)' = Accepting(s)
      BY <3>1 DEF Inviting, Accepting
    <3>4. \A id : Present(id)' = Present(id)  BY <3>1 DEF Present
    <3>5. RowsAreNumbered' /\ HeldRows'
      BY <3>1, <3>3, <3>4 DEF TeamInv, RowsAreNumbered, HeldRows
    <3>6. JoinedByOwnInvite'  BY <3>1 DEF TeamInv, JoinedByOwnInvite
    <3> QED  BY <3>2, <3>5, <3>6 DEF TeamInv
  <2>3. ASSUME NEW s \in Slots,
               \/ \E e \in Emails : InviteSelect(s, e)
               \/ \E id \in Ids : AcceptSelect(s, id)
        PROVE  TeamInv'
    BY <2>3, TeamQuiet
  <2> QED
    BY <2>1, <2>2, <2>3, InsertMemberKeeps, InsertInviteKeeps, MemberKeeps, AcceptMarkKeeps,
       AcceptActivateKeeps DEF TeamNext
<1> QED  BY <1>1, <1>2, PTL DEF TeamSpec

\* Nobody joins but by the invite of the row it joins through
\* (team.ts:116-121).
THEOREM OnlyOwnInviteJoins == TeamSpec => []JoinedByOwnInvite
<1>1. TeamInv => JoinedByOwnInvite  BY DEF TeamInv
<1> QED  BY <1>1, TeamInvariance, PTL

----------------------------------------------------------------------------
(* Deliveries.                                                             *)

\* The forms of a request in progress.
LEMMA RetryRequestForms ==
  ASSUME NEW r \in RetryRequests
  PROVE  /\ r # NoRequest <=> r.op \in {"test", "retry"}
         /\ r.op = "retry" => /\ r.at \in {"begun", "deliver", "update"}
                              /\ r.who \in Deliverable /\ r.locals.attempts \in Nat
         /\ r.op = "retry" /\ r.at = "begun" => r.locals \in [attempts : Nat]
         /\ r.op = "retry" /\ r.at = "update" =>
              r.locals \in [attempts : Nat, result : Results]
  BY DEF RetryRequests, NoRequest

\* A delivery has an outcome that its row can show.
LEMMA Outcomes ==
  \A r \in Results : r.status \in {"none", "2xx", "5xx"} /\ r.error \in {"none", "timeout"}
  BY DEF Results

\* A request moves on and the rows stay.
LEMMA RetryMoves ==
  ASSUME DeliveriesInv, NEW s \in Slots, NEW new \in RetryRequests,
         requests' = [requests EXCEPT ![s] = new],
         UNCHANGED <<log, sends, outcomes, retried>>,
         new.op = "retry" => /\ new.at # "update" /\ Logged(new.who)
                             /\ new.locals.attempts >= 1
                             /\ new.locals.attempts <= sends[new.who]
  PROVE  DeliveriesInv'
<1>0. DeliveryTypes /\ RetriesCopyTheRow /\ LogNeverBoasts  BY DEF DeliveriesInv
<1>1. \A t \in Slots : requests'[t] = IF t = s THEN new ELSE requests[t]
  BY <1>0 DEF DeliveryTypes
<1>2. DeliveryTypes'  BY <1>0 DEF DeliveryTypes
<1>3. \A n : Logged(n)' = Logged(n)  BY DEF Logged
<1>4. RetriesCopyTheRow'
  <2>1. ASSUME NEW t \in Slots, requests'[t].op = "retry"
        PROVE  LET n == requests'[t].who
                   mine == requests'[t].locals
               IN
               /\ Logged(n) /\ mine.attempts >= 1
               /\ mine.attempts + (IF requests'[t].at = "update" THEN 1 ELSE 0) <= sends[n]
               /\ requests'[t].at = "update" => mine.result \in outcomes[n]
    <3>1. CASE t = s
      <4>1. requests'[t] = new /\ new.op = "retry"  BY <1>1, <2>1, <3>1
      <4>2. new.locals.attempts \in Nat  BY <4>1, RetryRequestForms
      <4>3. new.locals.attempts + 0 <= sends[new.who]  BY <4>1, <4>2
      <4> QED  BY <4>1, <4>3
    <3>2. CASE t # s
      <4>1. requests'[t] = requests[t]  BY <1>1, <3>2
      <4> QED  BY <1>0, <2>1, <4>1 DEF RetriesCopyTheRow
    <3> QED  BY <3>1, <3>2
  <2>2. \A n \in Deliverable : retried'[n] => Logged(n)'
    BY <1>0, <1>3 DEF RetriesCopyTheRow
  <2> QED  BY <2>1, <2>2, <1>3 DEF RetriesCopyTheRow, Logged
<1>5. LogNeverBoasts'  BY <1>0, <1>3 DEF LogNeverBoasts
<1> QED  BY <1>2, <1>4, <1>5 DEF DeliveriesInv

\* The first send of a row, by the worker or by a test delivery.
LEMMA RecordKeeps ==
  ASSUME DeliveriesInv, NEW n \in Deliverable, NEW result \in Results,
         RecordDelivery(n, result),
         \/ UNCHANGED requests
         \/ \E s \in Slots : Ends(s)
  PROVE  DeliveriesInv'
<1>0. DeliveryTypes /\ RetriesCopyTheRow /\ LogNeverBoasts  BY DEF DeliveriesInv
<1>1. /\ ~Logged(n) /\ UNCHANGED retried
      /\ log' = [log EXCEPT ![n] = [status |-> result.status, error |-> result.error,
                                    attempts |-> 1]]
      /\ sends' = [sends EXCEPT ![n] = 1] /\ outcomes' = [outcomes EXCEPT ![n] = {result}]
  BY DEF RecordDelivery
<1>2. /\ log' \in [Deliverable -> [status : {"none", "2xx", "5xx"}, error : {"none", "timeout"},
                                   attempts : Nat]]
      /\ log'[n].status = result.status /\ log'[n].error = result.error
      /\ log'[n].attempts = 1
      /\ \A k \in Deliverable \ {n} : log'[k] = log[k]
  BY <1>0, <1>1, Outcomes DEF DeliveryTypes
<1>3. /\ sends' \in [Deliverable -> Nat] /\ sends'[n] = 1
      /\ outcomes' \in [Deliverable -> SUBSET Results] /\ outcomes'[n] = {result}
      /\ \A k \in Deliverable \ {n} : sends'[k] = sends[k] /\ outcomes'[k] = outcomes[k]
  BY <1>0, <1>1 DEF DeliveryTypes
<1>4. /\ requests' \in [Slots -> RetryRequests]
      /\ \A t \in Slots : requests'[t] = requests[t] \/ requests'[t] = NoRequest
  BY <1>0 DEF DeliveryTypes, Ends, RetryRequests
<1>5. DeliveryTypes'  BY <1>0, <1>1, <1>2, <1>3, <1>4 DEF DeliveryTypes
<1>6. Logged(n)' /\ \A k \in Deliverable \ {n} : Logged(k)' = Logged(k)
  BY <1>2 DEF Logged, NoDelivery
<1>7. RetriesCopyTheRow'
  <2>1. ASSUME NEW t \in Slots, requests'[t].op = "retry"
        PROVE  LET k == requests'[t].who
                   mine == requests'[t].locals
               IN
               /\ log'[k] # NoDelivery /\ mine.attempts >= 1
               /\ mine.attempts + (IF requests'[t].at = "update" THEN 1 ELSE 0) <= sends'[k]
               /\ requests'[t].at = "update" => mine.result \in outcomes'[k]
    <3>1. requests'[t] = requests[t] /\ requests[t].op = "retry"
      BY <1>4, <2>1, IdleSlot
    <3>2. PICK k \in Deliverable : k = requests[t].who
      BY <1>0, <3>1, RetryRequestForms DEF DeliveryTypes
    <3>3. Logged(k) /\ k # n  BY <1>0, <1>1, <3>1, <3>2 DEF RetriesCopyTheRow
    <3>4. /\ requests[t].locals.attempts >= 1
          /\ requests[t].locals.attempts + (IF requests[t].at = "update" THEN 1 ELSE 0)
               <= sends[k]
          /\ requests[t].at = "update" => requests[t].locals.result \in outcomes[k]
      BY <1>0, <3>1, <3>2 DEF RetriesCopyTheRow
    <3>5. /\ sends'[k] = sends[k] /\ outcomes'[k] = outcomes[k]
          /\ log'[k] # NoDelivery
      BY <1>2, <1>3, <3>3 DEF Logged
    <3> QED  BY <3>1, <3>2, <3>4, <3>5
  <2>2. \A k \in Deliverable : retried'[k] => log'[k] # NoDelivery
    BY <1>0, <1>1, <1>6 DEF RetriesCopyTheRow, Logged
  <2> QED  BY <2>1, <2>2 DEF RetriesCopyTheRow, Logged
<1>8. LogNeverBoasts'
  <2>1. ~retried[n]  BY <1>0, <1>1 DEF RetriesCopyTheRow
  <2>2. \A k \in Deliverable \ {n} : Logged(k)' =>
          /\ log'[k].attempts <= sends'[k]
          /\ log'[k].attempts >= IF retried'[k] THEN 2 ELSE 1
          /\ log'[k].status \in {"none"} \cup {r.status : r \in outcomes'[k]}
          /\ log'[k].error \in {"none"} \cup {r.error : r \in outcomes'[k]}
    BY <1>0, <1>1, <1>2, <1>3, <1>6 DEF LogNeverBoasts
  <2>3. /\ log'[n].attempts <= sends'[n]
        /\ log'[n].attempts >= IF retried'[n] THEN 2 ELSE 1
        /\ log'[n].status \in {"none"} \cup {r.status : r \in outcomes'[n]}
        /\ log'[n].error \in {"none"} \cup {r.error : r \in outcomes'[n]}
    BY <1>1, <1>2, <1>3, <2>1
  <2> QED  BY <2>2, <2>3 DEF LogNeverBoasts
<1> QED  BY <1>5, <1>7, <1>8 DEF DeliveriesInv

\* A retry that begins, or finds the secret, or does not.
LEMMA RetryQuiet ==
  ASSUME DeliveriesInv, NEW s \in Slots,
         \/ \E n \in Deliverable : RetrySelect(s, n)
         \/ RetrySecret(s)
         \/ TestSelect(s)
         \/ Ends(s) /\ UNCHANGED <<log, sends, outcomes, retried>>
  PROVE  DeliveriesInv'
<1>0. DeliveryTypes /\ RetriesCopyTheRow /\ LogNeverBoasts  BY DEF DeliveriesInv
<1>1. CASE \E n \in Deliverable : RetrySelect(s, n)
  <2>1. PICK n \in Deliverable : RetrySelect(s, n)  BY <1>1
  <2>2. PICK attempts \in Nat : /\ attempts = log[n].attempts /\ attempts >= 1
                                /\ attempts <= sends[n] /\ Logged(n)
    BY <1>0, <2>1 DEF DeliveryTypes, LogNeverBoasts, RetrySelect
  <2> DEFINE new == [op |-> "retry", at |-> "begun", who |-> n,
                     locals |-> [attempts |-> attempts]]
  <2>3. /\ new \in RetryRequests /\ new.op = "retry" /\ new.at = "begun" /\ new.who = n
        /\ new.locals.attempts = attempts
    BY DEF RetryRequests
  <2>4. requests' = [requests EXCEPT ![s] = new] /\ UNCHANGED <<log, sends, outcomes, retried>>
    BY <2>1, <2>2 DEF RetrySelect, Begins
  <2> HIDE DEF new
  <2> QED  BY <2>2, <2>3, <2>4, RetryMoves
<1>2. CASE Ends(s) /\ UNCHANGED <<log, sends, outcomes, retried>>
  <2>1. NoRequest \in RetryRequests  BY DEF RetryRequests
  <2> QED  BY <1>2, <2>1, IdleSlot, RetryMoves DEF Ends
<1>3. CASE RetrySecret(s)
  <2>1. CASE ~hasSecret  BY <1>2, <1>3, <2>1 DEF RetrySecret
  <2>2. CASE hasSecret
    <3>1. /\ requests[s] \in RetryRequests /\ requests[s].op = "retry"
          /\ requests[s].at = "begun"
      BY <1>0, <1>3 DEF RetrySecret, Reached, DeliveryTypes
    <3>2. requests[s].who \in Deliverable /\ requests[s].locals \in [attempts : Nat]
      BY <3>1, RetryRequestForms
    <3>3. PICK n \in Deliverable, l \in [attempts : Nat] :
            n = requests[s].who /\ l = requests[s].locals
      BY <3>2
    <3> DEFINE new == [op |-> "retry", at |-> "deliver", who |-> n, locals |-> l]
    <3>4. /\ new \in RetryRequests /\ new.op = "retry" /\ new.at = "deliver"
          /\ new.who = n /\ new.locals = l
      BY DEF RetryRequests
    <3>5. requests' = [requests EXCEPT ![s] = new]
      BY <1>0, <1>3, <2>2, <3>1, <3>3 DEF RetrySecret, Continues, DeliveryTypes
    <3>6. Logged(n) /\ l.attempts >= 1 /\ l.attempts <= sends[n]
      <4>1. Logged(n) /\ l.attempts >= 1 /\ l.attempts + 0 <= sends[n]
        BY <1>0, <3>1, <3>3 DEF RetriesCopyTheRow
      <4>2. l.attempts \in Nat  OBVIOUS
      <4> QED  BY <4>1, <4>2
    <3> HIDE DEF new
    <3> QED  BY <1>3, <3>4, <3>5, <3>6, RetryMoves DEF RetrySecret
  <2> QED  BY <2>1, <2>2
<1>4. CASE TestSelect(s)
  <2> DEFINE new == [op |-> "test", at |-> "begun", who |-> 0, locals |-> << >>]
  <2>1. new \in RetryRequests /\ new.op = "test"  BY DEF RetryRequests
  <2>2. requests' = [requests EXCEPT ![s] = new] /\ UNCHANGED <<log, sends, outcomes, retried>>
    BY <1>4 DEF TestSelect, Begins
  <2> HIDE DEF new
  <2> QED  BY <2>1, <2>2, RetryMoves
<1> QED  BY <1>1, <1>2, <1>3, <1>4

\* A retry is sent: one more send of its row, with the outcome it now holds.
LEMMA RetryDeliverKeeps ==
  ASSUME DeliveriesInv, NEW s \in Slots, RetryDeliver(s)
  PROVE  DeliveriesInv'
<1>0. DeliveryTypes /\ RetriesCopyTheRow /\ LogNeverBoasts  BY DEF DeliveriesInv
<1>1. /\ requests[s] \in RetryRequests /\ requests[s].op = "retry"
      /\ requests[s].at = "deliver" /\ UNCHANGED <<log, retried>>
  BY <1>0 DEF RetryDeliver, Reached, DeliveryTypes
<1>2. PICK n \in Deliverable, attempts \in Nat :
        n = requests[s].who /\ attempts = requests[s].locals.attempts
  BY <1>1, RetryRequestForms
<1>3. PICK result \in Results :
        /\ sends' = [sends EXCEPT ![n] = @ + 1]
        /\ outcomes' = [outcomes EXCEPT ![n] = @ \cup {result}]
        /\ Continues(s, "update", [attempts |-> attempts, result |-> result])
  BY <1>2 DEF RetryDeliver
<1> DEFINE new == [op |-> "retry", at |-> "update", who |-> n,
                   locals |-> [attempts |-> attempts, result |-> result]]
<1>4. /\ new \in RetryRequests /\ new.op = "retry" /\ new.at = "update" /\ new.who = n
      /\ new.locals.attempts = attempts /\ new.locals.result = result
  BY DEF RetryRequests
<1>5. requests' = [requests EXCEPT ![s] = new]
  BY <1>0, <1>1, <1>2, <1>3 DEF Continues, DeliveryTypes
<1> HIDE DEF new
<1>6. \A t \in Slots : requests'[t] = IF t = s THEN new ELSE requests[t]
  BY <1>0, <1>5 DEF DeliveryTypes
<1>7. /\ sends' \in [Deliverable -> Nat] /\ sends'[n] = sends[n] + 1
      /\ outcomes' \in [Deliverable -> SUBSET Results] /\ result \in outcomes'[n]
      /\ \A k \in Deliverable : /\ sends[k] <= sends'[k] /\ sends[k] \in Nat
                                /\ sends'[k] \in Nat /\ outcomes[k] \subseteq outcomes'[k]
  BY <1>0, <1>3 DEF DeliveryTypes
<1>8. DeliveryTypes'  BY <1>0, <1>1, <1>4, <1>5, <1>7 DEF DeliveryTypes
<1>9. \A k : Logged(k)' = Logged(k)  BY <1>1 DEF Logged
<1>10. /\ Logged(n) /\ attempts >= 1 /\ attempts <= sends[n]
  <2>1. Logged(n) /\ attempts >= 1 /\ attempts + 0 <= sends[n]
    BY <1>0, <1>1, <1>2 DEF RetriesCopyTheRow
  <2> QED  BY <2>1
<1>11. RetriesCopyTheRow'
  <2>1. ASSUME NEW t \in Slots, requests'[t].op = "retry"
        PROVE  LET k == requests'[t].who
                   mine == requests'[t].locals
               IN
               /\ log'[k] # NoDelivery /\ mine.attempts >= 1
               /\ mine.attempts + (IF requests'[t].at = "update" THEN 1 ELSE 0) <= sends'[k]
               /\ requests'[t].at = "update" => mine.result \in outcomes'[k]
    <3>1. CASE t = s
      <4>1. requests'[t] = new  BY <1>6, <3>1
      <4>2. attempts + 1 <= sends'[n]  BY <1>7, <1>10
      <4>3. log'[n] # NoDelivery  BY <1>1, <1>10 DEF Logged
      <4> QED  BY <1>4, <1>7, <1>10, <4>1, <4>2, <4>3
    <3>2. CASE t # s
      <4>1. requests'[t] = requests[t] /\ requests[t].op = "retry"
            /\ requests[t] \in RetryRequests
        BY <1>0, <1>6, <2>1, <3>2 DEF DeliveryTypes
      <4>2. PICK k \in Deliverable, a \in Nat :
              k = requests[t].who /\ a = requests[t].locals.attempts
        BY <4>1, RetryRequestForms
      <4>3. /\ Logged(k) /\ a >= 1
            /\ a + (IF requests[t].at = "update" THEN 1 ELSE 0) <= sends[k]
            /\ requests[t].at = "update" => requests[t].locals.result \in outcomes[k]
        BY <1>0, <4>1, <4>2 DEF RetriesCopyTheRow
      <4>4. /\ a + (IF requests[t].at = "update" THEN 1 ELSE 0) <= sends'[k]
            /\ log'[k] # NoDelivery /\ outcomes[k] \subseteq outcomes'[k]
        BY <1>1, <1>7, <4>3 DEF Logged
      <4> QED  BY <4>1, <4>2, <4>3, <4>4
    <3> QED  BY <3>1, <3>2
  <2>2. \A k \in Deliverable : retried'[k] => log'[k] # NoDelivery
    BY <1>0, <1>1, <1>9 DEF RetriesCopyTheRow, Logged
  <2> QED  BY <2>1, <2>2 DEF RetriesCopyTheRow, Logged
<1>12. LogNeverBoasts'
  <2>1. ASSUME NEW k \in Deliverable, Logged(k)
        PROVE  /\ log[k].attempts <= sends'[k]
               /\ log[k].attempts >= IF retried[k] THEN 2 ELSE 1
               /\ log[k].status \in {"none"} \cup {r.status : r \in outcomes'[k]}
               /\ log[k].error \in {"none"} \cup {r.error : r \in outcomes'[k]}
    <3>1. /\ log[k].attempts <= sends[k]
          /\ log[k].attempts >= IF retried[k] THEN 2 ELSE 1
          /\ log[k].status \in {"none"} \cup {r.status : r \in outcomes[k]}
          /\ log[k].error \in {"none"} \cup {r.error : r \in outcomes[k]}
      BY <1>0, <2>1 DEF LogNeverBoasts
    <3>2. log[k].attempts \in Nat  BY <1>0 DEF DeliveryTypes
    <3> QED  BY <1>7, <3>1, <3>2
  <2> QED  BY <1>1, <1>9, <2>1 DEF LogNeverBoasts
<1> QED  BY <1>8, <1>11, <1>12 DEF DeliveriesInv

\* A retry writes its copy back, and one send more.
LEMMA RetryUpdateKeeps ==
  ASSUME DeliveriesInv, NEW s \in Slots, RetryUpdate(s)
  PROVE  DeliveriesInv'
<1>0. DeliveryTypes /\ RetriesCopyTheRow /\ LogNeverBoasts  BY DEF DeliveriesInv
<1>1. /\ requests[s] \in RetryRequests /\ requests[s].op = "retry"
      /\ requests[s].at = "update" /\ UNCHANGED <<sends, outcomes>>
      /\ requests' = [requests EXCEPT ![s] = NoRequest]
  BY <1>0 DEF RetryUpdate, Reached, DeliveryTypes, Ends
<1>2. PICK n \in Deliverable, attempts \in Nat, result \in Results :
        /\ n = requests[s].who /\ attempts = requests[s].locals.attempts
        /\ result = requests[s].locals.result
  BY <1>1, RetryRequestForms
<1>3. /\ Logged(n) /\ attempts >= 1 /\ attempts + 1 <= sends[n] /\ result \in outcomes[n]
  BY <1>0, <1>1, <1>2 DEF RetriesCopyTheRow
<1>4. /\ log' = [log EXCEPT ![n] = [status |-> Written(@.status, result.status),
                                    error |-> Written(@.error, result.error),
                                    attempts |-> attempts + 1]]
      /\ retried' = [retried EXCEPT ![n] = TRUE]
  BY <1>2 DEF RetryUpdate
<1>5. /\ Written(log[n].status, result.status) \in {"none", "2xx", "5xx"}
      /\ Written(log[n].error, result.error) \in {"none", "timeout"}
      /\ Written(log[n].status, result.status) \in {log[n].status, result.status}
      /\ Written(log[n].error, result.error) \in {log[n].error, result.error}
  BY <1>0, Outcomes DEF Written, DeliveryTypes
<1>6. /\ log' \in [Deliverable -> [status : {"none", "2xx", "5xx"}, error : {"none", "timeout"},
                                   attempts : Nat]]
      /\ log'[n].status = Written(log[n].status, result.status)
      /\ log'[n].error = Written(log[n].error, result.error)
      /\ log'[n].attempts = attempts + 1
      /\ \A k \in Deliverable \ {n} : log'[k] = log[k]
  BY <1>0, <1>4, <1>5 DEF DeliveryTypes
<1>7. /\ retried' \in [Deliverable -> BOOLEAN] /\ retried'[n] = TRUE
      /\ \A k \in Deliverable \ {n} : retried'[k] = retried[k]
  BY <1>0, <1>4 DEF DeliveryTypes
<1>8. /\ requests' \in [Slots -> RetryRequests]
      /\ \A t \in Slots : requests'[t] = IF t = s THEN NoRequest ELSE requests[t]
  BY <1>0, <1>1 DEF DeliveryTypes, RetryRequests
<1>9. DeliveryTypes'  BY <1>0, <1>1, <1>6, <1>7, <1>8 DEF DeliveryTypes
<1>10. \A k \in Deliverable : Logged(k) => log'[k] # NoDelivery
  <2>1. NoDelivery.attempts = 0  BY DEF NoDelivery
  <2>2. log'[n] # NoDelivery  BY <1>6, <2>1
  <2> QED  BY <1>6, <2>2 DEF Logged
<1>11. RetriesCopyTheRow'
  <2>1. ASSUME NEW t \in Slots, requests'[t].op = "retry"
        PROVE  LET k == requests'[t].who
                   mine == requests'[t].locals
               IN
               /\ log'[k] # NoDelivery /\ mine.attempts >= 1
               /\ mine.attempts + (IF requests'[t].at = "update" THEN 1 ELSE 0) <= sends'[k]
               /\ requests'[t].at = "update" => mine.result \in outcomes'[k]
    <3>1. requests'[t] = requests[t] /\ requests[t].op = "retry"
          /\ requests[t] \in RetryRequests
      BY <1>0, <1>8, <2>1, IdleSlot DEF DeliveryTypes
    <3>2. requests[t].who \in Deliverable  BY <3>1, RetryRequestForms
    <3> QED  BY <1>0, <1>1, <1>10, <3>1, <3>2 DEF RetriesCopyTheRow
  <2>2. \A k \in Deliverable : retried'[k] => log'[k] # NoDelivery
    BY <1>0, <1>3, <1>7, <1>10 DEF RetriesCopyTheRow
  <2> QED  BY <2>1, <2>2 DEF RetriesCopyTheRow, Logged
<1>12. LogNeverBoasts'
  <2>1. \A k \in Deliverable \ {n} : log'[k] # NoDelivery =>
          /\ log'[k].attempts <= sends'[k]
          /\ log'[k].attempts >= IF retried'[k] THEN 2 ELSE 1
          /\ log'[k].status \in {"none"} \cup {r.status : r \in outcomes'[k]}
          /\ log'[k].error \in {"none"} \cup {r.error : r \in outcomes'[k]}
    BY <1>0, <1>1, <1>6, <1>7 DEF LogNeverBoasts, Logged
  <2>2. /\ log'[n].attempts <= sends'[n]
        /\ log'[n].attempts >= IF retried'[n] THEN 2 ELSE 1
    BY <1>1, <1>3, <1>6, <1>7
  <2>3. /\ log[n].status \in {"none"} \cup {r.status : r \in outcomes[n]}
        /\ log[n].error \in {"none"} \cup {r.error : r \in outcomes[n]}
    BY <1>0, <1>3 DEF LogNeverBoasts
  <2>4. /\ log'[n].status \in {"none"} \cup {r.status : r \in outcomes'[n]}
        /\ log'[n].error \in {"none"} \cup {r.error : r \in outcomes'[n]}
    BY <1>1, <1>3, <1>5, <1>6, <2>3
  <2> QED  BY <2>1, <2>2, <2>4 DEF LogNeverBoasts, Logged
<1> QED  BY <1>9, <1>11, <1>12 DEF DeliveriesInv

\* Retries that race with each other, with test deliveries and the worker, and
\* secrets that are changed meanwhile (webhook-deliveries.ts:58-104).
THEOREM DeliveriesInvariance == DeliveriesSpec => []DeliveriesInv
<1>1. DeliveriesInit => DeliveriesInv
  <2> SUFFICES ASSUME DeliveriesInit PROVE DeliveriesInv  OBVIOUS
  <2>1. DeliveryTypes
    BY DEF DeliveriesInit, DeliveryTypes, RetryRequests, NoDelivery
  <2>2. RetriesCopyTheRow  BY IdleSlot DEF DeliveriesInit, RetriesCopyTheRow
  <2>3. LogNeverBoasts  BY DEF DeliveriesInit, LogNeverBoasts, Logged
  <2> QED  BY <2>1, <2>2, <2>3 DEF DeliveriesInv
<1>2. DeliveriesInv /\ [DeliveriesNext]_deliveryVars => DeliveriesInv'
  <2> SUFFICES ASSUME DeliveriesInv, [DeliveriesNext]_deliveryVars PROVE DeliveriesInv'
    OBVIOUS
  <2>1. ASSUME UNCHANGED <<requests, log, sends, outcomes, retried>>
        PROVE  DeliveriesInv'
    <3>1. DeliveryTypes'  BY <2>1 DEF DeliveriesInv, DeliveryTypes
    <3>2. RetriesCopyTheRow'  BY <2>1 DEF DeliveriesInv, RetriesCopyTheRow, Logged
    <3>3. LogNeverBoasts'  BY <2>1 DEF DeliveriesInv, LogNeverBoasts, Logged
    <3> QED  BY <3>1, <3>2, <3>3 DEF DeliveriesInv
  <2>2. CASE UNCHANGED deliveryVars \/ ChangeSecret
    BY <2>1, <2>2 DEF deliveryVars, ChangeSecret
  <2>3. ASSUME NEW n \in Deliverable, WorkerRecords(n)
        PROVE  DeliveriesInv'
    BY <2>3, RecordKeeps DEF WorkerRecords
  <2>4. ASSUME NEW s \in Slots, NEW n \in Deliverable, TestRecord(s, n)
        PROVE  DeliveriesInv'
    BY <2>4, RecordKeeps DEF TestRecord
  <2>5. CASE DeliveriesFault
    <3>1. ASSUME NEW s \in Slots, Ends(s)
          PROVE  DeliveriesInv'
      BY <2>5, <3>1, RetryQuiet DEF DeliveriesFault
    <3>2. CASE AllLost
      <4>1. /\ \A s \in Slots : requests'[s] = NoRequest
            /\ requests' \in [Slots -> RetryRequests]
            /\ UNCHANGED <<log, sends, outcomes, retried>>
        BY <2>5, <3>2 DEF AllLost, DeliveriesFault, RetryRequests
      <4>2. DeliveryTypes'  BY <4>1 DEF DeliveriesInv, DeliveryTypes
      <4>3. RetriesCopyTheRow'
        BY <4>1, IdleSlot DEF DeliveriesInv, RetriesCopyTheRow, Logged
      <4>4. LogNeverBoasts'  BY <4>1 DEF DeliveriesInv, LogNeverBoasts, Logged
      <4> QED  BY <4>2, <4>3, <4>4 DEF DeliveriesInv
    <3> QED  BY <2>5, <3>1, <3>2 DEF DeliveriesFault
  <2> QED
    BY <2>2, <2>3, <2>4, <2>5, RetryQuiet, RetryDeliverKeeps, RetryUpdateKeeps
       DEF DeliveriesNext
<1> QED  BY <1>1, <1>2, PTL DEF DeliveriesSpec

\* The log never claims a send that was not made, nor an outcome that none had
\* (webhook-deliveries.ts:83).
THEOREM LogClaimsOnlySends == DeliveriesSpec => []LogNeverBoasts
<1>1. DeliveriesInv => LogNeverBoasts  BY DEF DeliveriesInv
<1> QED  BY <1>1, DeliveriesInvariance, PTL

----------------------------------------------------------------------------
(* Reviews.                                                                *)

\* The forms of a request in progress.
LEMMA TicketRequestForms ==
  ASSUME NEW r \in TicketRequests
  PROVE  /\ r # NoRequest <=> r.op \in FormNames
         /\ r # NoRequest => /\ r.locals.ticket \in Nat
                             /\ r.locals.analysis \in Analyses \cup {NoAnalysis}
                             /\ r.locals.verdict \in Verdicts /\ r.who = "none"
                             /\ r.locals \in [ticket : Nat, verdict : Verdicts,
                                              analysis : Analyses \cup {NoAnalysis}]
         /\ r.op = "appeal" => /\ r.at \in {"begun", "audit", "notify"}
                               /\ r.locals.verdict = "false_positive"
                               /\ r.locals.analysis \in Analyses
                               /\ r.locals \in [ticket : Nat, analysis : Analyses,
                                                verdict : {"false_positive"}]
         /\ r.op = "feedback" => r.at \in {"begun", "audit"}
  BY DEF TicketRequests, NoRequest, Verdicts, FormNames

\* The types, where no request and no ticket is new, nor a score.
LEMMA FormTypes ==
  ReviewTypes => forms \in [FormNames -> Forms] /\ DOMAIN forms = FormNames
  BY DEF ReviewTypes, FormNames, Forms

\* Nothing is taken out of the tables, and the rows of the forms that say so
\* are there.
LEMMA RecordedStays ==
  ASSUME AppealConfirmed, DOMAIN forms' = DOMAIN forms,
         feedback \subseteq feedback', audit \subseteq audit',
         \A n \in notifications : \E m \in notifications' : m.ticket = n.ticket,
         \A f \in DOMAIN forms : forms'[f].says = "recorded" =>
           forms[f].says = "recorded" /\ forms'[f].ticket = forms[f].ticket
  PROVE  AppealConfirmed'
<1>1. ASSUME NEW f \in DOMAIN forms, forms'[f].says = "recorded"
      PROVE  /\ \E row \in feedback' : row.ticket = forms'[f].ticket
             /\ \E row \in audit' : row.ticket = forms'[f].ticket
             /\ f = "appeal" => \E row \in notifications' : row.ticket = forms'[f].ticket
  <2>1. /\ \E row \in feedback : row.ticket = forms'[f].ticket
        /\ \E row \in audit : row.ticket = forms'[f].ticket
        /\ f = "appeal" => \E row \in notifications : row.ticket = forms'[f].ticket
    BY <1>1 DEF AppealConfirmed
  <2> QED  BY <2>1
<1> QED  BY <1>1 DEF AppealConfirmed

\* One story stays one when the audit log and the notifications do.
LEMMA StoryStays ==
  ASSUME OneStory, feedback \subseteq feedback', audit' = audit,
         \A m \in notifications' : \E n \in notifications :
           m.ticket = n.ticket /\ m.customer = n.customer
  PROVE  OneStory'
  BY DEF OneStory

\* A request moves on or ends, the rows behind it written.
LEMMA RequestsBehind ==
  ASSUME ReviewsInv, NEW s \in Slots, NEW new \in TicketRequests,
         requests' = [requests EXCEPT ![s] = new],
         feedback \subseteq feedback', audit \subseteq audit',
         new.at \in {"audit", "notify"} =>
           \E f \in feedback' : /\ f.ticket = new.locals.ticket
                                /\ f.analysis = new.locals.analysis
                                /\ f.verdict = new.locals.verdict,
         new.at = "notify" =>
           \E e \in audit' : /\ e.ticket = new.locals.ticket
                             /\ e.analysis = new.locals.analysis /\ e.event = "appealed"
  PROVE  RowsBehind'
<1>1. ReviewTypes /\ RowsBehind  BY DEF ReviewsInv
<1>2. \A t \in Slots : requests'[t] = IF t = s THEN new ELSE requests[t]
  BY <1>1 DEF ReviewTypes
<1>3. ASSUME NEW t \in Slots
      PROVE  /\ requests'[t].at \in {"audit", "notify"} =>
                  \E f \in feedback' : /\ f.ticket = requests'[t].locals.ticket
                                       /\ f.analysis = requests'[t].locals.analysis
                                       /\ f.verdict = requests'[t].locals.verdict
             /\ requests'[t].at = "notify" =>
                  \E e \in audit' : /\ e.ticket = requests'[t].locals.ticket
                                    /\ e.analysis = requests'[t].locals.analysis
                                    /\ e.event = "appealed"
  <2>1. CASE t = s
    <3>1. requests'[t] = new  BY <1>2, <2>1
    <3> QED  BY <3>1
  <2>2. CASE t # s
    <3>1. requests'[t] = requests[t]  BY <1>2, <2>2
    <3>2. /\ requests[t].at \in {"audit", "notify"} =>
               \E f \in feedback : /\ f.ticket = requests[t].locals.ticket
                                   /\ f.analysis = requests[t].locals.analysis
                                   /\ f.verdict = requests[t].locals.verdict
          /\ requests[t].at = "notify" =>
               \E e \in audit : /\ e.ticket = requests[t].locals.ticket
                                /\ e.analysis = requests[t].locals.analysis
                                /\ e.event = "appealed"
      BY <1>1 DEF RowsBehind
    <3> QED  BY <3>1, <3>2
  <2> QED  BY <2>1, <2>2
<1> QED  BY <1>3 DEF RowsBehind

\* Tickets keep their numbers while a request moves on or ends.
LEMMA NumbersKept ==
  ASSUME ReviewsInv, NEW s \in Slots, NEW new \in TicketRequests,
         requests' = [requests EXCEPT ![s] = new],
         new # NoRequest => /\ requests[s] # NoRequest /\ new.op = requests[s].op
                            /\ new.locals.ticket = requests[s].locals.ticket,
         UNCHANGED tickets, DOMAIN forms' = DOMAIN forms,
         \A f \in DOMAIN forms :
           /\ forms'[f].ticket = forms[f].ticket
           /\ forms'[f].busy => forms[f].busy /\ forms'[f].says = forms[f].says
  PROVE  TicketsAreNumbered'
<1>1. ReviewTypes /\ TicketsAreNumbered  BY DEF ReviewsInv
<1>2. \A t \in Slots : requests'[t] = IF t = s THEN new ELSE requests[t]
  BY <1>1 DEF ReviewTypes
<1>3. \A t \in Slots : requests'[t] # NoRequest =>
        /\ requests[t] # NoRequest /\ requests'[t].op = requests[t].op
        /\ requests'[t].locals.ticket = requests[t].locals.ticket
  BY <1>2
<1> QED  BY <1>1, <1>3 DEF TicketsAreNumbered

\* The reply confirms the form that waits for this ticket, and no other.
LEMMA ConfirmsForms ==
  ASSUME ReviewTypes, NEW ticket, Confirms(ticket)
  PROVE  /\ forms' \in [FormNames -> Forms] /\ DOMAIN forms' = DOMAIN forms
         /\ \A f \in DOMAIN forms :
              /\ forms'[f].ticket = forms[f].ticket
              /\ forms'[f].busy => forms[f].busy /\ forms'[f].says = forms[f].says
              /\ forms'[f].says = "recorded" =>
                   forms[f].says = "recorded" \/ forms[f].ticket = ticket
<1>1. forms \in [FormNames -> Forms] /\ DOMAIN forms = FormNames  BY FormTypes
<1>2. forms' = [f \in FormNames |->
                  IF forms[f].ticket = ticket
                    THEN [forms[f] EXCEPT !.busy = FALSE, !.says = "recorded"] ELSE forms[f]]
  BY <1>1 DEF Confirms
<1>3. DOMAIN forms' = FormNames  BY <1>2
<1>4. ASSUME NEW f \in FormNames
      PROVE  /\ forms'[f] \in Forms
             /\ forms'[f].ticket = forms[f].ticket
             /\ forms'[f].busy => forms[f].busy /\ forms'[f].says = forms[f].says
             /\ forms'[f].says = "recorded" =>
                  forms[f].says = "recorded" \/ forms[f].ticket = ticket
  <2>1. PICK g \in Forms : g = forms[f]  BY <1>1
  <2>2. CASE g.ticket = ticket
    <3> DEFINE h == [g EXCEPT !.busy = FALSE, !.says = "recorded"]
    <3>1. forms'[f] = h  BY <1>2, <2>1, <2>2
    <3>2. h \in Forms /\ h.ticket = g.ticket /\ h.busy = FALSE  BY DEF Forms
    <3> HIDE DEF h
    <3> QED  BY <2>1, <2>2, <3>1, <3>2
  <2>3. CASE g.ticket # ticket  BY <1>2, <2>1, <2>3
  <2> QED  BY <2>2, <2>3
<1>5. forms' \in [FormNames -> Forms]  BY <1>2, <1>4
<1> QED  BY <1>1, <1>3, <1>4, <1>5

\* What a confirmed form says is so: the rows of its ticket are there.
LEMMA ConfirmedRows ==
  ASSUME ReviewsInv, NEW s \in Slots, requests[s] # NoRequest,
         Confirms(requests[s].locals.ticket),
         feedback \subseteq feedback', audit \subseteq audit',
         notifications \subseteq notifications',
         \E row \in feedback' : row.ticket = requests[s].locals.ticket,
         \E row \in audit' : row.ticket = requests[s].locals.ticket,
         requests[s].op = "appeal" =>
           \E row \in notifications' : row.ticket = requests[s].locals.ticket
  PROVE  AppealConfirmed'
<1> DEFINE ticket == requests[s].locals.ticket
<1>1. ReviewTypes /\ TicketsAreNumbered /\ AppealConfirmed  BY DEF ReviewsInv
<1>2. /\ DOMAIN forms' = DOMAIN forms
      /\ \A f \in DOMAIN forms :
           /\ forms'[f].ticket = forms[f].ticket
           /\ forms'[f].says = "recorded" =>
                forms[f].says = "recorded" \/ forms[f].ticket = ticket
  BY <1>1, ConfirmsForms
<1>3. ASSUME NEW f \in DOMAIN forms, forms'[f].says = "recorded"
      PROVE  /\ \E row \in feedback' : row.ticket = forms'[f].ticket
             /\ \E row \in audit' : row.ticket = forms'[f].ticket
             /\ f = "appeal" => \E row \in notifications' : row.ticket = forms'[f].ticket
  <2>1. CASE forms[f].says = "recorded"
    <3>1. /\ \E row \in feedback : row.ticket = forms[f].ticket
          /\ \E row \in audit : row.ticket = forms[f].ticket
          /\ f = "appeal" => \E row \in notifications : row.ticket = forms[f].ticket
      BY <1>1, <2>1 DEF AppealConfirmed
    <3> QED  BY <1>2, <3>1
  <2>2. CASE forms[f].ticket = ticket
    <3>1. f = requests[s].op  BY <1>1, <2>2 DEF TicketsAreNumbered
    <3> QED  BY <1>2, <2>2, <3>1
  <2> QED  BY <1>2, <1>3, <2>1, <2>2
<1> QED  BY <1>2, <1>3 DEF AppealConfirmed

\* A request that goes on keeps its ticket.
LEMMA TicketContinues ==
  ASSUME ReviewTypes, NEW s \in Slots, requests[s] # NoRequest,
         NEW at, requests[s].op = "appeal" => at \in {"audit", "notify"},
         requests[s].op = "feedback" => at = "audit",
         Continues(s, at, requests[s].locals)
  PROVE  \E new \in TicketRequests :
           /\ requests' = [requests EXCEPT ![s] = new] /\ new # NoRequest
           /\ new.op = requests[s].op /\ new.at = at /\ new.locals = requests[s].locals
<1> DEFINE r == requests[s]
           new == [op |-> r.op, at |-> at, who |-> r.who, locals |-> r.locals]
<1>1. r \in TicketRequests  BY DEF ReviewTypes
<1>2. r.op \in FormNames /\ r.who = "none"  BY <1>1, TicketRequestForms
<1>3. CASE r.op = "appeal"
  <2>1. r.locals \in [ticket : Nat, analysis : Analyses, verdict : {"false_positive"}]
    BY <1>1, <1>3, TicketRequestForms
  <2>2. new \in TicketRequests  BY <1>2, <1>3, <2>1 DEF TicketRequests
  <2> QED  BY <1>3, <2>2 DEF Continues, ReviewTypes, NoRequest
<1>4. CASE r.op = "feedback"
  <2>1. r.locals \in [ticket : Nat, verdict : Verdicts,
                      analysis : Analyses \cup {NoAnalysis}]
    BY <1>1, TicketRequestForms
  <2>2. new \in TicketRequests  BY <1>2, <1>4, <2>1 DEF TicketRequests
  <2> QED  BY <1>4, <2>2 DEF Continues, ReviewTypes, NoRequest
<1> QED  BY <1>2, <1>3, <1>4 DEF FormNames

\* The steps of an appeal and of feedback that write their first row.
LEMMA FirstRowKeeps ==
  ASSUME ReviewsInv, NEW s \in Slots, AppealFeedback(s) \/ FeedbackInsert(s)
  PROVE  ReviewsInv'
<1>0. ReviewTypes /\ RowsBehind /\ TicketsAreNumbered /\ OneStory /\ AppealConfirmed
  BY DEF ReviewsInv
<1>1. /\ requests[s] \in TicketRequests /\ requests[s].op \in FormNames
      /\ requests[s] # NoRequest
      /\ UNCHANGED <<scores, audit, notifications, tickets, forms>>
  BY <1>0, TicketRequestForms
     DEF AppealFeedback, FeedbackInsert, Reached, ReviewTypes, FormNames
<1>2. PICK source : AddFeedback(requests[s].locals, source)
  BY DEF AppealFeedback, FeedbackInsert
<1>3. /\ feedback \subseteq feedback'
      /\ \E f \in feedback' : /\ f.ticket = requests[s].locals.ticket
                              /\ f.analysis = requests[s].locals.analysis
                              /\ f.verdict = requests[s].locals.verdict
  <2> DEFINE mine == requests[s].locals
             row == [ticket |-> mine.ticket, source |-> source,
                     analysis |-> mine.analysis, verdict |-> mine.verdict]
  <2>1. feedback' = feedback \cup {row}  BY <1>2 DEF AddFeedback
  <2>2. row.ticket = mine.ticket /\ row.analysis = mine.analysis
        /\ row.verdict = mine.verdict
    OBVIOUS
  <2> HIDE DEF row
  <2> QED  BY <2>1, <2>2
<1>4. PICK new \in TicketRequests :
        /\ requests' = [requests EXCEPT ![s] = new]
        /\ \/ new = NoRequest
           \/ new.op = requests[s].op /\ new.at = "audit" /\ new.locals = requests[s].locals
  <2>1. CASE Ends(s)
    <3>1. NoRequest \in TicketRequests  BY DEF TicketRequests
    <3> QED  BY <2>1, <3>1 DEF Ends
  <2>2. CASE Continues(s, "audit", requests[s].locals)
    <3>1. PICK new \in TicketRequests :
           /\ requests' = [requests EXCEPT ![s] = new] /\ new # NoRequest
           /\ new.op = requests[s].op /\ new.at = "audit" /\ new.locals = requests[s].locals
      BY <1>0, <1>1, <2>2, TicketContinues
    <3> QED  BY <3>1
  <2> QED  BY <2>1, <2>2 DEF AppealFeedback, FeedbackInsert
<1>5. ReviewTypes'  BY <1>0, <1>1, <1>4 DEF ReviewTypes
<1>6. RowsBehind'  BY <1>1, <1>3, <1>4, IdleSlot, RequestsBehind
<1>7. TicketsAreNumbered'  BY <1>1, <1>4, NumbersKept
<1>8. OneStory'  BY <1>0, <1>1, <1>3, StoryStays
<1>9. AppealConfirmed'  BY <1>0, <1>1, <1>3, RecordedStays
<1> QED  BY <1>5, <1>6, <1>7, <1>8, <1>9 DEF ReviewsInv

\* The audit entry of an appeal, or of feedback, whose reply is then out.
LEMMA AuditKeeps ==
  ASSUME ReviewsInv, NEW s \in Slots, AppealAudit(s) \/ FeedbackAudit(s)
  PROVE  ReviewsInv'
<1>0. ReviewTypes /\ RowsBehind /\ TicketsAreNumbered /\ OneStory /\ AppealConfirmed
  BY DEF ReviewsInv
<1>1. /\ requests[s] \in TicketRequests /\ requests[s].op \in FormNames
      /\ requests[s] # NoRequest /\ requests[s].at = "audit"
      /\ UNCHANGED <<scores, feedback, notifications, tickets>>
  BY <1>0, TicketRequestForms DEF AppealAudit, FeedbackAudit, Reached, ReviewTypes, FormNames
<1>2. /\ AppealAudit(s) => requests[s].op = "appeal"
      /\ FeedbackAudit(s) => requests[s].op = "feedback"
  BY DEF AppealAudit, FeedbackAudit, Reached
<1>3. WriteAudit(requests[s].locals, requests[s].locals.analysis,
                 VERDICT_TO_EVENT[requests[s].locals.verdict])
  <2>1. CASE AppealAudit(s)
    <3>1. requests[s].locals.verdict = "false_positive"
      BY <1>1, <1>2, <2>1, TicketRequestForms
    <3> QED  BY <2>1, <3>1 DEF AppealAudit, VERDICT_TO_EVENT
  <2>2. CASE FeedbackAudit(s)  BY <2>2 DEF FeedbackAudit
  <2> QED  BY <2>1, <2>2
<1>4. PICK e : /\ audit' = audit \cup {e} /\ e.ticket = requests[s].locals.ticket
               /\ e.analysis = requests[s].locals.analysis
               /\ e.event = VERDICT_TO_EVENT[requests[s].locals.verdict]
  <2> DEFINE mine == requests[s].locals
             entry == [ticket |-> mine.ticket, analysis |-> mine.analysis,
                       event |-> VERDICT_TO_EVENT[mine.verdict]]
  <2>1. audit' = audit \cup {entry}  BY <1>3 DEF WriteAudit
  <2>2. entry.ticket = mine.ticket /\ entry.analysis = mine.analysis
        /\ entry.event = VERDICT_TO_EVENT[mine.verdict]
    OBVIOUS
  <2> HIDE DEF entry
  <2> QED  BY <2>1, <2>2
<1>5. PICK f \in feedback : /\ f.ticket = requests[s].locals.ticket
                            /\ f.analysis = requests[s].locals.analysis
                            /\ f.verdict = requests[s].locals.verdict
  BY <1>0, <1>1 DEF RowsBehind
<1>6. PICK new \in TicketRequests :
        /\ requests' = [requests EXCEPT ![s] = new]
        /\ \/ new = NoRequest
           \/ /\ new.op = requests[s].op /\ new.at = "notify"
              /\ new.locals = requests[s].locals /\ requests[s].op = "appeal"
  <2>1. CASE AppealAudit(s)
    <3>1. Continues(s, "notify", requests[s].locals)  BY <2>1 DEF AppealAudit
    <3>2. PICK new \in TicketRequests :
           /\ requests' = [requests EXCEPT ![s] = new] /\ new # NoRequest
           /\ new.op = requests[s].op /\ new.at = "notify" /\ new.locals = requests[s].locals
      BY <1>0, <1>1, <1>2, <2>1, <3>1, TicketContinues
    <3> QED  BY <1>2, <2>1, <3>2
  <2>2. CASE FeedbackAudit(s)
    <3>1. NoRequest \in TicketRequests  BY DEF TicketRequests
    <3> QED  BY <2>2, <3>1 DEF FeedbackAudit, Ends
  <2> QED  BY <2>1, <2>2
<1>7. /\ DOMAIN forms' = DOMAIN forms /\ forms' \in [FormNames -> Forms]
      /\ \A g \in DOMAIN forms :
           /\ forms'[g].ticket = forms[g].ticket
           /\ forms'[g].busy => forms[g].busy /\ forms'[g].says = forms[g].says
  <2>1. CASE AppealAudit(s)
    <3>1. UNCHANGED forms  BY <2>1 DEF AppealAudit
    <3> QED  BY <1>0, <3>1, FormTypes
  <2>2. CASE FeedbackAudit(s)
    BY <1>0, <2>2, ConfirmsForms DEF FeedbackAudit
  <2> QED  BY <2>1, <2>2
<1>8. ReviewTypes'  BY <1>0, <1>1, <1>6, <1>7 DEF ReviewTypes, FormNames, Forms
<1>9. RowsBehind'
  <2>1. requests[s].op = "appeal" => e.event = "appealed"
    BY <1>1, <1>4, TicketRequestForms DEF VERDICT_TO_EVENT
  <2>2. CASE new = NoRequest  BY <1>1, <1>4, <1>6, <2>2, IdleSlot, RequestsBehind
  <2>3. CASE new # NoRequest
    <3>1. /\ new.locals = requests[s].locals /\ e \in audit' /\ e.event = "appealed"
          /\ f \in feedback' /\ audit \subseteq audit' /\ feedback \subseteq feedback'
      BY <1>1, <1>4, <1>6, <2>1, <2>3
    <3> QED  BY <1>4, <1>5, <1>6, <3>1, RequestsBehind
  <2> QED  BY <2>2, <2>3
<1>10. TicketsAreNumbered'
  <2>1. new # NoRequest => new.op = requests[s].op
                           /\ new.locals.ticket = requests[s].locals.ticket
    BY <1>6
  <2> QED  BY <1>1, <1>6, <1>7, <2>1, NumbersKept
<1>11. OneStory'
  <2>1. \A d \in audit' : \E g \in feedback' :
          /\ g.ticket = d.ticket /\ g.analysis = d.analysis
          /\ d.event = VERDICT_TO_EVENT[g.verdict]
    <3>1. ASSUME NEW d \in audit
          PROVE  \E g \in feedback' : /\ g.ticket = d.ticket /\ g.analysis = d.analysis
                                      /\ d.event = VERDICT_TO_EVENT[g.verdict]
      BY <1>0, <1>1 DEF OneStory
    <3>2. \E g \in feedback' : /\ g.ticket = e.ticket /\ g.analysis = e.analysis
                               /\ e.event = VERDICT_TO_EVENT[g.verdict]
      BY <1>1, <1>4, <1>5
    <3> QED  BY <1>4, <3>1, <3>2
  <2>2. \A n \in notifications' : \E d \in audit' :
          /\ d.ticket = n.ticket /\ d.event = "appealed"
          /\ OwnerOf[d.analysis] = n.customer
    BY <1>0, <1>1, <1>4 DEF OneStory
  <2> QED  BY <2>1, <2>2 DEF OneStory
<1>12. AppealConfirmed'
  <2>1. CASE AppealAudit(s)
    <3>1. UNCHANGED forms /\ audit \subseteq audit'  BY <1>4, <2>1 DEF AppealAudit
    <3> QED  BY <1>0, <1>1, <3>1, RecordedStays
  <2>2. CASE FeedbackAudit(s)
    <3>1. Confirms(requests[s].locals.ticket)  BY <2>2 DEF FeedbackAudit
    <3>2. /\ \E row \in feedback' : row.ticket = requests[s].locals.ticket
          /\ \E row \in audit' : row.ticket = requests[s].locals.ticket
          /\ audit \subseteq audit' /\ requests[s].op # "appeal"
      BY <1>1, <1>2, <1>4, <1>5, <2>2
    <3> QED  BY <1>1, <3>1, <3>2, ConfirmedRows
  <2> QED  BY <2>1, <2>2
<1> QED  BY <1>8, <1>9, <1>10, <1>11, <1>12 DEF ReviewsInv

\* The owner is notified, and the reply is out.
LEMMA NotifyKeeps ==
  ASSUME ReviewsInv, NEW s \in Slots, AppealNotify(s)
  PROVE  ReviewsInv'
<1>0. ReviewTypes /\ RowsBehind /\ TicketsAreNumbered /\ OneStory /\ AppealConfirmed
  BY DEF ReviewsInv
<1>1. /\ requests[s] \in TicketRequests /\ requests[s].op = "appeal"
      /\ requests[s] # NoRequest /\ requests[s].at = "notify"
      /\ requests' = [requests EXCEPT ![s] = NoRequest]
      /\ Confirms(requests[s].locals.ticket)
      /\ UNCHANGED <<scores, feedback, audit, tickets>>
  BY <1>0, IdleSlot DEF AppealNotify, Reached, ReviewTypes, Ends
<1>2. PICK n \in Notifications :
        /\ notifications' = notifications \cup {n}
        /\ n.ticket = requests[s].locals.ticket
        /\ n.customer = OwnerOf[requests[s].locals.analysis]
  <2> DEFINE mine == requests[s].locals
             note == [ticket |-> mine.ticket, customer |-> OwnerOf[mine.analysis],
                      read |-> FALSE]
  <2>1. notifications' = notifications \cup {note}  BY DEF AppealNotify
  <2>2. mine.ticket \in Nat /\ mine.analysis \in Analyses
    BY <1>1, TicketRequestForms
  <2>3. /\ note \in Notifications /\ note.ticket = mine.ticket
        /\ note.customer = OwnerOf[mine.analysis]
    BY <2>2 DEF Notifications
  <2> HIDE DEF note
  <2> QED  BY <2>1, <2>3
<1>3. PICK e \in audit : /\ e.ticket = requests[s].locals.ticket
                         /\ e.analysis = requests[s].locals.analysis
                         /\ e.event = "appealed"
  BY <1>0, <1>1 DEF RowsBehind
<1>4. PICK f \in feedback : f.ticket = requests[s].locals.ticket
  BY <1>0, <1>1 DEF RowsBehind
<1>5. NoRequest \in TicketRequests  BY DEF TicketRequests
<1>6. /\ DOMAIN forms' = DOMAIN forms /\ forms' \in [FormNames -> Forms]
      /\ \A g \in DOMAIN forms :
           /\ forms'[g].ticket = forms[g].ticket
           /\ forms'[g].busy => forms[g].busy /\ forms'[g].says = forms[g].says
  BY <1>0, <1>1, ConfirmsForms
<1>7. ReviewTypes'  BY <1>0, <1>1, <1>2, <1>5, <1>6 DEF ReviewTypes, FormNames, Forms
<1>8. RowsBehind'  BY <1>1, <1>5, IdleSlot, RequestsBehind
<1>9. TicketsAreNumbered'  BY <1>1, <1>5, <1>6, NumbersKept
<1>10. OneStory'  BY <1>0, <1>1, <1>2, <1>3 DEF OneStory
<1>11. AppealConfirmed'
  <2>1. /\ \E row \in feedback' : row.ticket = requests[s].locals.ticket
        /\ \E row \in audit' : row.ticket = requests[s].locals.ticket
        /\ \E row \in notifications' : row.ticket = requests[s].locals.ticket
        /\ notifications \subseteq notifications'
    BY <1>1, <1>2, <1>3, <1>4
  <2> QED  BY <1>1, <2>1, ConfirmedRows
<1> QED  BY <1>7, <1>8, <1>9, <1>10, <1>11 DEF ReviewsInv

\* A request begins with a ticket of its own, that of the form that sent it
\* if one did.
LEMMA TicketKeeps ==
  ASSUME ReviewsInv, NEW s \in Slots, NEW op \in FormNames,
         NEW analysis \in Analyses \cup {NoAnalysis}, NEW verdict \in Verdicts,
         op = "appeal" => analysis \in Analyses /\ verdict = "false_positive",
         Ticket(s, op, analysis, verdict),
         UNCHANGED <<scores, feedback, audit, notifications>>
  PROVE  ReviewsInv'
<1>0. ReviewTypes /\ RowsBehind /\ TicketsAreNumbered /\ OneStory /\ AppealConfirmed
  BY DEF ReviewsInv
<1>1. PICK n \in Nat : n = tickets + 1 /\ tickets' = n  BY <1>0 DEF Ticket, ReviewTypes
<1> DEFINE new == [op |-> op, at |-> "begun", who |-> "none",
                   locals |-> [ticket |-> n, analysis |-> analysis, verdict |-> verdict]]
<1>2. /\ new \in TicketRequests /\ new.op = op /\ new.at = "begun"
      /\ new.locals.ticket = n
  <2>1. new.op = op /\ new.at = "begun" /\ new.locals.ticket = n  OBVIOUS
  <2>2. CASE op = "appeal"  BY <2>2 DEF TicketRequests
  <2>3. CASE op = "feedback"  BY <2>3 DEF TicketRequests
  <2> HIDE DEF new
  <2> QED  BY <2>1, <2>2, <2>3 DEF FormNames
<1>3. requests' = [requests EXCEPT ![s] = new]
  BY <1>1 DEF Ticket, Begins
<1> HIDE DEF new
<1>4. \A t \in Slots : requests'[t] = IF t = s THEN new ELSE requests[t]
  BY <1>0, <1>3 DEF ReviewTypes
<1>5. forms \in [FormNames -> Forms] /\ DOMAIN forms = FormNames  BY <1>0, FormTypes
<1>6. /\ forms' \in [FormNames -> Forms] /\ DOMAIN forms' = FormNames
      /\ \A f \in FormNames : /\ forms'[f].says = forms[f].says
                              /\ forms'[f].busy = forms[f].busy
                              /\ \/ forms'[f].ticket = forms[f].ticket
                                 \/ f = op /\ forms'[f].ticket = n /\ forms[f].busy
  <2>1. CASE UNCHANGED forms  BY <1>5, <2>1
  <2>2. CASE forms[op].busy /\ forms' = [forms EXCEPT ![op].ticket = n]
    <3>1. PICK g \in Forms : g = forms[op]  BY <1>5
    <3>2. forms' = [forms EXCEPT ![op] = [g EXCEPT !.ticket = n]]  BY <1>5, <2>2, <3>1
    <3> DEFINE h == [g EXCEPT !.ticket = n]
    <3>3. h \in Forms /\ h.ticket = n /\ h.says = g.says /\ h.busy = g.busy  BY DEF Forms
    <3> HIDE DEF h
    <3>4. forms' = [forms EXCEPT ![op] = h]  BY <3>2 DEF h
    <3>5. \A f \in FormNames : forms'[f] = IF f = op THEN h ELSE forms[f]
      BY <1>5, <3>4
    <3>6. forms' \in [FormNames -> Forms] /\ DOMAIN forms' = FormNames
      BY <1>5, <3>3, <3>4
    <3> QED  BY <2>2, <3>1, <3>3, <3>5, <3>6
  <2> QED  BY <1>1, <2>1, <2>2 DEF Ticket
<1>7. tickets \in Nat  BY <1>0 DEF ReviewTypes
<1>8. ReviewTypes'  BY <1>0, <1>1, <1>2, <1>3, <1>6 DEF ReviewTypes, FormNames, Forms
<1>9. RowsBehind'  BY <1>2, <1>3, RequestsBehind
<1>10. TicketsAreNumbered'
  <2>1. \A f \in FormNames : forms[f].ticket <= tickets /\ forms[f].ticket \in Nat
    BY <1>0, <1>5 DEF TicketsAreNumbered, Forms
  <2>2. \A f \in FormNames : forms'[f].ticket <= tickets'
                             /\ (forms'[f].busy => forms'[f].says # "recorded")
    BY <1>0, <1>1, <1>5, <1>6, <1>7, <2>1 DEF TicketsAreNumbered
  <2>3. ASSUME NEW t \in Slots, requests'[t] # NoRequest
        PROVE  /\ requests'[t].locals.ticket \in 1..tickets'
               /\ \A f \in FormNames : forms'[f].ticket = requests'[t].locals.ticket =>
                    f = requests'[t].op
    <3>1. CASE t = s
      <4>1. requests'[t] = new  BY <1>4, <3>1
      <4>2. n \in 1..tickets'  BY <1>1, <1>7
      <4>3. \A f \in FormNames : forms'[f].ticket = n => f = op
        BY <1>1, <1>6, <1>7, <2>1
      <4> QED  BY <1>2, <4>1, <4>2, <4>3
    <3>2. CASE t # s
      <4>1. requests'[t] = requests[t]  BY <1>4, <3>2
      <4>2. requests[t].locals.ticket \in 1..tickets
        BY <1>0, <2>3, <4>1 DEF TicketsAreNumbered
      <4>3. \A f \in FormNames : forms[f].ticket = requests[t].locals.ticket =>
              f = requests[t].op
        BY <1>0, <1>5, <2>3, <4>1 DEF TicketsAreNumbered
      <4> QED  BY <1>1, <1>6, <1>7, <4>1, <4>2, <4>3
    <3> QED  BY <3>1, <3>2
  <2> QED  BY <1>6, <2>2, <2>3 DEF TicketsAreNumbered
<1>11. OneStory'  BY <1>0 DEF OneStory
<1>12. AppealConfirmed'
  <2>1. \A f \in DOMAIN forms : forms'[f].says = "recorded" =>
          forms[f].says = "recorded" /\ forms'[f].ticket = forms[f].ticket
    BY <1>0, <1>5, <1>6 DEF TicketsAreNumbered
  <2> QED  BY <1>0, <1>5, <1>6, <2>1, RecordedStays
<1> QED  BY <1>8, <1>9, <1>10, <1>11, <1>12 DEF ReviewsInv

\* What the public and the customer send.
LEMMA TicketsBegin ==
  ASSUME ReviewsInv, NEW s \in Slots, AppealSelect(s) \/ FeedbackBegins(s)
  PROVE  ReviewsInv'
<1>0. ReviewTypes  BY DEF ReviewsInv
<1>1. CASE AppealSelect(s)
  <2>1. /\ scores # << >> /\ Ticket(s, "appeal", Latest, "false_positive")
        /\ UNCHANGED <<scores, feedback, audit, notifications>>
    BY <1>1 DEF AppealSelect, reviewTables
  <2>2. Latest \in Analyses
    <3>1. scores \in Seq(Analyses) /\ scores # << >>  BY <1>0, <2>1 DEF ReviewTypes
    <3>2. Len(scores) \in 1..Len(scores)  BY <3>1, EmptySeq, LenProperties
    <3> QED  BY <3>1, <3>2, ElementOfSeq DEF Latest
  <2>3. "appeal" \in FormNames /\ "false_positive" \in Verdicts  BY DEF FormNames, Verdicts
  <2> QED  BY <2>1, <2>2, <2>3, TicketKeeps
<1>2. CASE FeedbackBegins(s)
  <2>1. PICK a \in Analyses \cup {NoAnalysis}, verdict \in Verdicts :
          Ticket(s, "feedback", a, verdict)
    BY <1>2 DEF FeedbackBegins
  <2>2. UNCHANGED <<scores, feedback, audit, notifications>>
    BY <1>2 DEF FeedbackBegins, reviewTables
  <2>3. "feedback" \in FormNames  BY DEF FormNames
  <2> QED  BY <2>1, <2>2, <2>3, TicketKeeps
<1> QED  BY <1>1, <1>2

\* Where requests and tables stay: a form is submitted, fails or is left, and a
\* newer score of the address is stored.
LEMMA FormKeeps ==
  ASSUME ReviewsInv, UNCHANGED <<requests, feedback, audit, notifications, tickets>>,
         scores' \in Seq(Analyses),
         forms' \in [FormNames -> Forms],
         \A f \in FormNames :
           \/ forms'[f] = forms[f]
           \/ forms'[f].ticket = 0 /\ forms'[f].says # "recorded"
  PROVE  ReviewsInv'
<1>0. ReviewTypes /\ RowsBehind /\ TicketsAreNumbered /\ OneStory /\ AppealConfirmed
  BY DEF ReviewsInv
<1>1. DOMAIN forms = FormNames /\ DOMAIN forms' = FormNames  BY <1>0, FormTypes
<1>2. ReviewTypes'  BY <1>0 DEF ReviewTypes, FormNames, Forms
<1>3. RowsBehind'  BY <1>0 DEF RowsBehind
<1>4. TicketsAreNumbered'
  <2>1. tickets \in Nat  BY <1>0 DEF ReviewTypes
  <2>2. \A f \in FormNames : forms'[f].ticket <= tickets
                             /\ (forms'[f].busy => forms'[f].says # "recorded")
    BY <1>0, <1>1, <2>1 DEF TicketsAreNumbered
  <2>3. ASSUME NEW t \in Slots, requests[t] # NoRequest, NEW f \in FormNames,
               forms'[f].ticket = requests[t].locals.ticket
        PROVE  f = requests[t].op
    <3>1. requests[t].locals.ticket \in 1..tickets  BY <1>0, <2>3 DEF TicketsAreNumbered
    <3>2. forms'[f].ticket # 0  BY <2>1, <2>3, <3>1
    <3>3. forms'[f] = forms[f]  BY <3>2
    <3> QED  BY <1>0, <1>1, <2>3, <3>3 DEF TicketsAreNumbered
  <2>4. \A t \in Slots : requests[t] # NoRequest =>
          requests[t].locals.ticket \in 1..tickets
    BY <1>0 DEF TicketsAreNumbered
  <2> QED  BY <1>1, <2>2, <2>3, <2>4 DEF TicketsAreNumbered
<1>5. OneStory'  BY <1>0 DEF OneStory
<1>6. AppealConfirmed'
  <2>1. \A f \in DOMAIN forms : forms'[f].says = "recorded" =>
          forms[f].says = "recorded" /\ forms'[f].ticket = forms[f].ticket
    BY <1>1
  <2> QED  BY <1>0, <1>1, <2>1, RecordedStays
<1> QED  BY <1>2, <1>3, <1>4, <1>5, <1>6 DEF ReviewsInv

\* What the forms do on their own.
LEMMA FormActions ==
  ASSUME ReviewsInv,
         \/ SubmitAppeal \/ SubmitFeedback \/ FormFails \/ LeaveForm
         \/ \E a \in Analyses : StoreScore(a)
         \/ UNCHANGED reviewVars
  PROVE  ReviewsInv'
<1> USE DEF reviewTables
<1>0. forms \in [FormNames -> Forms] /\ DOMAIN forms = FormNames
      /\ scores \in Seq(Analyses)
  BY FormTypes DEF ReviewsInv, ReviewTypes
<1>1. ASSUME NEW f \in FormNames, NEW form \in Forms, form.ticket = 0,
             form.says # "recorded", SetForm(f, form)
      PROVE  ReviewsInv'
  <2>1. forms' = [forms EXCEPT ![f] = form]
        /\ UNCHANGED <<requests, scores, feedback, audit, notifications, tickets>>
    BY <1>1 DEF SetForm
  <2>2. forms' \in [FormNames -> Forms]  BY <1>0, <2>1
  <2>3. \A g \in FormNames : forms'[g] = IF g = f THEN form ELSE forms[g]
    BY <1>0, <2>1
  <2> QED  BY <1>0, <1>1, <2>1, <2>2, <2>3, FormKeeps
<1>2. /\ NewForm \in Forms /\ NewForm.ticket = 0 /\ NewForm.says = "nothing"
      /\ [NewForm EXCEPT !.busy = TRUE] \in Forms
      /\ [NewForm EXCEPT !.busy = TRUE].ticket = 0
      /\ [NewForm EXCEPT !.busy = TRUE].says = "nothing"
      /\ [NewForm EXCEPT !.says = "failed"] \in Forms
      /\ [NewForm EXCEPT !.says = "failed"].ticket = 0
      /\ [NewForm EXCEPT !.says = "failed"].says = "failed"
  BY DEF NewForm, Forms
<1>3. CASE SubmitAppeal \/ SubmitFeedback
  <2>1. PICK f \in FormNames : SetForm(f, [NewForm EXCEPT !.busy = TRUE])
    BY <1>3 DEF SubmitAppeal, SubmitFeedback, FormNames
  <2> QED  BY <1>1, <1>2, <2>1
<1>4. CASE FormFails
  <2>1. PICK f \in FormNames : SetForm(f, [NewForm EXCEPT !.says = "failed"])
    BY <1>0, <1>4 DEF FormFails
  <2> QED  BY <1>1, <1>2, <2>1
<1>5. CASE LeaveForm
  <2>1. PICK f \in FormNames : SetForm(f, NewForm)  BY <1>0, <1>5 DEF LeaveForm
  <2> QED  BY <1>1, <1>2, <2>1
<1>6. CASE \E a \in Analyses : StoreScore(a)
  <2>1. PICK a \in Analyses : StoreScore(a)  BY <1>6
  <2>2. scores' \in Seq(Analyses)  BY <1>0, <2>1, AppendProperties DEF StoreScore
  <2>3. UNCHANGED <<requests, feedback, audit, notifications, tickets, forms>>
    BY <2>1 DEF StoreScore
  <2> QED  BY <1>0, <2>2, <2>3, FormKeeps
<1>7. CASE UNCHANGED reviewVars
  <2>1. UNCHANGED <<requests, feedback, audit, notifications, tickets, forms, scores>>
    BY <1>7 DEF reviewVars
  <2> QED  BY <1>0, <2>1, FormKeeps
<1> QED  BY <1>3, <1>4, <1>5, <1>6, <1>7

\* Notifications are read.
LEMMA ReadKeeps ==
  ASSUME ReviewsInv, NEW read, MarkRead(read)
  PROVE  ReviewsInv'
<1>0. ReviewTypes /\ RowsBehind /\ TicketsAreNumbered /\ OneStory /\ AppealConfirmed
  BY DEF ReviewsInv
<1>1. UNCHANGED <<requests, scores, feedback, audit, tickets, forms>>  BY DEF MarkRead
<1> DEFINE Seen(n) == [n EXCEPT !.read = @ \/ n \in read]
<1>2. \A n \in Notifications : /\ Seen(n) \in Notifications /\ Seen(n).ticket = n.ticket
                               /\ Seen(n).customer = n.customer
  BY DEF Notifications
<1>3. /\ notifications' = {Seen(n) : n \in notifications}
      /\ notifications \subseteq Notifications
  BY <1>0 DEF MarkRead, ReviewTypes
<1> HIDE DEF Seen
<1>7. /\ \A n \in notifications : \E m \in notifications' : m.ticket = n.ticket
      /\ \A m \in notifications' : \E n \in notifications :
           m.ticket = n.ticket /\ m.customer = n.customer
      /\ notifications' \subseteq Notifications
  BY <1>2, <1>3
<1>4. ReviewTypes' /\ RowsBehind' /\ TicketsAreNumbered'
  BY <1>0, <1>1, <1>7 DEF ReviewTypes, RowsBehind, TicketsAreNumbered
<1>5. OneStory'  BY <1>0, <1>1, <1>7, StoryStays
<1>6. AppealConfirmed'  BY <1>0, <1>1, <1>7, RecordedStays
<1> QED  BY <1>4, <1>5, <1>6 DEF ReviewsInv

\* A statement fails, or the process dies: what was written stays.
LEMMA ReviewsFaultKeeps ==
  ASSUME ReviewsInv, ReviewsFault
  PROVE  ReviewsInv'
<1> USE DEF reviewTables
<1>0. ReviewTypes /\ RowsBehind /\ TicketsAreNumbered /\ OneStory /\ AppealConfirmed
  BY DEF ReviewsInv
<1>1. UNCHANGED <<scores, feedback, audit, notifications, tickets, forms>>
  BY DEF ReviewsFault
<1>2. NoRequest \in TicketRequests  BY DEF TicketRequests
<1>3. /\ requests' \in [Slots -> TicketRequests]
      /\ \A t \in Slots : requests'[t] = requests[t] \/ requests'[t] = NoRequest
  BY <1>0, <1>2 DEF ReviewsFault, AllLost, Ends, ReviewTypes
<1>4. ReviewTypes'  BY <1>0, <1>1, <1>3 DEF ReviewTypes
<1>5. RowsBehind'  BY <1>0, <1>1, <1>3, IdleSlot DEF RowsBehind
<1>6. TicketsAreNumbered'  BY <1>0, <1>1, <1>3 DEF TicketsAreNumbered
<1>7. OneStory'  BY <1>0, <1>1 DEF OneStory
<1>8. AppealConfirmed'  BY <1>0, <1>1 DEF AppealConfirmed
<1> QED  BY <1>4, <1>5, <1>6, <1>7, <1>8 DEF ReviewsInv

\* However appeals, feedback, newer scores, failures and the two forms
\* interleave (appeals.ts:46-94, feedback.ts:18-43): the invariant holds.
THEOREM ReviewsInvariance == ReviewsSpec => []ReviewsInv
<1>1. ReviewsInit => ReviewsInv
  <2> SUFFICES ASSUME ReviewsInit PROVE ReviewsInv  OBVIOUS
  <2>1. ReviewTypes
    <3>1. requests \in [Slots -> TicketRequests]  BY DEF ReviewsInit, TicketRequests
    <3>2. scores \in Seq(Analyses)  BY EmptySeq DEF ReviewsInit
    <3> QED  BY <3>1, <3>2 DEF ReviewsInit, ReviewTypes, NewForm, FormNames, Forms
  <2>2. RowsBehind  BY IdleSlot DEF ReviewsInit, RowsBehind
  <2>3. TicketsAreNumbered  BY DEF ReviewsInit, TicketsAreNumbered, NewForm
  <2>4. OneStory /\ AppealConfirmed
    BY DEF ReviewsInit, OneStory, AppealConfirmed, NewForm
  <2> QED  BY <2>1, <2>2, <2>3, <2>4 DEF ReviewsInv
<1>2. ReviewsInv /\ [ReviewsNext]_reviewVars => ReviewsInv'
  <2> SUFFICES ASSUME ReviewsInv, [ReviewsNext]_reviewVars PROVE ReviewsInv'  OBVIOUS
  <2>1. CASE ReadOne \/ \E a \in Analyses : ReadAll(OwnerOf[a])
    BY <2>1, ReadKeeps DEF ReadOne, ReadAll
  <2> QED
    BY <2>1, TicketsBegin, FirstRowKeeps, AuditKeeps, NotifyKeeps, FormActions,
       ReviewsFaultKeeps DEF ReviewsNext
<1> QED  BY <1>1, <1>2, PTL DEF ReviewsSpec

\* Audit entries and notifications tell of the analysis that the feedback was
\* about, whatever was scored meanwhile (appeals.ts:55-87).
THEOREM TablesTellOneStory == ReviewsSpec => []OneStory
<1>1. ReviewsInv => OneStory  BY DEF ReviewsInv
<1> QED  BY <1>1, ReviewsInvariance, PTL

\* What a form confirms was written, by the very ticket it sent
\* (appeals.ts:55-94, appeal/page.tsx:35, analyses/[id]/page.tsx:552-566).
THEOREM ConfirmationsAreTrue == ReviewsSpec => []AppealConfirmed
<1>1. ReviewsInv => AppealConfirmed  BY DEF ReviewsInv
<1> QED  BY <1>1, ReviewsInvariance, PTL

----------------------------------------------------------------------------
(* ScoreLookup.                                                            *)

Rows == [subject : Subjects, date : Nat, score : 0..100,
         decision : {"none", "DROP", "REVIEW", "KEEP"}]
Asked == Subjects \cup {"none", NotAnAddress}

LookupTypes ==
  /\ dated \in Nat /\ storing \subseteq 1..dated /\ stored \subseteq Rows
  /\ screen \in [page : Pages, asks : Asked, shows : {"nothing", "row", "not scored", "error"},
                 row : Rows \cup {Row404}]
  /\ votes \in [asks : OnEthereum \cup {"none"}, in : Spaces \cup {DefaultSpace},
                says : {"nothing", "yes", "no", "throws"}, row : Rows \cup {Row404}]
  /\ batch \in Seq(Subjects)
  /\ answers \in Seq([subject : Subjects, row : Rows \cup {Row404}])

\* A date is in progress or names one row, and the query finds one wherever
\* there is any.
StoredInv ==
  /\ \A r \in stored : r.date \in 1..dated /\ r.date \notin storing
  /\ \A r, q \in stored : r.date = q.date => r = q
  /\ \A r \in stored : Newest(r.subject) # {}

\* What was answered is still stored.
AnswersInv ==
  /\ \A i \in DOMAIN answers :
       \/ answers[i].row = Row404
       \/ (answers[i].row \in stored /\ answers[i].row.subject = answers[i].subject)
  /\ \A i, j \in DOMAIN answers :
       i < j /\ answers[i].subject = answers[j].subject
         => answers[i].row.date <= answers[j].row.date

\* What page and gate have shown is what they read.
ReadersInv ==
  /\ screen.shows = "row" => screen.row \in stored
  /\ votes.row # Row404 =>
       /\ votes.row \in stored
       /\ votes.says = IF Passes(votes.row, votes.in) THEN "yes" ELSE "no"

LookupInv == LookupTypes /\ StoredInv /\ AnswersInv /\ ReadersInv

\* The reply without a score is no row.
LEMMA NoRow == Row404 \notin Rows /\ Row404.subject = "none" /\ Row404.date = 0
  BY ScoreLookupAssumption DEF Row404, Rows

\* What the query returns: no row only where there is none, else a stored one
\* that no stored row of the address is newer than.
LEMMA LookUpFacts ==
  ASSUME LookupInv, NEW x \in Subjects, NEW row \in LookUp(x)
  PROVE  /\ row \in Rows \cup {Row404}
         /\ row = Row404 \/ (row \in stored /\ row.subject = x)
         /\ \A q \in stored : q.subject = x => q.date <= row.date
<1>1. CASE Newest(x) = {}
  <2>1. row = Row404  BY <1>1 DEF LookUp
  <2>2. \A q \in stored : q.subject # x  BY <1>1 DEF LookupInv, StoredInv
  <2> QED  BY <2>1, <2>2
<1>2. CASE Newest(x) # {}
  <2>1. row \in Newest(x)  BY <1>2 DEF LookUp
  <2> QED  BY <2>1 DEF Newest, LookupInv, LookupTypes
<1> QED  BY <1>1, <1>2

\* A look-up appends an answer, and no answer for the address is newer.
LEMMA ReadKeepsAnswers ==
  ASSUME LookupInv, NEW x \in Subjects, NEW row \in LookUp(x), Read(x, row),
         UNCHANGED stored
  PROVE  /\ answers' \in Seq([subject : Subjects, row : Rows \cup {Row404}])
         /\ AnswersInv'
<1> DEFINE Pairs == [subject : Subjects, row : Rows \cup {Row404}]
           new == [subject |-> x, row |-> row]
           n == Len(answers)
<1>1. /\ row \in Rows \cup {Row404}
      /\ row = Row404 \/ (row \in stored /\ row.subject = x)
      /\ \A q \in stored : q.subject = x => q.date <= row.date
  BY LookUpFacts
<1>2. answers \in Seq(Pairs) /\ new \in Pairs /\ answers' = Append(answers, new)
  BY <1>1 DEF LookupInv, LookupTypes, Read
<1>3. /\ answers' \in Seq(Pairs) /\ Len(answers') = n + 1 /\ n \in Nat
      /\ DOMAIN answers = 1 .. n /\ DOMAIN answers' = 1 .. (n + 1)
      /\ \A i \in 1 .. n : answers'[i] = answers[i]
      /\ answers'[n + 1] = new
  <2> HIDE DEF new, Pairs
  <2> QED  BY <1>2, AppendProperties, LenProperties
<1>4. ASSUME NEW i \in 1 .. n, answers[i].subject = x
      PROVE  answers[i].row.date <= row.date
  <2>1. CASE answers[i].row = Row404
    <3>1. answers[i].row.date = 0  BY <2>1, NoRow
    <3>2. row.date \in Nat  BY <1>1, NoRow DEF Rows
    <3> QED  BY <3>1, <3>2
  <2>2. CASE answers[i].row \in stored /\ answers[i].row.subject = x
    BY <1>1, <2>2
  <2> QED  BY <1>3, <1>4, <2>1, <2>2 DEF LookupInv, AnswersInv
<1>5. \A i \in 1 .. (n + 1) : i \in 1 .. n \/ i = n + 1  BY <1>3
<1>6. ASSUME NEW i \in DOMAIN answers'
      PROVE  \/ answers'[i].row = Row404
             \/ (answers'[i].row \in stored' /\ answers'[i].row.subject = answers'[i].subject)
  <2>1. CASE i \in 1 .. n  BY <1>3, <2>1 DEF LookupInv, AnswersInv
  <2>2. CASE i = n + 1  BY <1>1, <1>3, <2>2
  <2> QED  BY <1>3, <1>5, <2>1, <2>2
<1>7. ASSUME NEW i \in DOMAIN answers', NEW j \in DOMAIN answers',
             i < j, answers'[i].subject = answers'[j].subject
      PROVE  answers'[i].row.date <= answers'[j].row.date
  <2>1. i \in 1 .. n  BY <1>3, <1>7
  <2>2. CASE j \in 1 .. n  BY <1>3, <1>7, <2>1, <2>2 DEF LookupInv, AnswersInv
  <2>3. CASE j = n + 1  BY <1>3, <1>4, <1>7, <2>1, <2>3
  <2> QED  BY <1>3, <1>5, <2>2, <2>3
<1> QED  BY <1>3, <1>6, <1>7 DEF AnswersInv

\* A commit names its row by a date nobody has, and takes nothing away.
LEMMA CommitKeepsStored ==
  ASSUME LookupInv, NEW n \in storing, storing' = storing \ {n}, UNCHANGED dated,
         NEW x \in Subjects, NEW c \in Contents, stored' = stored \cup {RowOf(x, n, c)}
  PROVE  stored' \subseteq Rows /\ StoredInv'
<1> DEFINE new == RowOf(x, n, c)
<1>1. /\ dated \in Nat /\ storing \subseteq 1..dated /\ stored \subseteq Rows /\ n \in 1..dated
      /\ \A r \in stored : r.date \in 1..dated /\ r.date \notin storing
      /\ \A r, q \in stored : r.date = q.date => r = q
      /\ \A r \in stored : Newest(r.subject) # {}
  BY DEF LookupInv, LookupTypes, StoredInv
<1>2. new \in Rows /\ new.date = n /\ new.subject = x
  <2>1. c.score \in 0..100 /\ c.decision \in {"none", "DROP", "REVIEW", "KEEP"}
    BY ScoreLookupAssumption
  <2>2. n \in Nat  BY <1>1
  <2> QED  BY <2>1, <2>2 DEF RowOf, Rows
<1> HIDE DEF new
<1>3. stored' = stored \cup {new}  BY DEF new
<1>4. \A r \in stored' : r.date \in 1..dated' /\ r.date \notin storing'
  BY <1>1, <1>2, <1>3
<1>5. \A r, q \in stored' : r.date = q.date => r = q  BY <1>1, <1>2, <1>3
<1>6. ASSUME NEW r \in stored'
      PROVE  \E m \in stored' : m.subject = r.subject
               /\ \A q \in stored' : q.subject = r.subject => q.date <= m.date
  <2>0. \A q \in stored' : q.date \in Nat  BY <1>1, <1>2, <1>3, <1>4
  <2>1. CASE \A q \in stored : q.subject # r.subject
    <3>1. r = new  BY <1>3, <2>1
    <3> QED  BY <1>3, <2>0, <2>1, <3>1
  <2>2. CASE \E q \in stored : q.subject = r.subject
    <3>1. PICK m \in stored : m.subject = r.subject
                 /\ \A q \in stored : q.subject = r.subject => q.date <= m.date
      BY <1>1, <2>2 DEF Newest
    <3>2. CASE new.subject = r.subject /\ new.date > m.date
      <4>1. \A q \in stored' : q.subject = r.subject => q.date <= new.date
        BY <1>3, <2>0, <3>1, <3>2
      <4> QED  BY <1>3, <3>2, <4>1
    <3>3. CASE ~(new.subject = r.subject /\ new.date > m.date)
      <4>1. \A q \in stored' : q.subject = r.subject => q.date <= m.date
        BY <1>3, <2>0, <3>1, <3>3
      <4> QED  BY <1>3, <3>1, <4>1
    <3> QED  BY <3>2, <3>3
  <2> QED  BY <2>1, <2>2
<1>7. \A r \in stored' : Newest(r.subject)' # {}
  BY <1>6 DEF Newest
<1> QED  BY <1>1, <1>2, <1>3, <1>4, <1>5, <1>7 DEF StoredInv

\* Where nothing is stored, nothing about the stored rows changes.
LEMMA StoresUnchanged ==
  ASSUME StoredInv, UNCHANGED stored, UNCHANGED dated, storing' \subseteq storing
  PROVE  StoredInv'
<1>1. \A x : Newest(x)' = Newest(x)  BY DEF Newest
<1> QED  BY <1>1 DEF StoredInv

----------------------------------------------------------------------------
\* The steps, one by one.
LEMMA StepKeepsLookupInv ==
  ASSUME LookupInv, ScoreLookupNext
  PROVE  LookupInv'
<1> USE DEF LookupInv, scoreTables
<1>1. CASE BeginStore
  <2>1. LookupTypes'
    <3>1. dated' = dated + 1 /\ storing' = storing \cup {dated'}  BY <1>1 DEF BeginStore
    <3>2. dated \in Nat /\ storing \subseteq 1..dated  BY DEF LookupTypes
    <3>3. \A n \in 1..dated : n \in 1..(dated + 1)  BY <3>2
    <3>4. dated' \in Nat /\ storing' \subseteq 1..dated'  BY <3>1, <3>2, <3>3
    <3> QED  BY <1>1, <3>4 DEF BeginStore, LookupTypes
  <2>2. StoredInv'
    <3>1. dated' = dated + 1 /\ storing' = storing \cup {dated'} /\ stored' = stored
      BY <1>1 DEF BeginStore
    <3>2. dated \in Nat  BY DEF LookupTypes
    <3>3. \A n \in 1..dated : n \in 1..dated' /\ n # dated'  BY <3>1, <3>2
    <3>4. \A x : Newest(x)' = Newest(x)  BY <3>1 DEF Newest
    <3> QED  BY <3>1, <3>3, <3>4 DEF StoredInv
  <2> QED  BY <1>1, <2>1, <2>2 DEF BeginStore, AnswersInv, ReadersInv, Passes
<1>2. CASE EndStore
  <2>1. PICK n \in storing :
          /\ storing' = storing \ {n}
          /\ \/ UNCHANGED stored
             \/ \E x \in Subjects, c \in Contents : stored' = stored \cup {RowOf(x, n, c)}
    BY <1>2 DEF EndStore
  <2>2. UNCHANGED <<dated, screen, votes, batch, answers>>  BY <1>2 DEF EndStore
  <2>3. stored' \subseteq Rows /\ StoredInv'
    <3>1. CASE UNCHANGED stored
      BY <2>1, <2>2, <3>1, StoresUnchanged DEF LookupTypes
    <3>2. CASE \E x \in Subjects, c \in Contents : stored' = stored \cup {RowOf(x, n, c)}
      BY <2>1, <2>2, <3>2, CommitKeepsStored
    <3> QED  BY <2>1, <3>1, <3>2
  <2>4. stored \subseteq stored'  BY <2>1
  <2>5. LookupTypes'  BY <2>1, <2>2, <2>3 DEF LookupTypes
  <2> QED  BY <2>2, <2>3, <2>4, <2>5 DEF AnswersInv, ReadersInv, Passes
<1>3. CASE OpenLookup
  <2>1. PICK p \in Pages : screen' = OpenedPage(p)  BY <1>3 DEF OpenLookup
  <2>2. LookupTypes' /\ screen'.shows = "nothing"
    BY <1>3, <2>1 DEF OpenLookup, LookupTypes, OpenedPage, Asked
  <2> QED  BY <1>3, <2>2, StoresUnchanged DEF OpenLookup, AnswersInv, ReadersInv, Passes
<1>4. CASE SubmitLookup
  <2>1. PICK x \in Subjects \cup {NotAnAddress} :
          screen' = [OpenedPage(screen.page) EXCEPT !.asks = x]
    BY <1>4 DEF SubmitLookup
  <2>2. LookupTypes' /\ screen'.shows = "nothing"
    BY <1>4, <2>1 DEF SubmitLookup, LookupTypes, OpenedPage, Asked
  <2> QED  BY <1>4, <2>2, StoresUnchanged DEF SubmitLookup, AnswersInv, ReadersInv, Passes
<1>5. CASE ScoreArrives
  <2>1. PICK row \in LookUp(screen.asks) :
          /\ Read(screen.asks, row)
          /\ screen' = [screen EXCEPT !.asks = "none", !.row = row, !.shows = Shows(row)]
    BY <1>5 DEF ScoreArrives
  <2>2. screen.asks \in Subjects /\ UNCHANGED <<dated, storing, stored, votes, batch>>
    BY <1>5 DEF ScoreArrives
  <2>3. /\ row \in Rows \cup {Row404} /\ (row = Row404 \/ row \in stored)
        /\ answers' \in Seq([subject : Subjects, row : Rows \cup {Row404}])
        /\ AnswersInv'
    BY <2>1, <2>2, LookUpFacts, ReadKeepsAnswers
  <2>4. Shows(row) \in {"row", "not scored", "error"} /\ (Shows(row) = "row" => row # Row404)
    BY DEF Shows
  <2>5. LookupTypes' /\ screen'.row = row /\ screen'.shows = Shows(row)
    BY <2>1, <2>2, <2>3, <2>4 DEF LookupTypes, Asked
  <2> QED  BY <2>2, <2>3, <2>4, <2>5, StoresUnchanged DEF ReadersInv, Passes
<1>6. CASE LookupFails
  <2>1. LookupTypes' /\ screen'.shows = "error"
    BY <1>6 DEF LookupFails, LookupTypes, OpenedPage, Asked
  <2> QED  BY <1>6, <2>1, StoresUnchanged DEF LookupFails, AnswersInv, ReadersInv, Passes
<1>7. CASE Validate
  <2>1. PICK x \in OnEthereum \cup {NotAnAddress} :
          votes' = IF x = NotAnAddress THEN [NoVote EXCEPT !.says = "no"]
                   ELSE [NoVote EXCEPT !.asks = x]
    BY <1>7 DEF Validate
  <2>2. LookupTypes' /\ votes'.row = Row404
    BY <1>7, <2>1, ScoreLookupAssumption DEF Validate, LookupTypes, NoVote, Asked
  <2> QED  BY <1>7, <2>2, StoresUnchanged DEF Validate, AnswersInv, ReadersInv
<1>8. CASE DoValidate
  <2>1. votes.asks # "none" /\ UNCHANGED <<dated, storing, stored, screen, batch>>
    BY <1>8 DEF DoValidate
  <2>2. CASE votes' = [NoVote EXCEPT !.says = "throws"] /\ UNCHANGED answers
    <3>1. LookupTypes' /\ votes'.row = Row404
      BY <2>1, <2>2 DEF LookupTypes, NoVote, Asked
    <3> QED  BY <2>1, <2>2, <3>1, StoresUnchanged DEF AnswersInv, ReadersInv
  <2>3. CASE \E row \in LookUp(votes.asks), space \in Spaces :
          /\ Read(votes.asks, row)
          /\ votes' = [asks |-> "none", row |-> row, in |-> space,
                        says |-> IF Passes(row, space) THEN "yes" ELSE "no"]
    <3>1. PICK row \in LookUp(votes.asks), space \in Spaces :
          /\ Read(votes.asks, row)
          /\ votes' = [asks |-> "none", row |-> row, in |-> space,
                        says |-> IF Passes(row, space) THEN "yes" ELSE "no"]
      BY <2>3
    <3>0. votes.asks \in Subjects  BY <2>1, ScoreLookupAssumption DEF LookupTypes
    <3>2. /\ row \in Rows \cup {Row404} /\ (row = Row404 \/ row \in stored)
          /\ answers' \in Seq([subject : Subjects, row : Rows \cup {Row404}])
          /\ AnswersInv'
      BY <2>1, <3>0, <3>1, LookUpFacts, ReadKeepsAnswers
    <3>3. /\ votes'.row = row /\ votes'.in = space
          /\ votes'.says = IF Passes(row, space) THEN "yes" ELSE "no"
      BY <3>1
    <3>4. LookupTypes'  BY <2>1, <3>1, <3>2 DEF LookupTypes, Asked
    <3> QED  BY <2>1, <3>2, <3>3, <3>4, StoresUnchanged DEF ReadersInv, Passes
  <2> QED  BY <1>8, <2>2, <2>3 DEF DoValidate
<1>9. CASE BatchBegins
  <2>1. LookupTypes'
    <3>1. batch' \in Seq(Subjects)  BY <1>9 DEF BatchBegins
    <3> QED  BY <1>9, <3>1 DEF BatchBegins, LookupTypes
  <2> QED  BY <1>9, <2>1, StoresUnchanged DEF BatchBegins, AnswersInv, ReadersInv, Passes
<1>10. CASE BatchReads
  <2>1. PICK row \in LookUp(Head(batch)) : Read(Head(batch), row)  BY <1>10 DEF BatchReads
  <2>2. /\ batch # << >> /\ batch' = Tail(batch) /\ batch \in Seq(Subjects)
        /\ UNCHANGED <<dated, storing, stored, screen, votes>>
    BY <1>10 DEF BatchReads, LookupTypes
  <2>3. Head(batch) \in Subjects /\ batch' \in Seq(Subjects)  BY <2>2, HeadTailProperties
  <2>4. /\ answers' \in Seq([subject : Subjects, row : Rows \cup {Row404}])
        /\ AnswersInv'
    BY <2>1, <2>2, <2>3, ReadKeepsAnswers
  <2>5. LookupTypes'  BY <2>2, <2>3, <2>4 DEF LookupTypes
  <2> QED  BY <2>2, <2>4, <2>5, StoresUnchanged DEF ReadersInv, Passes
<1>11. CASE BatchFails
  <2>1. LookupTypes'
    <3>1. batch' \in Seq(Subjects)  BY <1>11 DEF BatchFails
    <3> QED  BY <1>11, <3>1 DEF BatchFails, LookupTypes
  <2> QED  BY <1>11, <2>1, StoresUnchanged DEF BatchFails, AnswersInv, ReadersInv, Passes
<1> QED
  BY <1>1, <1>2, <1>3, <1>4, <1>5, <1>6, <1>7, <1>8, <1>9, <1>10, <1>11 DEF ScoreLookupNext

\* The invariant of the stores, the queries and those who show what they read.
THEOREM LookupInvariance == ScoreLookupSpec => []LookupInv
<1>1. ScoreLookupInit => LookupInv
  <2> SUFFICES ASSUME ScoreLookupInit PROVE LookupInv  OBVIOUS
  <2>1. LookupTypes
    <3>1. << >> \in Seq(Subjects) /\ << >> \in Seq([subject : Subjects, row : Rows \cup {Row404}])
      OBVIOUS
    <3> QED
      BY <3>1 DEF ScoreLookupInit, LookupTypes, OpenedPage, NoVote, Pages, Asked
  <2>2. StoredInv  BY DEF ScoreLookupInit, StoredInv
  <2>3. AnswersInv  BY DEF ScoreLookupInit, AnswersInv
  <2>4. ReadersInv  BY DEF ScoreLookupInit, ReadersInv, OpenedPage, NoVote
  <2> QED  BY <2>1, <2>2, <2>3, <2>4 DEF LookupInv
<1>2. LookupInv /\ [ScoreLookupNext]_lookupVars => LookupInv'
  <2>1. CASE LookupInv /\ ScoreLookupNext  BY <2>1, StepKeepsLookupInv
  <2>2. CASE LookupInv /\ UNCHANGED lookupVars
    <3> USE <2>2 DEF lookupVars, LookupInv
    <3>1. LookupTypes'  BY DEF LookupTypes
    <3>2. StoredInv'  BY StoresUnchanged
    <3>3. AnswersInv' /\ ReadersInv'  BY DEF AnswersInv, ReadersInv, Passes
    <3> QED  BY <3>1, <3>2, <3>3
  <2> QED  BY <2>1, <2>2
<1> QED  BY <1>1, <1>2, PTL DEF ScoreLookupSpec

\* Later look-ups are never older, and page and gate say the same of one score.
THEOREM LookupsAgreement == ScoreLookupSpec => []LookupsAgree
<1>1. ASSUME LookupInv, screen.page = "lookup", screen.shows = "row",
             votes.in = DefaultSpace, votes.row.subject = screen.row.subject,
             votes.row.date = screen.row.date
      PROVE  votes.says = "no" <=> EffectiveDecision(screen.row) = "DROP"
  <2> DEFINE row == screen.row
  <2>1. row \in stored /\ row \in Rows  BY <1>1 DEF LookupInv, ReadersInv, LookupTypes
  <2>2. votes.row # Row404
    <3>1. row.subject # "none"  BY <2>1, ScoreLookupAssumption DEF Rows
    <3> QED  BY <1>1, <3>1, NoRow
  <2>3. votes.row = row
    BY <1>1, <2>1, <2>2 DEF LookupInv, ReadersInv, StoredInv
  <2>4. votes.says = IF Passes(row, DefaultSpace) THEN "yes" ELSE "no"
    BY <1>1, <2>2, <2>3 DEF LookupInv, ReadersInv
  <2>5. row.score \in 0..100 /\ row.decision \in {"none", "DROP", "REVIEW", "KEEP"}
    BY <2>1 DEF Rows
  <2>6. Passes(row, DefaultSpace) <=> EffectiveDecision(row) # "DROP"
    <3>1. /\ DefaultSpace.scoreThreshold = 70
          /\ DefaultSpace.blockReview = FALSE /\ DefaultSpace.unscoredIsValid = TRUE
      BY DEF DefaultSpace
    <3> HIDE DEF row
    <3>2. CASE row.decision = "none"
      <4>1. row.score < 70 <=> ~(row.score >= 70)  BY <2>5
      <4> QED  BY <3>1, <3>2, <4>1 DEF Passes, EffectiveDecision
    <3>3. CASE row.decision # "none"
      BY <2>5, <3>1, <3>3 DEF Passes, EffectiveDecision
    <3> QED  BY <3>2, <3>3
  <2> QED  BY <2>4, <2>6
<1>2. LookupInv => LookupsAgree
  BY <1>1 DEF LookupInv, AnswersInv, LookupsAgree
<1> QED  BY <1>2, LookupInvariance, PTL
=============================================================================
