-------------------------------- MODULE Team --------------------------------
(* The members of one customer's team and their invites (routes/team.ts):  *)
(* inviting is three statements and so is accepting, with no transaction   *)
(* around them, while members are changed and deleted.                     *)
EXTENDS Requests

CONSTANTS
  Emails,
  MaxRows        \* bound of the model: rows ever inserted per address

VARIABLES
  members,       \* rows of team_members; NoMember where there is none
  invites,       \* the invite of each row; NoInvite where there is none
  inserted       \* per address: rows inserted so far

teamTables == <<members, invites, inserted>>
teamVars == <<requests, teamTables>>

\* A row is named by its address and a number.
Ids == Emails \X (1..MaxRows)
NoMember == [status |-> "none", joined |-> FALSE]
NoInvite == [state |-> "none"]
Present(id) == members[id] # NoMember
MembersAt(e) == {id \in Ids : id[1] = e /\ Present(id)}

----------------------------------------------------------------------------
(* POST /v1/team/invites.                                                  *)

\* 409 when the address has a row, whatever its status.
InviteSelect(s, e) ==
  /\ MembersAt(e) = {}
  /\ Begins(s, "invite", e, << >>)
  /\ UNCHANGED teamTables

\* The address is unique per customer: the insert may still fail.
InsertMember(s) ==
  LET e == requests[s].who
      id == <<e, inserted[e] + 1>>
  IN
  /\ Reached(s, "invite", "begun")
  /\ IF MembersAt(e) # {} THEN Ends(s) /\ UNCHANGED teamTables
     ELSE /\ id \in Ids
          /\ members' = [members EXCEPT ![id] = [status |-> "invited", joined |-> FALSE]]
          /\ inserted' = [inserted EXCEPT ![e] = @ + 1]
          /\ Continues(s, "member", id)
          /\ UNCHANGED invites

\* The row may have been deleted in between: then the insert fails.
InsertInvite(s) ==
  LET id == requests[s].locals IN
  /\ Reached(s, "invite", "member") /\ Ends(s)
  /\ invites' = IF Present(id) THEN [invites EXCEPT ![id] = [state |-> "open"]]
                ELSE invites
  /\ UNCHANGED <<members, inserted>>

----------------------------------------------------------------------------
(* PATCH and DELETE /v1/team/members/:id: one statement each.              *)

PatchMember(id) ==
  /\ Present(id)
  /\ \E status \in {"active", "suspended"} :
       members' = [members EXCEPT ![id].status = status]
  /\ UNCHANGED <<requests, invites, inserted>>

\* The invite goes with the row (ON DELETE CASCADE).
DeleteMember(id) ==
  /\ Present(id)
  /\ members' = [members EXCEPT ![id] = NoMember]
  /\ invites' = [invites EXCEPT ![id] = NoInvite]
  /\ UNCHANGED <<requests, inserted>>

----------------------------------------------------------------------------
(* POST /v1/team/invites/:token/accept.                                    *)

InviteExpires(id) ==
  /\ invites[id].state = "open"
  /\ invites' = [invites EXCEPT ![id].state = "expired"]
  /\ UNCHANGED <<requests, members, inserted>>

\* 404 without the invite, 409 when it was accepted, 410 when it is too old.
AcceptSelect(s, id) ==
  /\ invites[id].state = "open"
  /\ Begins(s, "accept", id[1], id)
  /\ UNCHANGED teamTables

AcceptMark(s) ==
  LET id == requests[s].locals IN
  /\ Reached(s, "accept", "begun")
  /\ invites' = IF invites[id] = NoInvite THEN invites
                ELSE [invites EXCEPT ![id].state = "accepted"]
  /\ Continues(s, "marked", id)
  /\ UNCHANGED <<members, inserted>>

Joins(ids) ==
  members' = [id \in Ids |-> IF id \in ids /\ Present(id)
                             THEN [status |-> "active", joined |-> TRUE] ELSE members[id]]

AcceptActivateByEmail(s) ==
  /\ Reached(s, "accept", "marked") /\ Ends(s)
  /\ Joins(MembersAt(requests[s].who))
  /\ UNCHANGED <<invites, inserted>>

\* The member joins; the audit entry names an analysis that does not exist,
\* so its insert fails and the reply is 500.  404 when the row is gone.
AcceptActivate(s) ==
  /\ Reached(s, "accept", "marked") /\ Ends(s)
  /\ Joins({requests[s].locals})
  /\ UNCHANGED <<invites, inserted>>

----------------------------------------------------------------------------
\* A statement fails, or the process dies: what was written stays.
TeamFault ==
  /\ \/ AllLost
     \/ \E s \in Slots : requests[s] # NoRequest /\ Ends(s)
  /\ UNCHANGED teamTables

TeamInit ==
  /\ requests = [s \in Slots |-> NoRequest]
  /\ members = [id \in Ids |-> NoMember]
  /\ invites = [id \in Ids |-> NoInvite]
  /\ inserted = [e \in Emails |-> 0]

TeamNext ==
  \/ \E s \in Slots :
       \/ \E e \in Emails : InviteSelect(s, e)
       \/ InsertMember(s)
       \/ InsertInvite(s)
       \/ \E id \in Ids : AcceptSelect(s, id)
       \/ AcceptMark(s)
       \/ AcceptActivate(s)
  \/ \E id \in Ids : PatchMember(id) \/ DeleteMember(id) \/ InviteExpires(id)
  \/ TeamFault

TeamSpec == TeamInit /\ [][TeamNext]_teamVars

----------------------------------------------------------------------------
\* Whoever joined did so with the invite of this very row: a token that was
\* handed out for a row since deleted lets nobody in through the row that
\* took its place, however late it is used (team.ts:116-121).
JoinedByOwnInvite ==
  \A id \in Ids : members[id].joined => invites[id].state = "accepted"
=============================================================================
