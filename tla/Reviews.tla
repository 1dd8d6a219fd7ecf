------------------------------ MODULE Reviews ------------------------------
(* Disputes about the score of an address: the public appeal               *)
(* (routes/appeals.ts), the customer's feedback (routes/feedback.ts), the  *)
(* audit log (services/audit.ts, routes/audit-log.ts) and the notification *)
(* of the analysis' owner (routes/notifications.ts), with the two forms    *)
(* that send them (appeal/page.tsx; FeedbackButtons in the drawer of an    *)
(* analysis' page).  Each handler writes its tables one after the other,   *)
(* with no transaction around them, while workers store newer scores of    *)
(* the same address.                                                       *)
EXTENDS Requests, Integers, Sequences

CONSTANTS
  Analyses,
  OwnerOf,        \* analyses.customer_id
  NoAnalysis,
  MaxTickets      \* bound of the model: appeals and feedback reports

VARIABLES
  scores,         \* address_scores of the address: analyses, newest last
  feedback,       \* rows of feedback
  audit,          \* rows of evidence_audit_log about tickets
  notifications,  \* rows of notifications of kind appeal_received
  tickets,        \* appeals and reports so far: they number the rows
  forms           \* the two forms: whether they wait, and what they say;
                  \*   history: the ticket they wait for

reviewTables == <<feedback, audit, notifications>>
reviewVars == <<requests, scores, reviewTables, tickets, forms>>

Verdicts == {"false_positive", "false_negative", "confirmed"}
VERDICT_TO_EVENT == [false_positive |-> "appealed", false_negative |-> "appealed",
                     confirmed |-> "confirmed"]

Latest == scores[Len(scores)]

NewForm == [busy |-> FALSE, says |-> "nothing", ticket |-> 0]

\* The worker stores the scores of an analysis.
StoreScore(a) ==
  /\ \A i \in DOMAIN scores : scores[i] # a
  /\ scores' = Append(scores, a)
  /\ UNCHANGED <<requests, reviewTables, tickets, forms>>

\* Sent by anyone, or by the form, whose request names its analysis.
Ticket(s, op, analysis, verdict) ==
  /\ tickets < MaxTickets
  /\ tickets' = tickets + 1
  /\ Begins(s, op, "none", [ticket |-> tickets', analysis |-> analysis,
                            verdict |-> verdict])
  /\ \/ UNCHANGED forms
     \/ /\ forms[op].busy /\ forms[op].ticket = 0 /\ analysis # NoAnalysis
        /\ forms' = [forms EXCEPT ![op].ticket = tickets']

\* The reply: r.ok of the form that waits for it.
Confirms(ticket) ==
  forms' = [f \in DOMAIN forms |->
    IF forms[f].ticket = ticket THEN [forms[f] EXCEPT !.busy = FALSE, !.says = "recorded"]
    ELSE forms[f]]

AddFeedback(mine, source) ==
  feedback' = feedback \cup {[ticket |-> mine.ticket, source |-> source,
                              analysis |-> mine.analysis, verdict |-> mine.verdict]}
WriteAudit(mine, analysis, event) ==
  audit' = audit \cup {[ticket |-> mine.ticket, analysis |-> analysis, event |-> event]}

----------------------------------------------------------------------------
(* POST /v1/appeals.                                                       *)

\* 404 when the address has no score.
AppealSelect(s) ==
  /\ scores # << >>
  /\ Ticket(s, "appeal", Latest, "false_positive")
  /\ UNCHANGED <<scores, reviewTables>>

AppealFeedbackConfirms(s) ==
  /\ Reached(s, "appeal", "begun")
  /\ AddFeedback(requests[s].locals, "public_appeal")
  /\ Confirms(requests[s].locals.ticket)
  /\ Continues(s, "audit", requests[s].locals)
  /\ UNCHANGED <<scores, audit, notifications, tickets>>

AppealFeedback(s) ==
  /\ Reached(s, "appeal", "begun")
  /\ AddFeedback(requests[s].locals, "public_appeal")
  /\ Continues(s, "audit", requests[s].locals)
  /\ UNCHANGED <<scores, audit, notifications, tickets, forms>>

AppealAuditOfLatest(s) ==
  /\ Reached(s, "appeal", "audit")
  /\ WriteAudit(requests[s].locals, Latest, "appealed")
  /\ Continues(s, "notify", requests[s].locals)
  /\ UNCHANGED <<scores, feedback, notifications, tickets, forms>>

AppealAudit(s) ==
  /\ Reached(s, "appeal", "audit")
  /\ WriteAudit(requests[s].locals, requests[s].locals.analysis, "appealed")
  /\ Continues(s, "notify", requests[s].locals)
  /\ UNCHANGED <<scores, feedback, notifications, tickets, forms>>

\* createNotification() for the owner, which never changes.
AppealNotify(s) ==
  LET mine == requests[s].locals IN
  /\ Reached(s, "appeal", "notify") /\ Ends(s) /\ Confirms(mine.ticket)
  /\ notifications' = notifications \cup
       {[ticket |-> mine.ticket, customer |-> OwnerOf[mine.analysis], read |-> FALSE]}
  /\ UNCHANGED <<scores, feedback, audit, tickets>>

----------------------------------------------------------------------------
(* POST /v1/feedback.  The analysis is optional; any one that exists will  *)
(* do, an unknown one fails the insert.                                    *)

FeedbackBegins(s) ==
  /\ \E a \in Analyses \cup {NoAnalysis}, verdict \in Verdicts :
       Ticket(s, "feedback", a, verdict)
  /\ UNCHANGED <<scores, reviewTables>>

FeedbackInsert(s) ==
  LET mine == requests[s].locals IN
  /\ Reached(s, "feedback", "begun")
  /\ AddFeedback(mine, "customer")
  /\ IF mine.analysis = NoAnalysis THEN Ends(s) ELSE Continues(s, "audit", mine)
  /\ UNCHANGED <<scores, audit, notifications, tickets, forms>>

FeedbackAudit(s) ==
  LET mine == requests[s].locals IN
  /\ Reached(s, "feedback", "audit") /\ Ends(s) /\ Confirms(mine.ticket)
  /\ WriteAudit(mine, mine.analysis, VERDICT_TO_EVENT[mine.verdict])
  /\ UNCHANGED <<scores, feedback, notifications, tickets>>

----------------------------------------------------------------------------
(* POST /v1/notifications/:id/read and /read-all: one statement each.      *)

MarkRead(rows) ==
  /\ notifications' = {[n EXCEPT !.read = @ \/ n \in rows] : n \in notifications}
  /\ UNCHANGED <<requests, scores, feedback, audit, tickets, forms>>
ReadOne == \E n \in notifications : MarkRead({n})
ReadAll(c) == MarkRead({n \in notifications : n.customer = c})

\* A statement fails, or the process dies.
ReviewsFault ==
  /\ \/ AllLost
     \/ \E s \in Slots : requests[s] # NoRequest /\ Ends(s)
  /\ UNCHANGED <<scores, reviewTables, tickets, forms>>

----------------------------------------------------------------------------
(* The forms.                                                              *)

SetForm(f, form) ==
  /\ forms' = [forms EXCEPT ![f] = form]
  /\ UNCHANGED <<requests, scores, reviewTables, tickets>>

SubmitAppeal ==
  ~forms.appeal.busy /\ SetForm("appeal", [NewForm EXCEPT !.busy = TRUE])

\* The buttons are gone when feedback is recorded.
SubmitFeedback ==
  /\ ~forms.feedback.busy /\ forms.feedback.says # "recorded"
  /\ SetForm("feedback", [NewForm EXCEPT !.busy = TRUE])

\* 400, 401, 404, 429, 500, or a lost reply, of which FeedbackButtons says
\* nothing.
FormFails == \E f \in DOMAIN forms :
  forms[f].busy /\ SetForm(f, [NewForm EXCEPT !.says = "failed"])

\* The page is left, the drawer closed; a request goes on.
LeaveForm == \E f \in DOMAIN forms : forms[f] # NewForm /\ SetForm(f, NewForm)

ReviewsInit ==
  /\ requests = [s \in Slots |-> NoRequest]
  /\ scores = << >> /\ tickets = 0
  /\ forms = [f \in {"appeal", "feedback"} |-> NewForm]
  /\ feedback = {} /\ audit = {} /\ notifications = {}

ReviewsNext ==
  \/ \E a \in Analyses : StoreScore(a)
  \/ \E s \in Slots :
       \/ AppealSelect(s)
       \/ AppealFeedback(s)
       \/ AppealAudit(s)
       \/ AppealNotify(s)
       \/ FeedbackBegins(s)
       \/ FeedbackInsert(s)
       \/ FeedbackAudit(s)
  \/ ReadOne
  \/ \E a \in Analyses : ReadAll(OwnerOf[a])
  \/ ReviewsFault \/ SubmitAppeal \/ SubmitFeedback \/ FormFails \/ LeaveForm

ReviewsSpec == ReviewsInit /\ [][ReviewsNext]_reviewVars

----------------------------------------------------------------------------
\* The three tables tell one story, even when a newer score of the address
\* is stored while the appeal is handled: an audit entry is about the same
\* analysis as the feedback it records, and the one who is notified owns
\* that analysis (appeals.ts:55-87, feedback.ts:21-41).
OneStory ==
  /\ \A e \in audit : \E f \in feedback :
       /\ f.ticket = e.ticket /\ f.analysis = e.analysis
       /\ e.event = VERDICT_TO_EVENT[f.verdict]
  /\ \A n \in notifications : \E e \in audit :
       /\ e.ticket = n.ticket /\ e.event = "appealed"
       /\ OwnerOf[e.analysis] = n.customer

\* What the forms tell is true, whatever failed before or is tried again: an
\* appeal that "a reviewer will examine" has its feedback row, its audit entry
\* and the owner's notification (appeals.ts:55-94, appeal/page.tsx:35), and
\* feedback "logged in the audit trail" is there
\* (analyses/[id]/page.tsx:552-566).
AppealConfirmed ==
  \A f \in DOMAIN forms : forms[f].says = "recorded" =>
    LET mine(rows) == {row \in rows : row.ticket = forms[f].ticket} IN
    /\ mine(feedback) # {} /\ mine(audit) # {}
    /\ f = "appeal" => mine(notifications) # {}
=============================================================================
