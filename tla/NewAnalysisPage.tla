-------------------------- MODULE NewAnalysisPage --------------------------
(* The dashboard's form for a new analysis (dashboard/new/page.tsx): a     *)
(* list of addresses from a file or a text, ENS names among them resolved  *)
(* on demand, and its submission.  Files are read and names resolved while *)
(* the user goes on.                                                       *)
EXTENDS Naturals, Sequences, FiniteSets, SequencesExt

CONSTANTS
  Texts,          \* what files and texts hold: cells in their order
  AddressCells, NameCells,   \* which cells are addresses, which ENS names
  AddressOf,      \* the address that a name resolves to
  Chains,         \* the chains that have a button, among them ethereum
  MAX_ADDRESSES, MAX_ENS_PER_RESOLVE,
  MaxInputs,      \* bound: files chosen and texts pasted
  MaxPosts        \* bound: submissions

ASSUME NewAnalysisAssumption ==
  /\ {MAX_ADDRESSES, MAX_ENS_PER_RESOLVE} \subseteq Nat \ {0}
  /\ NameCells \subseteq DOMAIN AddressOf
  /\ \A text \in Texts : text \in Seq(Range(text))

VARIABLES
  form,        \* the component's state
  readings,    \* texts of the files that are being read
  resolution,  \* the names that are being looked up, if any
  post,        \* "none", or the POST is under way
  sent,        \* history: how many bodies were posted, and the last one
  inputs       \* files chosen and texts pasted

formVars == <<form, readings, resolution, post, sent, inputs>>

Nothing == << >>
FormInit ==
  /\ form = [named |-> FALSE, chains |-> <<"ethereum">>, addresses |-> Nothing,
             candidates |-> Nothing, failed |-> Nothing, resolved |-> 0,
             at |-> "open"]
  /\ readings = {} /\ resolution = Nothing /\ post = "none" 
  /\ sent = [count |-> 0, addresses |-> Nothing, chains |-> Nothing] /\ inputs = 0

\* What a list has at some places, in their order.
At(list, places) ==
  [n \in 1..Cardinality(places) |->
     list[CHOOSE k \in places : Cardinality({j \in places : j < k}) = n - 1]]

\* filter(): the cells of a kind; and the distinct ones, where they come first.
Only(list, kind) == At(list, {k \in DOMAIN list : list[k] \in kind})
Distinct(text, kind) ==
  At(text, {k \in DOMAIN text : text[k] \in kind /\ \A j \in 1..k - 1 : text[j] # text[k]})

ParseAddresses(text)  == Distinct(text, AddressCells)
ExtractEnsNames(text) == Distinct(text, NameCells)
Upto(list, n) == SubSeq(list, 1, IF n < Len(list) THEN n ELSE Len(list))

\* The page is still there while the router loads the next one.
OnScreen == form.at \in {"open", "leaving"}

\* handleFile(): the list stays as it was until the file has been read.
ChooseFile ==
  /\ OnScreen /\ inputs < MaxInputs
  /\ \E text \in Texts : readings' = readings \cup {text}
  /\ inputs' = inputs + 1
  /\ form' = [form EXCEPT !.candidates = Nothing, !.failed = Nothing, !.resolved = 0]
  /\ UNCHANGED <<resolution, post, sent>>

FileRead ==
  /\ \E text \in readings :
       /\ readings' = readings \ {text}
       /\ form' = [form EXCEPT !.addresses = ParseAddresses(text),
                               !.candidates = ExtractEnsNames(text)]
  /\ UNCHANGED <<resolution, post, sent, inputs>>

FileUnreadable ==
  /\ \E text \in readings : readings' = readings \ {text}
  /\ UNCHANGED <<form, resolution, post, sent, inputs>>

HandlePaste ==
  /\ OnScreen /\ inputs < MaxInputs
  /\ \E text \in Texts :
       form' = [form EXCEPT !.addresses = ParseAddresses(text),
                            !.candidates = ExtractEnsNames(text),
                            !.failed = Nothing, !.resolved = 0]
  /\ inputs' = inputs + 1
  /\ UNCHANGED <<readings, resolution, post, sent>>

\* handleResolveEns(): the button is disabled until the answers are there.
ResolveEns ==
  /\ OnScreen /\ form.candidates # Nothing /\ resolution = Nothing
  /\ resolution' = Upto(form.candidates, MAX_ENS_PER_RESOLVE)
  /\ UNCHANGED <<form, readings, post, sent, inputs>>

MergeUnseen(current, resolved) == current \o resolved
Merge(current, resolved) == Distinct(current \o resolved, Range(current \o resolved))

\* GET /v1/resolve/:name: the address in lower case; an error without one,
\* 400, 404, 429, 502, 503 or, five seconds later, 504.
NoAddress == "none"
ResolveReplies(name) == {AddressOf[name], NoAddress}

\* Into the list of now, from the names of then.
EnsResolved ==
  /\ resolution # Nothing
  /\ \E replies \in {r \in [Range(resolution) -> Range(AddressOf) \cup {NoAddress}] :
                       \A n \in DOMAIN r : r[n] \in ResolveReplies(n)} :
       LET found == Only(resolution, {n \in DOMAIN replies : replies[n] # NoAddress}) IN
         form' = [form EXCEPT
           !.addresses  = Merge(@, [k \in DOMAIN found |-> replies[found[k]]]),
           !.resolved   = Len(found),
           !.failed     = Only(resolution, {n \in DOMAIN replies : replies[n] = NoAddress}),
           !.candidates = Only(@, Range(@) \ Range(resolution))]
  /\ resolution' = Nothing
  /\ UNCHANGED <<readings, post, sent, inputs>>

\* toggleChain() and the other inputs.
ToggleChain ==
  /\ OnScreen
  /\ \E c \in Chains :
       form' = [form EXCEPT !.chains = IF c \in Range(@)
                                         THEN Only(@, Range(@) \ {c})
                                         ELSE Append(@, c)]
  /\ UNCHANGED <<readings, resolution, post, sent, inputs>>

Name == /\ OnScreen /\ \E named \in BOOLEAN : form' = [form EXCEPT !.named = named]
        /\ UNCHANGED <<readings, resolution, post, sent, inputs>>

OverLimit == Len(form.addresses) > MAX_ADDRESSES
SubmitEnabled == post = "none" /\ form.addresses # Nothing /\ ~OverLimit

\* submit(): the button's condition, and the checks.
Submit ==
  /\ OnScreen /\ SubmitEnabled /\ sent.count < MaxPosts
  /\ form.named /\ form.chains # Nothing
  /\ post' = "sent"
  /\ sent' = [count |-> sent.count + 1, addresses |-> form.addresses,
              chains |-> form.chains]
  /\ UNCHANGED <<form, readings, resolution, inputs>>

\* Accepted: router.push(), and the finally block enables the button before
\* the next page is there.
Accepted ==
  /\ post = "sent" /\ post' = "none"
  /\ form' = [form EXCEPT !.at = IF @ = "open" THEN "leaving" ELSE @]
  /\ UNCHANGED <<readings, resolution, sent, inputs>>

\* Refused, or the answer is lost: the user may try again.
NotAccepted ==
  /\ post = "sent" /\ post' = "none"
  /\ UNCHANGED <<form, readings, resolution, sent, inputs>>

Navigated ==
  /\ form.at = "leaving" /\ form' = [form EXCEPT !.at = "left"]
  /\ readings' = {} /\ resolution' = Nothing
  /\ UNCHANGED <<post, sent, inputs>>

FormNext ==
  \/ ChooseFile \/ FileRead \/ FileUnreadable \/ HandlePaste
  \/ ResolveEns \/ EnsResolved \/ ToggleChain \/ Name
  \/ Submit \/ Accepted \/ NotAccepted \/ Navigated

FormSpec == FormInit /\ [][FormNext]_formVars
----------------------------------------------------------------------------
HasNoRepeats(list) == Len(list) = Cardinality(Range(list))

\* What is posted is a list of addresses without repeats, as many as the fair
\* use allows and not none, on chains without repeats: the API takes a list
\* as it is, and what is listed twice counts twice for the plan's cap and is
\* stored twice by a cluster_only analysis (analyses.ts:52, cluster-only.ts:70),
\* so the form has to see to it however files, texts and names follow.
SubmittedIsASet ==
  sent.count > 0 => /\ sent.addresses # Nothing /\ HasNoRepeats(sent.addresses)
                    /\ Len(sent.addresses) <= MAX_ADDRESSES
                    /\ sent.chains # Nothing /\ HasNoRepeats(sent.chains)
=============================================================================
