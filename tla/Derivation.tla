----------------------------- MODULE Derivation -----------------------------
(* Where the lists of genuine addresses come from: the scripts that walk a *)
(* public source (apps/ml/sybilshield/data/derive_*.py).  Two of them take *)
(* hours, append to their list as they go and resume from a checkpoint; two *)
(* write their list at the end.  One script runs at a time, and it may be  *)
(* killed between any two of its steps.  The sources are external.         *)
EXTENDS Integers, Sequences, FiniteSets, SequencesExt

CONSTANTS
  Owners,        \* owners of the registrations, in the subgraph's order
  OwnersPerPage, \* PAGE_SIZE of derive_ens_veterans
  Active, Busy,  \* addresses with 50 and with 200 transactions
  Named,         \* addresses with a reverse record
  Limits,        \* values of --limit
  SaveEvery,     \* 25 in derive_power_users
  Ballots,       \* VoteCast events: [governor, block, voter, proposal]
  Governors,     \* their from_block, in the order of GOVERNORS
  Heads,         \* values of eth_blockNumber
  BlockStep, ShortStep,   \* 50_000 blocks, and 5000 after a refusal
  Cast, CastLater,   \* Snapshot's votes, newest first, and one cast meanwhile
  VotesPerPage, MaxPages, MinVotes, MinSpaces,
  Target,        \* --target
  MaxRuns,       \* bound: scripts started
  NoCheckpoint, TornCheckpoint

ASSUME DerivationAssumption ==
  /\ {OwnersPerPage, SaveEvery, VotesPerPage, BlockStep, ShortStep} \subseteq Nat \ {0}
  /\ Busy \subseteq Active
  /\ Owners \in Seq(Range(Owners)) /\ Cast \in Seq(Range(Cast))
  /\ CastLater \notin Range(Cast)
  /\ Heads \subseteq Int /\ Governors \in Seq(Int) /\ Governors # << >>
  /\ \A v \in Ballots : v.governor \in DOMAIN Governors /\ v.block \in Int

VARIABLES
  lists,       \* the .csv files: made, and their lines
  checkpoints, \* ens.json and power.json
  process,     \* the running script, its list and where it is
  local,       \* its variables, and the lines that it has not flushed
  unanswered,  \* history: what a script could not look up or cut off
  cast,        \* Snapshot's votes so far
  runs         \* scripts started

derivationVars == <<lists, checkpoints, process, local, unanswered, cast, runs>>

Header == "address,chain"
Resumable == {"ens-veterans", "protocol-power-users"}
AtOnce    == {"governance-voters", "snapshot-voters"}

DerivationInit ==
  /\ lists = [l \in Resumable \cup AtOnce |-> [made |-> FALSE, lines |-> << >>]]
  /\ checkpoints = [l \in Resumable |-> NoCheckpoint]
  /\ process = [list |-> "none", at |-> "ended"]
  /\ local = << >> /\ cast = Cast /\ runs = 0
  /\ unanswered = [l \in Resumable \cup AtOnce |-> {}]

(* What csv.DictReader finds: nothing when the header is missing.          *)
Candidates ==
  LET lines == lists["ens-veterans"].lines
  IN IF lines # << >> /\ lines[1] = Header THEN Tail(lines) ELSE << >>

Starts(list, at, variables) ==
  /\ process.at = "ended" /\ runs < MaxRuns
  /\ process' = [list |-> list, at |-> at]
  /\ local' = variables
  /\ runs' = runs + 1
  /\ UNCHANGED <<checkpoints, unanswered, cast>>

At(list, point) == process = [list |-> list, at |-> point]
Goes(point) == process' = [process EXCEPT !.at = point]

Loaded(list) == IF checkpoints[list] = NoCheckpoint THEN [at |-> 0, kept |-> << >>]
                ELSE checkpoints[list]

\* derive() up to its loop: a torn checkpoint raises, and the list is opened
\* for appending.  The header waits in the buffer.
Resumes(list, todo(_)) ==
  /\ checkpoints[list] # TornCheckpoint
  /\ \E limit \in Limits : LET cp == Loaded(list) IN
       Starts(list, "loop",
              [at |-> cp.at, kept |-> cp.kept, seen |-> Range(cp.kept), limit |-> limit,
               index |-> cp.at, todo |-> todo(cp), size |-> 0, closing |-> FALSE,
               buffer |-> IF lists[list].made THEN << >> ELSE <<Header>>])
  /\ lists' = [lists EXCEPT ![list].made = TRUE]

StartVeterans == Resumes("ens-veterans", LAMBDA cp : << >>)
StartPowerUsers ==
  Candidates # << >> /\ Resumes("protocol-power-users",
                                LAMBDA cp : SubSeq(Candidates, cp.at + 1, Len(Candidates)))

Flushed(line) ==
  lists' = [lists EXCEPT ![process.list].lines = @ \o local.buffer \o line]

\* The with statement closes the file, and closing flushes.
Closes == /\ Flushed(<< >>)
          /\ Goes("ended") /\ local' = << >>

Full == Len(local.kept) >= local.limit

KeepUnflushed(a, variables) ==
  /\ local' = [variables EXCEPT !.kept = Append(@, a), !.seen = @ \cup {a},
                                !.buffer = Append(@, a)]
  /\ UNCHANGED lists
\* kept.append(), writerow() and flush().
Keep(a, variables) ==
  /\ Flushed(<<a>>)
  /\ local' = [variables EXCEPT !.kept = Append(@, a), !.seen = @ \cup {a}, !.buffer = << >>]

Passes(variables) == local' = variables /\ UNCHANGED lists

Unanswered(addresses) ==
  unanswered' = [unanswered EXCEPT ![process.list] = @ \cup addresses]

\* _save_checkpoint() opens the file, which empties it, and then writes it.
OpenCheckpoint ==
  /\ checkpoints' = [checkpoints EXCEPT ![process.list] = TornCheckpoint]
  /\ Goes("save")

SaveCheckpoint ==
  /\ process.at = "save"
  /\ checkpoints' = [checkpoints EXCEPT ![process.list] = [at |-> local.at, kept |-> local.kept]]
  /\ IF local.closing THEN Closes ELSE Goes("loop") /\ UNCHANGED <<lists, local>>
  /\ UNCHANGED <<unanswered, cast, runs>>
----------------------------------------------------------------------------
(* derive_ens_veterans: a page of registrations, its owners, a checkpoint. *)

PageOf(source, skip, size) ==
  SubSeq(source, skip + 1, IF skip + size < Len(source) THEN skip + size ELSE Len(source))

FetchRegistrations ==
  /\ At("ens-veterans", "loop") /\ ~Full
  /\ LET page == PageOf(Owners, local.at, OwnersPerPage) IN
       /\ page # << >>
       /\ local' = [local EXCEPT !.todo = page, !.size = Len(page)]
  /\ Goes("owners")
  /\ UNCHANGED <<lists, checkpoints, unanswered, cast, runs>>

\* The limit is reached, the source is at its end, or the request failed.
VeteransEnd == /\ At("ens-veterans", "loop")
               /\ Closes
               /\ UNCHANGED <<checkpoints, unanswered, cast, runs>>

Owner ==
  /\ At("ens-veterans", "owners") /\ local.todo # << >> /\ ~Full
  /\ LET a    == Head(local.todo)
         next == [local EXCEPT !.todo = Tail(@), !.seen = @ \cup {a}]
     IN \/ a \in local.seen /\ Passes(next) /\ UNCHANGED unanswered
        \/ a \notin local.seen /\ Passes(next) /\ Unanswered({a})
        \/ a \in Active \ local.seen /\ Keep(a, next) /\ UNCHANGED unanswered
        \/ a \notin Active \cup local.seen /\ Passes(next) /\ UNCHANGED unanswered
  /\ UNCHANGED <<process, checkpoints, cast, runs>>

PageDone ==
  /\ At("ens-veterans", "owners") /\ (local.todo = << >> \/ Full)
  /\ Unanswered(Range(local.todo))
  /\ local' = [local EXCEPT !.at = @ + local.size, !.todo = << >>,
                            !.closing = local.size < OwnersPerPage]
  /\ OpenCheckpoint
  /\ UNCHANGED <<lists, cast, runs>>
----------------------------------------------------------------------------
(* derive_power_users: one candidate after the other, a checkpoint at some. *)

\* The checkpoint at every 25th candidate, if that one got as far.
SaveAtSome == IF local.index % SaveEvery = 0 THEN OpenCheckpoint
              ELSE UNCHANGED <<process, checkpoints>>

Candidate ==
  /\ At("protocol-power-users", "loop") /\ local.todo # << >> /\ ~Full
  /\ LET a    == Head(local.todo)
         next == [local EXCEPT !.todo = Tail(@), !.index = @ + 1]
         done == [next EXCEPT !.at = next.index]
     IN \/ a \in local.seen /\ Passes(next)
          /\ UNCHANGED <<process, checkpoints, unanswered>>
        \/ a \notin local.seen /\ Passes(done) /\ Unanswered({a})
          /\ UNCHANGED <<process, checkpoints>>
        \/ a \notin local.seen \cup Busy /\ Passes(done)
          /\ UNCHANGED <<process, checkpoints, unanswered>>
        \/ a \in (Busy \cap Named) \ local.seen /\ Keep(a, done) /\ SaveAtSome
          /\ UNCHANGED unanswered
        \/ a \in Busy \ (local.seen \cup Named) /\ Passes(done) /\ SaveAtSome
          /\ UNCHANGED unanswered
        \/ a \in (Busy \cap Named) \ local.seen      \* not ok: taken for no
          /\ Passes(done) /\ SaveAtSome /\ Unanswered({a})
  /\ UNCHANGED <<cast, runs>>

CandidatesDone ==
  /\ At("protocol-power-users", "loop") /\ (local.todo = << >> \/ Full)
  /\ local' = [local EXCEPT !.closing = TRUE]
  /\ OpenCheckpoint
  /\ UNCHANGED <<lists, unanswered, cast, runs>>
----------------------------------------------------------------------------
(* derive_governance_voters: windows of blocks, one governor at a time.    *)

StartGovernance ==
  /\ \E head \in Heads :
       Starts("governance-voters", "scan",
              [governor |-> 1, from |-> Governors[1], head |-> head, tally |-> {},
               buffer |-> << >>])
  /\ UNCHANGED lists

ProposalsOf(voter, tally) == {v.proposal : v \in {w \in tally : w.voter = voter}}
Engaged(tally) == {v \in {w.voter : w \in tally} : Cardinality(ProposalsOf(v, tally)) >= 2}

\* eth_getLogs is inclusive of both ends, and the next window starts after.
Scan ==
  /\ At("governance-voters", "scan") /\ local.from < local.head
  /\ \E to \in {IF local.from + BlockStep < local.head THEN local.from + BlockStep
                                                      ELSE local.head,
                local.from + ShortStep} :
       LET logs == {v \in Ballots : v.governor = local.governor
                                      /\ v.block \in local.from..to}
           tally == local.tally \cup {[voter |-> v.voter,
                                       proposal |-> <<v.governor, v.proposal>>] : v \in logs}
       IN /\ local' = [local EXCEPT !.tally = tally, !.from = to + 1]
          /\ IF Cardinality(Engaged(tally)) >= Target THEN Goes("emit")
                                                      ELSE UNCHANGED process
  /\ UNCHANGED <<lists, checkpoints, unanswered, cast, runs>>

NextGovernor ==
  /\ At("governance-voters", "scan") /\ local.from >= local.head
  /\ IF local.governor = Len(Governors)
       THEN Goes("emit") /\ UNCHANGED local
       ELSE /\ local' = [local EXCEPT !.governor = @ + 1,
                                      !.from = Governors[local.governor + 1]]
            /\ UNCHANGED process
  /\ UNCHANGED <<lists, checkpoints, unanswered, cast, runs>>
----------------------------------------------------------------------------
(* derive_snapshot_voters: pages of a list that grows at its head.         *)

StartSnapshot ==
  /\ Starts("snapshot-voters", "walk",
            [page |-> 0, tally |-> << >>, first |-> cast, buffer |-> << >>])
  /\ UNCHANGED lists

VotesOf(voter, tally) == SelectSeq(tally, LAMBDA v : v.voter = voter)
Prolific(tally) ==
  {v \in {tally[k].voter : k \in DOMAIN tally} :
     LET votes == VotesOf(v, tally) IN
       /\ Len(votes) >= MinVotes
       /\ Cardinality({votes[k].space : k \in DOMAIN votes}) >= MinSpaces}

WalkVotes ==
  /\ At("snapshot-voters", "walk") /\ local.page < MaxPages
  /\ LET page == PageOf(cast, local.page * VotesPerPage, VotesPerPage)
         next == [local EXCEPT !.page = @ + 1, !.tally = @ \o page]
     IN \/ /\ local' = next /\ UNCHANGED unanswered
           /\ IF page = << >> \/ Cardinality(Prolific(next.tally)) >= Target
                THEN Goes("emit") ELSE UNCHANGED process
        \/ /\ local' = [local EXCEPT !.page = @ + 1]
           /\ Unanswered(Range(page)) /\ UNCHANGED process
  /\ UNCHANGED <<lists, checkpoints, cast, runs>>

PagesDone ==
  /\ At("snapshot-voters", "walk") /\ local.page = MaxPages
  /\ Goes("emit")
  /\ UNCHANGED <<lists, checkpoints, local, unanswered, cast, runs>>

VoteCast ==
  /\ Len(cast) = Len(Cast)
  /\ process.list = "snapshot-voters" /\ cast' = <<CastLater>> \o cast
  /\ UNCHANGED <<lists, checkpoints, process, local, unanswered, runs>>
----------------------------------------------------------------------------
\* The list is opened for writing, which empties it, and written whole.
OpenList ==
  /\ process.at = "emit"
  /\ lists' = [lists EXCEPT ![process.list] = [made |-> TRUE, lines |-> << >>]]
  /\ Goes("write")
  /\ UNCHANGED <<checkpoints, local, unanswered, cast, runs>>

WriteList ==
  /\ process.at = "write"
  /\ LET voters == IF process.list = "governance-voters" THEN Engaged(local.tally)
                                                         ELSE Prolific(local.tally)
     IN \E rows \in SetToSeqs(voters) :
          lists' = [lists EXCEPT ![process.list].lines =
                      <<Header>> \o PageOf(rows, 0, Target)]
  /\ Goes("ended") /\ local' = << >>
  /\ UNCHANGED <<checkpoints, unanswered, cast, runs>>

\* The script is killed, or a request raises that nobody catches: at the end
\* scripts have nothing open then, the others lose their buffer.
Killed ==
  /\ process.at # "ended"
  /\ Goes("ended") /\ local' = << >>
  /\ UNCHANGED <<lists, checkpoints, unanswered, cast, runs>>

DerivationNext ==
  \/ StartVeterans \/ FetchRegistrations \/ VeteransEnd \/ Owner \/ PageDone
  \/ StartPowerUsers \/ Candidate \/ CandidatesDone \/ SaveCheckpoint
  \/ StartGovernance \/ Scan \/ NextGovernor
  \/ StartSnapshot \/ WalkVotes \/ PagesDone \/ VoteCast
  \/ OpenList \/ WriteList \/ Killed

DerivationSpec == DerivationInit /\ [][DerivationNext]_derivationVars
----------------------------------------------------------------------------
Wanted(list) == IF list = "ens-veterans" THEN Active ELSE Busy \cap Named
Source(list) == IF list = "ens-veterans" THEN Owners ELSE Candidates

\* A script that resumes has lost nothing (README.md:222 "picks up where it
\* left off"): wherever it was killed, the list holds what the checkpoint
\* has passed, but for addresses whose look-up failed or that --limit cut
\* off.  No vote falls between two windows of blocks, nor, while new ones
\* push the older ones on, between two pages.
NothingPassedOver ==
  /\ \A l \in Resumable : LET cp == Loaded(l) IN
       checkpoints[l] # TornCheckpoint =>
         /\ Range(cp.kept) \subseteq Range(lists[l].lines)
         /\ \A k \in 1..cp.at : LET a == Source(l)[k] IN
              a \in Wanted(l) => \/ a \in Range(lists[l].lines)
                                 \/ a \in unanswered[l]
  /\ At("governance-voters", "scan") =>
       \A v \in Ballots :
         /\ v.block >= Governors[v.governor] /\ v.block < local.head
         /\ \/ v.governor < local.governor
            \/ v.governor = local.governor /\ v.block < local.from
        => [voter |-> v.voter, proposal |-> <<v.governor, v.proposal>>] \in local.tally
  /\ At("snapshot-voters", "walk") =>
       \A k \in DOMAIN cast :
         k <= local.page * VotesPerPage /\ cast[k] \in Range(local.first) =>
           cast[k] \in Range(local.tally) \cup unanswered["snapshot-voters"]
=============================================================================
