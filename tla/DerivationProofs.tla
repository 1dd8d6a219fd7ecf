-------------------------- MODULE DerivationProofs --------------------------
(* Proofs about the scripts that walk a public source (Derivation), for    *)
(* any source, limit, page size, window and interval of checkpoints, and   *)
(* for any number of kills.  Resuming is safe because a checkpoint says    *)
(* nothing that is not in the list yet, and lists only grow; a scan and a  *)
(* walk lose nothing because the next window begins where the last ended.  *)
EXTENDS Derivation, SequenceTheorems, TLAPS

----------------------------------------------------------------------------
(* Scripts that resume.                                                    *)

Line == {Header} \cup Range(Owners)

Locals == [at : Nat, kept : Seq(Line), seen : SUBSET Line, limit : Limits, index : Nat,
           todo : Seq(Line), size : Nat, closing : BOOLEAN, buffer : Seq(Line)]

Points == [list : {"none"} \cup Resumable \cup AtOnce,
           at : {"ended", "loop", "owners", "save", "scan", "walk", "emit", "write"}]

FilesOK ==
  /\ DOMAIN lists = Resumable \cup AtOnce /\ DOMAIN checkpoints = Resumable
  /\ \A l \in Resumable : lists[l] \in [made : BOOLEAN, lines : Seq(Line)]
  /\ DOMAIN unanswered = Resumable \cup AtOnce

\* A script is at a point of its own.
ProcessOK ==
  /\ process \in Points
  /\ process.at = "owners" => process.list = "ens-veterans"
  /\ process.at \in {"loop", "save"} => process.list \in Resumable
  /\ process.at \in {"emit", "write"} => process.list \in AtOnce
  /\ process.at = "scan" => process.list = "governance-voters"
  /\ process.at = "walk" => process.list = "snapshot-voters"

\* What the list owes to an address of its source: nothing, its line, or the
\* look-up that failed.
Settled(l, a) ==
  a \in Wanted(l) => a \in Range(lists[l].lines) \/ a \in unanswered[l]

\* The first n of the source are settled.
Through(l, n) == n <= Len(Source(l)) /\ \A k \in 1..n : Settled(l, Source(l)[k])

Covered(l, cp) ==
  /\ cp.at \in Nat /\ cp.kept \in Seq(Line)
  /\ Range(cp.kept) \subseteq Range(lists[l].lines)
  /\ Through(l, cp.at)

CheckpointsCover ==
  \A l \in Resumable : checkpoints[l] # TornCheckpoint => Covered(l, Loaded(l))

\* How far a script is in its source, while it goes through it: what is left
\* to do is what comes next there.
Place == IF process.list = "ens-veterans" THEN local.at + local.size - Len(local.todo)
         ELSE local.index

Reading ==
  \/ process.at = "owners"
  \/ process.at # "ended" /\ process.list = "protocol-power-users"

ScriptCovers(l) ==
  /\ local \in Locals
  /\ Covered(l, local)
  /\ \A a \in local.seen : Settled(l, a)
  /\ Reading =>
       /\ Place \in Nat /\ local.at <= Place /\ Through(l, Place)
       /\ Place + Len(local.todo) <= Len(Source(l))
       /\ \A j \in 1..Len(local.todo) : local.todo[j] = Source(l)[Place + j]

RunningCovers ==
  process.list \in Resumable /\ process.at # "ended" => ScriptCovers(process.list)

\* Every list only grows, and with it what is settled.
Grown ==
  /\ FilesOK'
  /\ \A l \in Resumable :
       /\ Range(lists[l].lines) \subseteq Range(lists'[l].lines)
       /\ unanswered[l] \subseteq unanswered'[l]
       /\ Len(Source(l)') \in Nat /\ Len(Source(l)) <= Len(Source(l)')
       /\ \A k \in 1..Len(Source(l)) : Source(l)'[k] = Source(l)[k]

\* What Candidates is: a list of owners, shorter than the file.
LEMMA SourceIs ==
  ASSUME FilesOK, NEW l \in Resumable
  PROVE  Source(l) \in Seq(Line) /\ Len(Source(l)) \in Nat
<1>1. CASE l = "ens-veterans"
  <2>1. Owners \in Seq(Range(Owners))
    BY DerivationAssumption
  <2>2. Owners \in Seq(Line)
    BY <2>1 DEF Line
  <2> QED
    BY <1>1, <2>2, LenProperties DEF Source
<1>2. CASE l # "ens-veterans"
  <2>1. PICK lines \in Seq(Line) : lines = lists["ens-veterans"].lines
    BY DEF FilesOK, Resumable
  <2>2. Source(l) = IF lines # << >> /\ lines[1] = Header THEN Tail(lines) ELSE << >>
    BY <1>2, <2>1 DEF Source, Candidates
  <2>3. lines # << >> => Tail(lines) \in Seq(Line)
    BY HeadTailProperties
  <2>4. Source(l) \in Seq(Line)
    BY <2>2, <2>3, EmptySeq
  <2> QED
    BY <2>4, LenProperties
<1> QED
  BY <1>1, <1>2

\* Lines at the end of a file change nothing of what is before them.
LEMMA Appending ==
  ASSUME FilesOK, NEW m \in Resumable, NEW extra \in Seq(Line), NEW file,
         file \in [made : BOOLEAN, lines : Seq(Line)], file.lines = lists[m].lines \o extra,
         lists' = [lists EXCEPT ![m] = file], DOMAIN checkpoints' = Resumable,
         DOMAIN unanswered' = Resumable \cup AtOnce,
         \A l \in Resumable : unanswered[l] \subseteq unanswered'[l]
  PROVE  /\ Grown
         /\ Range(lists'[m].lines) = Range(lists[m].lines) \cup Range(extra)
<1>1. PICK old : old = lists /\ \A l \in Resumable : old[l].lines \in Seq(Line)
  BY DEF FilesOK
<1>2. /\ \A l \in Resumable : lists'[l] = IF l = m THEN file ELSE lists[l]
      /\ DOMAIN lists' = Resumable \cup AtOnce
  BY DEF FilesOK
<1>3. FilesOK'
  BY <1>2 DEF FilesOK
<1>4. Range(old[m].lines \o extra) = Range(old[m].lines) \cup Range(extra)
  BY <1>1, RangeConcatenation
<1>5. Range(lists'[m].lines) = Range(lists[m].lines) \cup Range(extra)
  BY <1>1, <1>2, <1>4
<1>6. /\ Len(Candidates') \in Nat /\ Len(Candidates) <= Len(Candidates')
      /\ \A k \in 1..Len(Candidates) : Candidates'[k] = Candidates[k]
  <2>1. PICK lines, more : lines = lists["ens-veterans"].lines /\ more = lists'["ens-veterans"].lines
    OBVIOUS
  <2>2. lines \in Seq(Line) /\ more \in Seq(Line)
    BY <1>3, <2>1 DEF FilesOK, Resumable
  <2>3. more = lines \/ more = lines \o extra
    BY <1>2, <2>1 DEF Resumable
  <2>4. /\ Candidates = IF lines # << >> /\ lines[1] = Header THEN Tail(lines) ELSE << >>
        /\ Candidates' = IF more # << >> /\ more[1] = Header THEN Tail(more) ELSE << >>
    BY <2>1 DEF Candidates
  <2>5. CASE lines = << >> \/ lines[1] # Header
    <3>1. Candidates = << >> /\ Len(Candidates) = 0
      BY <2>4, <2>5, EmptySeq
    <3>2. Len(Candidates') \in Nat
      <4>1. more # << >> => Tail(more) \in Seq(Line)
        BY <2>2, HeadTailProperties
      <4>2. Candidates' \in Seq(Line)
        BY <2>4, <4>1, EmptySeq
      <4> QED
        BY <4>2, LenProperties
    <3> QED
      BY <3>1, <3>2
  <2>6. CASE lines # << >> /\ lines[1] = Header
    <3>1. /\ Len(lines) \in Nat /\ Len(lines) >= 1 /\ Len(extra) \in Nat
          /\ Len(more) \in Nat /\ Len(more) >= Len(lines)
          /\ \A k \in 1..Len(lines) : more[k] = lines[k]
      BY <2>2, <2>3, <2>6, LenProperties, ConcatProperties
    <3>2. more # << >> /\ more[1] = Header
      BY <2>2, <2>6, <3>1
    <3>3. /\ Len(Tail(lines)) = Len(lines) - 1 /\ Len(Tail(more)) = Len(more) - 1
          /\ \A k \in 1..(Len(lines) - 1) : Tail(lines)[k] = lines[k + 1]
          /\ \A k \in 1..(Len(more) - 1) : Tail(more)[k] = more[k + 1]
      BY <2>2, <2>6, <3>2, HeadTailProperties
    <3>4. ASSUME NEW k \in 1..(Len(lines) - 1) PROVE Tail(more)[k] = Tail(lines)[k]
      BY <3>1, <3>3
    <3> QED
      BY <2>4, <2>6, <3>1, <3>2, <3>3, <3>4
  <2> QED
    BY <2>5, <2>6
<1>7. ASSUME NEW l \in Resumable
      PROVE  /\ Range(lists[l].lines) \subseteq Range(lists'[l].lines)
             /\ unanswered[l] \subseteq unanswered'[l]
             /\ Len(Source(l)') \in Nat /\ Len(Source(l)) <= Len(Source(l)')
             /\ \A k \in 1..Len(Source(l)) : Source(l)'[k] = Source(l)[k]
  <2>1. Range(lists[l].lines) \subseteq Range(lists'[l].lines)
    BY <1>2, <1>5
  <2>2. /\ Len(Source(l)') \in Nat /\ Len(Source(l)) <= Len(Source(l)')
        /\ \A k \in 1..Len(Source(l)) : Source(l)'[k] = Source(l)[k]
    <3>1. CASE l = "ens-veterans"
      <4>1. Len(Source(l)) \in Nat
        BY SourceIs
      <4> QED
        BY <3>1, <4>1 DEF Source
    <3>2. CASE l # "ens-veterans"
      BY <1>6, <3>2 DEF Source
    <3> QED
      BY <3>1, <3>2
  <2> QED
    BY <2>1, <2>2
<1> QED
  BY <1>3, <1>5, <1>7 DEF Grown

\* A step that leaves the two resumable lists alone.
LEMMA LeavingLists ==
  ASSUME FilesOK, \A l \in Resumable : lists'[l] = lists[l], DOMAIN lists' = DOMAIN lists,
         DOMAIN checkpoints' = Resumable, DOMAIN unanswered' = Resumable \cup AtOnce,
         \A l \in Resumable : unanswered[l] \subseteq unanswered'[l]
  PROVE  Grown
<1>1. FilesOK'
  BY DEF FilesOK
<1>2. Candidates' = Candidates
  BY DEF Candidates, Resumable
<1>3. ASSUME NEW l \in Resumable
      PROVE  Len(Source(l)) \in Nat /\ Source(l)' = Source(l)
  BY <1>2, SourceIs DEF Source
<1> QED
  BY <1>1, <1>3 DEF Grown

LEMMA SettledStays ==
  ASSUME FilesOK, Grown, NEW l \in Resumable
  PROVE  /\ \A a : Settled(l, a) => Settled(l, a)'
         /\ \A n \in Nat : Through(l, n) => Through(l, n)'
<1>1. \A a : Settled(l, a) => Settled(l, a)'
  BY DEF Grown, Settled, Wanted
<1>2. ASSUME NEW n \in Nat, Through(l, n) PROVE Through(l, n)'
  <2>1. Len(Source(l)) \in Nat /\ Len(Source(l)') \in Nat
    BY SourceIs DEF Grown
  <2>2. n <= Len(Source(l)')
    BY <1>2, <2>1 DEF Grown, Through
  <2>3. ASSUME NEW k \in 1..n PROVE Settled(l, Source(l)[k])'
    <3>1. k \in 1..Len(Source(l)) /\ Settled(l, Source(l)[k])
      BY <1>2, <2>1 DEF Through
    <3>2. PICK a : a = Source(l)[k]
      OBVIOUS
    <3>3. Source(l)'[k] = a /\ Settled(l, a)'
      BY <1>1, <3>1, <3>2 DEF Grown
    <3> QED
      BY <3>3 DEF Settled
  <2> QED
    BY <2>2, <2>3 DEF Through
<1> QED
  BY <1>1, <1>2

LEMMA CoveredStays ==
  ASSUME FilesOK, Grown, NEW l \in Resumable, NEW cp, Covered(l, cp)
  PROVE  Covered(l, cp)'
<1>1. cp.at \in Nat /\ Through(l, cp.at) /\ Range(cp.kept) \subseteq Range(lists[l].lines)
  BY DEF Covered
<1>2. PICK n \in Nat : n = cp.at
  BY <1>1
<1>3. Through(l, n)'
  BY <1>1, <1>2, SettledStays
<1> QED
  BY <1>1, <1>2, <1>3 DEF Covered, Grown

\* Checkpoints that a step does not write stay true.
LEMMA CheckpointsStay ==
  ASSUME FilesOK, Grown, CheckpointsCover,
         NEW l \in Resumable, checkpoints'[l] = checkpoints[l]
  PROVE  checkpoints'[l] # TornCheckpoint => Covered(l, Loaded(l))'
<1>1. PICK cp : cp = Loaded(l) /\ cp = Loaded(l)'
  BY DEF Loaded
<1>2. checkpoints[l] # TornCheckpoint => Covered(l, cp)
  BY <1>1 DEF CheckpointsCover
<1>3. checkpoints[l] # TornCheckpoint => Covered(l, cp)'
  BY <1>2, CoveredStays
<1> QED
  BY <1>1, <1>3 DEF Covered

\* A piece of a list.
LEMMA Slice ==
  ASSUME NEW s \in Seq(Line), NEW m \in Nat, NEW n \in Nat, m <= n, n <= Len(s)
  PROVE  /\ SubSeq(s, m + 1, n) \in Seq(Line) /\ Len(SubSeq(s, m + 1, n)) = n - m
         /\ \A j \in 1..(n - m) : SubSeq(s, m + 1, n)[j] = s[m + j]
<1>1. Len(s) \in Nat
  BY LenProperties
<1>2. \A i \in (m + 1)..n : s[i] \in Line
  BY <1>1, ElementOfSeq
<1>3. /\ SubSeq(s, m + 1, n) \in Seq(Line)
      /\ Len(SubSeq(s, m + 1, n)) = IF m + 1 <= n THEN n - (m + 1) + 1 ELSE 0
      /\ \A i \in 1..(n - (m + 1) + 1) : SubSeq(s, m + 1, n)[i] = s[m + 1 + i - 1]
  <2>1. m + 1 \in Int /\ n \in Int
    OBVIOUS
  <2> QED
    BY <1>2, <2>1, SubSeqProperties
<1> QED
  BY <1>3

ResumeInv == FilesOK /\ ProcessOK /\ CheckpointsCover /\ RunningCovers

----------------------------------------------------------------------------
(* The actions of the scripts that resume.                                 *)

\* A script that starts again is where its checkpoint says.
LEMMA StartsCovered ==
  ASSUME ResumeInv, StartVeterans \/ StartPowerUsers
  PROVE  ResumeInv'
<1>1. PICK l, limit, cp :
        /\ l \in Resumable /\ limit \in Limits /\ cp = Loaded(l) /\ checkpoints[l] # TornCheckpoint
        /\ process' = [list |-> l, at |-> "loop"]
        /\ local' = [at |-> cp.at, kept |-> cp.kept, seen |-> Range(cp.kept), limit |-> limit,
                     index |-> cp.at,
                     todo |-> IF l = "ens-veterans" THEN << >>
                              ELSE SubSeq(Candidates, cp.at + 1, Len(Candidates)),
                     size |-> 0, closing |-> FALSE,
                     buffer |-> IF lists[l].made THEN << >> ELSE <<Header>>]
        /\ lists' = [lists EXCEPT ![l].made = TRUE]
        /\ UNCHANGED <<checkpoints, unanswered>>
  <2>1. CASE StartVeterans
    BY <2>1 DEF StartVeterans, Resumes, Starts, Resumable
  <2>2. CASE StartPowerUsers
    BY <2>2 DEF StartPowerUsers, Resumes, Starts, Resumable
  <2> QED
    BY <2>1, <2>2
<1>2. FilesOK /\ ProcessOK /\ CheckpointsCover
  BY DEF ResumeInv
<1>3. Grown
  <2>1. PICK file : file = [lists[l] EXCEPT !.made = TRUE]
    OBVIOUS
  <2>2. lists[l] \in [made : BOOLEAN, lines : Seq(Line)]
    BY <1>1, <1>2 DEF FilesOK
  <2>3. /\ file \in [made : BOOLEAN, lines : Seq(Line)] /\ file.lines = lists[l].lines
    BY <2>1, <2>2
  <2>4. lists[l].lines = lists[l].lines \o << >> /\ << >> \in Seq(Line)
    BY <2>2, ConcatEmptySeq, EmptySeq
  <2>5. lists' = [lists EXCEPT ![l] = file]
    BY <1>1, <2>1
  <2>6. DOMAIN checkpoints' = Resumable /\ DOMAIN unanswered' = Resumable \cup AtOnce
    BY <1>1, <1>2 DEF FilesOK
  <2> QED
    BY <1>1, <1>2, <2>3, <2>4, <2>5, <2>6, Appending
<1>4. CheckpointsCover'
  BY <1>1, <1>2, <1>3, CheckpointsStay DEF CheckpointsCover
<1>5. ProcessOK'
  BY <1>1 DEF ProcessOK, Points
<1>6. Covered(l, cp) /\ Covered(l, cp)'
  BY <1>1, <1>2, <1>3, CoveredStays DEF CheckpointsCover
<1>7. cp.at \in Nat /\ cp.kept \in Seq(Line) /\ cp.at <= Len(Source(l))
  BY <1>6 DEF Covered, Through
<1>8. Source(l) \in Seq(Line) /\ Len(Source(l)) \in Nat
  BY <1>1, <1>2, SourceIs
<1>9. /\ local'.at = cp.at /\ local'.kept = cp.kept /\ local'.seen = Range(cp.kept)
      /\ local'.index = cp.at
  BY <1>1
<1>10. Covered(l, local)'
  BY <1>6, <1>9 DEF Covered
<1>11. ASSUME NEW a \in local'.seen PROVE Settled(l, a)'
  BY <1>6, <1>9 DEF Settled, Covered
<1> DEFINE rest == SubSeq(Source(l), cp.at + 1, Len(Source(l)))
<1>12. /\ rest \in Seq(Line) /\ Len(rest) = Len(Source(l)) - cp.at
       /\ \A j \in 1..Len(rest) : rest[j] = Source(l)[cp.at + j]
  <2>1. PICK s \in Seq(Line) : s = Source(l)
    BY <1>8
  <2>2. PICK m \in Nat : m = cp.at
    BY <1>7
  <2> QED
    BY <1>7, <1>8, <2>1, <2>2, Slice
<1>13. local'.todo = IF l = "ens-veterans" THEN << >> ELSE rest
  BY <1>1 DEF Source
<1> HIDE DEF rest
<1>14. local' \in Locals
  <2>1. Range(cp.kept) \in SUBSET Line
    BY <1>7, RangeOfSeq
  <2>2. local'.todo \in Seq(Line)
    BY <1>12, <1>13, EmptySeq
  <2>3. << >> \in Seq(Line) /\ <<Header>> \in Seq(Line)
    BY EmptySeq DEF Line
  <2> QED
    BY <1>1, <1>7, <2>1, <2>2, <2>3 DEF Locals
<1>15. process.list' = l /\ process.at' = "loop"
  BY <1>1
<1>16. ASSUME Reading'
       PROVE /\ Place' \in Nat /\ local'.at <= Place' /\ Through(l, Place)'
             /\ Place' + Len(local'.todo) <= Len(Source(l)')
             /\ \A j \in 1..Len(local'.todo) : local'.todo[j] = Source(l)'[Place' + j]
  <2>1. l = "protocol-power-users"
    BY <1>15, <1>16 DEF Reading
  <2>2. Place' = cp.at /\ local'.todo = rest
    BY <1>9, <1>13, <1>15, <2>1 DEF Place
  <2>3. Through(l, cp.at)'
    BY <1>6 DEF Covered
  <2>4. Through(l, Place)'
    BY <2>2, <2>3 DEF Through
  <2>5. Len(Source(l)) <= Len(Source(l)') /\ Len(Source(l)') \in Nat
    BY <1>1, <1>3 DEF Grown
  <2>6. ASSUME NEW j \in 1..Len(rest) PROVE rest[j] = Source(l)'[cp.at + j]
    <3>1. cp.at + j \in 1..Len(Source(l))
      BY <1>7, <1>8, <1>12
    <3> QED
      BY <1>1, <1>3, <1>12, <3>1 DEF Grown
  <2> QED
    BY <1>7, <1>8, <1>9, <1>12, <2>2, <2>4, <2>5, <2>6
<1>17. ScriptCovers(l)'
  BY <1>10, <1>11, <1>14, <1>16 DEF ScriptCovers
<1>18. RunningCovers'
  <2>1. ScriptCovers(process.list)'
    BY <1>15, <1>17
  <2> QED
    BY <2>1 DEF RunningCovers
<1> QED
  BY <1>3, <1>4, <1>5, <1>18 DEF ResumeInv, Grown

\* The next of what is left to do has been dealt with.
LEMMA TakesHead ==
  ASSUME ResumeInv, Grown, NEW l \in Resumable, process.list = l, Reading,
         process.at # "ended", local.todo # << >>,
         NEW a, a = Head(local.todo), Settled(l, a)', NEW p, p = Place
  PROVE  /\ a \in Line /\ p \in Nat /\ local.at <= p
         /\ Through(l, p + 1)'
         /\ Tail(local.todo) \in Seq(Line)
         /\ p + 1 + Len(Tail(local.todo)) <= Len(Source(l)')
         /\ \A j \in 1..Len(Tail(local.todo)) : Tail(local.todo)[j] = Source(l)'[p + 1 + j]
<1>1. ScriptCovers(l) /\ FilesOK
  BY DEF ResumeInv, RunningCovers
<1>2. PICK todo \in Seq(Line) : todo = local.todo
  BY <1>1 DEF ScriptCovers, Locals
<1>3. /\ p \in Nat /\ local.at <= p /\ Through(l, p)
      /\ p + Len(todo) <= Len(Source(l))
      /\ \A j \in 1..Len(todo) : todo[j] = Source(l)[p + j]
  BY <1>1, <1>2 DEF ScriptCovers
<1>4. /\ Len(todo) \in Nat /\ Len(todo) >= 1 /\ Head(todo) = todo[1] /\ Head(todo) \in Line
      /\ Tail(todo) \in Seq(Line) /\ Len(Tail(todo)) = Len(todo) - 1
      /\ \A j \in 1..Len(Tail(todo)) : Tail(todo)[j] = todo[j + 1]
  BY <1>2, HeadTailProperties, LenProperties
<1>5. Len(Source(l)) \in Nat /\ Len(Source(l)') \in Nat /\ Len(Source(l)) <= Len(Source(l)')
  BY <1>1, SourceIs DEF Grown
<1>6. Through(l, p)'
  BY <1>1, <1>3, SettledStays
<1>7. a = Source(l)[p + 1] /\ p + 1 \in 1..Len(Source(l))
  BY <1>2, <1>3, <1>4, <1>5
<1>8. a = Source(l)'[p + 1]
  BY <1>7 DEF Grown
<1>9. Through(l, p + 1)'
  <2>1. ASSUME NEW k \in 1..(p + 1) PROVE Settled(l, Source(l)[k])'
    <3>1. CASE k = p + 1
      BY <1>8, <3>1 DEF Settled
    <3>2. CASE k # p + 1
      <4>1. k \in 1..p
        BY <1>3, <3>2
      <4> QED
        BY <1>6, <4>1 DEF Through
    <3> QED
      BY <3>1, <3>2
  <2> QED
    BY <1>3, <1>5, <1>7, <2>1 DEF Through
<1>10. ASSUME NEW j \in 1..Len(Tail(todo)) PROVE Tail(todo)[j] = Source(l)'[p + 1 + j]
  <2>1. j + 1 \in 1..Len(todo) /\ p + (j + 1) \in 1..Len(Source(l))
    BY <1>3, <1>4, <1>5
  <2>2. Tail(todo)[j] = Source(l)[p + (j + 1)]
    BY <1>3, <1>4, <2>1
  <2>3. Tail(todo)[j] = Source(l)'[p + (j + 1)]
    BY <2>1, <2>2 DEF Grown
  <2> QED
    BY <1>3, <2>3
<1>11. p + 1 + Len(Tail(todo)) <= Len(Source(l)')
  BY <1>3, <1>4, <1>5
<1>12. Tail(local.todo) = Tail(todo) /\ a \in Line
  BY <1>2, <1>4
<1> QED
  BY <1>3, <1>4, <1>9, <1>10, <1>11, <1>12

LEMMA Adding ==
  ASSUME NEW s \in Seq(Line), NEW a \in Line
  PROVE  Append(s, a) \in Seq(Line) /\ Range(Append(s, a)) = Range(s) \cup {a}
<1>1. <<a>> \in Seq(Line)
  OBVIOUS
<1>2. Range(<<a>>) = {a}
  BY DEF Range
<1>3. Range(s \o <<a>>) = Range(s) \cup Range(<<a>>)
  BY <1>1, RangeConcatenation
<1> QED
  BY <1>2, <1>3, AppendProperties, AppendIsConcat

\* An address that is kept is in the list at once.
LEMMA KeepsLine ==
  ASSUME ResumeInv, NEW l \in Resumable, process.list = l, process.at # "ended",
         NEW a \in Line, NEW variables \in Locals, variables.kept = local.kept,
         Keep(a, variables), DOMAIN checkpoints' = Resumable, unanswered' = unanswered
  PROVE  /\ Grown /\ a \in Range(lists'[l].lines)
         /\ local' = [variables EXCEPT !.kept = Append(local.kept, a),
                                       !.seen = variables.seen \cup {a}, !.buffer = << >>]
         /\ local' \in Locals
         /\ Range(local'.kept) \subseteq Range(lists'[l].lines)
<1>1. ScriptCovers(l) /\ FilesOK
  BY DEF ResumeInv, RunningCovers
<1>2. PICK lines \in Seq(Line), buffer \in Seq(Line), kept \in Seq(Line) :
        lines = lists[l].lines /\ buffer = local.buffer /\ kept = local.kept
  BY <1>1 DEF ScriptCovers, FilesOK, Locals
<1>3. local' = [variables EXCEPT !.kept = Append(kept, a),
                                 !.seen = variables.seen \cup {a}, !.buffer = << >>]
  BY <1>2 DEF Keep
<1>4. lists' = [lists EXCEPT ![l].lines = (lines \o buffer) \o <<a>>]
  BY <1>2 DEF Keep, Flushed
<1>5. /\ <<a>> \in Seq(Line) /\ buffer \o <<a>> \in Seq(Line)
      /\ (lines \o buffer) \o <<a>> = lines \o (buffer \o <<a>>)
  BY ConcatAssociative, ConcatProperties
<1>6. PICK file : file = [lists[l] EXCEPT !.lines = lines \o (buffer \o <<a>>)]
  OBVIOUS
<1>7. lists[l] \in [made : BOOLEAN, lines : Seq(Line)]
  BY <1>1 DEF FilesOK
<1>8. lines \o (buffer \o <<a>>) \in Seq(Line)
  BY <1>5, ConcatProperties
<1>9. file \in [made : BOOLEAN, lines : Seq(Line)] /\ file.lines = lists[l].lines \o (buffer \o <<a>>)
  BY <1>2, <1>6, <1>7, <1>8
<1>10. lists' = [lists EXCEPT ![l] = file]
  BY <1>4, <1>5, <1>6
<1>11. /\ Grown
       /\ Range(lists'[l].lines) = Range(lines) \cup Range(buffer \o <<a>>)
  <2>1. DOMAIN unanswered' = Resumable \cup AtOnce
    BY <1>1 DEF FilesOK
  <2> QED
    BY <1>1, <1>2, <1>5, <1>9, <1>10, <2>1, Appending
<1>12. Range(buffer \o <<a>>) = Range(buffer) \cup {a}
  <2>1. Range(<<a>>) = {a}
    BY DEF Range
  <2> QED
    BY <1>5, <2>1, RangeConcatenation
<1>13. Append(kept, a) \in Seq(Line) /\ Range(Append(kept, a)) = Range(kept) \cup {a}
  BY Adding
<1>14. local'.kept = Append(kept, a)
  BY <1>3 DEF Locals
<1>15. local' \in Locals
  <2>1. << >> \in Seq(Line) /\ variables.seen \cup {a} \in SUBSET Line
    BY EmptySeq DEF Locals
  <2> QED
    BY <1>3, <1>13, <2>1 DEF Locals
<1>16. Range(kept) \subseteq Range(lines)
  BY <1>1, <1>2 DEF ScriptCovers, Covered
<1> QED
  BY <1>2, <1>3, <1>11, <1>12, <1>13, <1>14, <1>15, <1>16

\* Nothing is written: the list is as it was, what is unanswered may be more.
LEMMA PassesLine ==
  ASSUME ResumeInv, NEW l \in Resumable, process.list = l, NEW a, NEW variables,
         Passes(variables), DOMAIN checkpoints' = Resumable,
         unanswered' = unanswered \/ Unanswered({a})
  PROVE  /\ Grown /\ lists' = lists /\ local' = variables
         /\ Unanswered({a}) => Settled(l, a)'
<1>1. FilesOK
  BY DEF ResumeInv
<1>2. lists' = lists /\ local' = variables
  BY DEF Passes
<1>3. CASE unanswered' = unanswered
  <2>1. Grown
    BY <1>1, <1>2, <1>3, LeavingLists DEF FilesOK
  <2>2. Unanswered({a}) => a \in unanswered'[l]
    BY <1>1 DEF Unanswered, FilesOK
  <2> QED
    BY <1>2, <2>1, <2>2 DEF Settled
<1>4. CASE Unanswered({a})
  <2>1. unanswered' = [unanswered EXCEPT ![l] = unanswered[l] \cup {a}]
    BY <1>4 DEF Unanswered
  <2>2. /\ DOMAIN unanswered' = Resumable \cup AtOnce /\ a \in unanswered'[l]
        /\ \A m \in Resumable : unanswered[m] \subseteq unanswered'[m]
    BY <1>1, <2>1 DEF FilesOK
  <2>3. Grown
    BY <1>1, <1>2, <2>2, LeavingLists DEF FilesOK
  <2> QED
    BY <1>2, <2>2, <2>3 DEF Settled
<1> QED
  BY <1>3, <1>4

\* What is to be shown of a step of a script that resumes.
LEMMA StillResumes ==
  ASSUME ResumeInv, Grown, ProcessOK', NEW l \in Resumable, process'.list = l,
         \A m \in Resumable : checkpoints'[m] \in {checkpoints[m], TornCheckpoint},
         process'.at # "ended" => ScriptCovers(l)'
  PROVE  ResumeInv'
<1>1. CheckpointsCover'
  BY CheckpointsStay DEF ResumeInv, CheckpointsCover
<1>2. RunningCovers'
  <2>1. process'.at # "ended" => ScriptCovers(process.list)'
    OBVIOUS
  <2> QED
    BY <2>1 DEF RunningCovers
<1> QED
  BY <1>1, <1>2 DEF ResumeInv, Grown

\* The addresses of a page, one after the other.
LEMMA OwnerCovers ==
  ASSUME ResumeInv, Owner
  PROVE  ResumeInv'
<1> DEFINE l == "ens-veterans"
<1>1. /\ process.list = l /\ process.at = "owners" /\ process' = process
      /\ local.todo # << >> /\ checkpoints' = checkpoints /\ l \in Resumable
  BY DEF Owner, At, Resumable
<1>2. /\ ScriptCovers(l) /\ FilesOK /\ ProcessOK /\ local \in Locals
      /\ DOMAIN checkpoints' = Resumable
  BY <1>1 DEF ResumeInv, RunningCovers, ScriptCovers, FilesOK
<1>3. PICK a, next :
        /\ a = Head(local.todo)
        /\ next = [local EXCEPT !.todo = Tail(local.todo), !.seen = local.seen \cup {a}]
        /\ \/ a \in local.seen /\ Passes(next) /\ UNCHANGED unanswered
           \/ Passes(next) /\ Unanswered({a})
           \/ Keep(a, next) /\ UNCHANGED unanswered
           \/ a \notin Active \cup local.seen /\ Passes(next) /\ UNCHANGED unanswered
  BY DEF Owner
<1>4. a \in Line /\ Tail(local.todo) \in Seq(Line)
  <2>1. PICK todo \in Seq(Line) : todo = local.todo
    BY <1>2 DEF Locals
  <2> QED
    BY <1>1, <1>3, <2>1, HeadTailProperties
<1>5. /\ next \in Locals /\ next.kept = local.kept /\ next.at = local.at
      /\ next.size = local.size /\ next.todo = Tail(local.todo)
      /\ next.seen = local.seen \cup {a}
  BY <1>2, <1>3, <1>4 DEF Locals
<1>6. /\ Grown /\ Settled(l, a)' /\ local' \in Locals
      /\ local'.at = next.at /\ local'.size = next.size
      /\ local'.todo = next.todo /\ local'.seen = next.seen
      /\ Range(local'.kept) \subseteq Range(lists'[l].lines)
  <2>1. CASE /\ Passes(next) /\ (unanswered' = unanswered \/ Unanswered({a}))
             /\ a \in local.seen \/ Unanswered({a}) \/ a \notin Active
    <3>1. /\ Grown /\ lists' = lists /\ local' = next
          /\ Unanswered({a}) => Settled(l, a)'
      BY <1>1, <1>2, <2>1, PassesLine
    <3>2. a \in local.seen => Settled(l, a)
      BY <1>2 DEF ScriptCovers
    <3>3. Settled(l, a)'
      <4>1. Settled(l, a) => Settled(l, a)'
        BY <1>1, <1>2, <3>1, SettledStays
      <4> QED
        BY <2>1, <3>1, <3>2, <4>1 DEF Settled, Wanted
    <3> QED
      BY <1>2, <1>5, <3>1, <3>3 DEF ScriptCovers, Covered
  <2>2. CASE Keep(a, next) /\ UNCHANGED unanswered
    <3>1. /\ Grown /\ a \in Range(lists'[l].lines) /\ local' \in Locals
          /\ Range(local'.kept) \subseteq Range(lists'[l].lines)
          /\ local' = [next EXCEPT !.kept = Append(local.kept, a),
                                   !.seen = next.seen \cup {a}, !.buffer = << >>]
      BY <1>1, <1>2, <1>4, <1>5, <2>2, KeepsLine
    <3>2. Settled(l, a)'
      BY <3>1 DEF Settled
    <3> QED
      BY <1>5, <3>1, <3>2 DEF Locals
  <2> QED
    BY <1>3, <2>1, <2>2
<1>7. PICK p : p = Place
  OBVIOUS
<1>8. /\ p \in Nat /\ local.at <= p /\ Through(l, p + 1)'
      /\ p + 1 + Len(Tail(local.todo)) <= Len(Source(l)')
      /\ \A j \in 1..Len(Tail(local.todo)) : Tail(local.todo)[j] = Source(l)'[p + 1 + j]
  <2>1. Reading
    BY <1>1 DEF Reading
  <2> QED
    BY <1>1, <1>3, <1>6, <1>7, <2>1, TakesHead
<1>9. Place' = p + 1
  <2>1. PICK todo \in Seq(Line) : todo = local.todo
    BY <1>2 DEF Locals
  <2>2. Len(todo) \in Nat /\ Len(Tail(todo)) = Len(todo) - 1
    BY <1>1, <2>1, HeadTailProperties, LenProperties
  <2>3. local.at \in Nat /\ local.size \in Nat
    BY <1>2 DEF Locals
  <2>4. /\ Place = local.at + local.size - Len(todo)
        /\ Place' = local.at + local.size - Len(Tail(todo))
    BY <1>1, <1>5, <1>6, <2>1 DEF Place
  <2> QED
    <3>1. \A n, m, k \in Nat : n + m - (k - 1) = (n + m - k) + 1
      OBVIOUS
    <3>2. p = local.at + local.size - Len(todo)
      BY <1>7, <2>4
    <3>3. Place' = local.at + local.size - (Len(todo) - 1)
      BY <2>2, <2>4
    <3>4. Place' = (local.at + local.size - Len(todo)) + 1
      BY <2>2, <2>3, <3>1, <3>3
    <3> QED
      BY <3>2, <3>4
<1>10. ScriptCovers(l)'
  <2>1. Covered(l, local)'
    <3>1. Covered(l, local)'  <=> /\ local'.at \in Nat /\ local'.kept \in Seq(Line)
                                  /\ Range(local'.kept) \subseteq Range(lists'[l].lines)
                                  /\ Through(l, local.at)'
      BY <1>5, <1>6 DEF Covered, Through
    <3>2. PICK n \in Nat : n = local.at /\ Through(l, n)
      BY <1>2 DEF ScriptCovers, Covered
    <3>3. Through(l, n)'
      BY <1>1, <1>2, <1>6, <3>2, SettledStays
    <3> QED
      BY <1>5, <1>6, <3>1, <3>2, <3>3 DEF Locals, Through
  <2>2. ASSUME NEW b \in local'.seen PROVE Settled(l, b)'
    <3>1. b = a \/ (b \in local.seen /\ Settled(l, b))
      BY <1>2, <1>5, <1>6, <2>2 DEF ScriptCovers
    <3> QED
      BY <1>1, <1>2, <1>6, <3>1, SettledStays
  <2>3. Through(l, Place)'
    BY <1>8, <1>9 DEF Through
  <2>4. local'.todo = Tail(local.todo) /\ local'.at = local.at
    BY <1>5, <1>6
  <2>5. Place' \in Nat /\ local'.at <= Place'
    BY <1>2, <1>8, <1>9, <2>4 DEF Locals
  <2>6. Place' + Len(local'.todo) <= Len(Source(l)')
    BY <1>8, <1>9, <2>4
  <2>7. \A j \in 1..Len(local'.todo) : local'.todo[j] = Source(l)'[Place' + j]
    BY <1>8, <1>9, <2>4
  <2> QED
    BY <1>6, <2>1, <2>2, <2>3, <2>5, <2>6, <2>7 DEF ScriptCovers
<1>11. ProcessOK'
  BY <1>1, <1>2 DEF ProcessOK
<1> QED
  BY <1>1, <1>6, <1>10, <1>11, StillResumes

\* A script that closes its file leaves what was in the buffer there.
LEMMA ClosesList ==
  ASSUME ResumeInv, NEW l \in Resumable, process.list = l, process.at # "ended",
         Closes, DOMAIN checkpoints' = Resumable, unanswered' = unanswered
  PROVE  Grown /\ process'.list = l /\ process'.at = "ended" /\ ProcessOK'
<1>1. ScriptCovers(l) /\ FilesOK /\ ProcessOK
  BY DEF ResumeInv, RunningCovers
<1>2. PICK lines, buffer : /\ lines \in Seq(Line) /\ buffer \in Seq(Line)
                           /\ lines = lists[l].lines /\ buffer = local.buffer
  BY <1>1 DEF ScriptCovers, FilesOK, Locals
<1>3. lists' = [lists EXCEPT ![l].lines = (lines \o buffer) \o << >>]
  BY <1>2 DEF Closes, Flushed
<1>4. lines \o buffer \in Seq(Line) /\ (lines \o buffer) \o << >> = lines \o buffer
  BY <1>2, ConcatProperties, ConcatEmptySeq
<1>5. PICK file : file = [lists[l] EXCEPT !.lines = lines \o buffer]
  OBVIOUS
<1>6. lists[l] \in [made : BOOLEAN, lines : Seq(Line)]
  BY <1>1 DEF FilesOK
<1>7. file \in [made : BOOLEAN, lines : Seq(Line)] /\ file.lines = lists[l].lines \o buffer
  BY <1>2, <1>4, <1>5, <1>6
<1>8. lists' = [lists EXCEPT ![l] = file]
  BY <1>3, <1>4, <1>5
<1>9. Grown
  <2>1. DOMAIN unanswered' = Resumable \cup AtOnce
    BY <1>1 DEF FilesOK
  <2> QED
    BY <1>1, <1>2, <1>7, <1>8, <2>1, Appending
<1>10. process' = [process EXCEPT !.at = "ended"]
  BY DEF Closes, Goes
<1> QED
  BY <1>1, <1>9, <1>10 DEF ProcessOK, Points

LEMMA FetchCovers ==
  ASSUME ResumeInv, FetchRegistrations
  PROVE  ResumeInv'
<1> DEFINE l == "ens-veterans"
<1>1. /\ process.list = l /\ process.at = "loop" /\ l \in Resumable
      /\ process' = [process EXCEPT !.at = "owners"]
      /\ lists' = lists /\ checkpoints' = checkpoints /\ unanswered' = unanswered
  BY DEF FetchRegistrations, At, Goes, Resumable
<1>2. /\ ScriptCovers(l) /\ FilesOK /\ ProcessOK /\ local \in Locals
      /\ DOMAIN checkpoints' = Resumable
  BY <1>1 DEF ResumeInv, RunningCovers, ScriptCovers, FilesOK
<1>3. Grown
  BY <1>1, <1>2, LeavingLists DEF FilesOK
<1>4. PICK n : n \in Nat /\ n = local.at /\ n <= Len(Source(l)) /\ Through(l, n)
  BY <1>2 DEF ScriptCovers, Covered, Through
<1>5. PICK s : s \in Seq(Line) /\ s = Owners /\ s = Source(l) /\ s = Source(l)'
  BY <1>2, <1>1, SourceIs DEF Source
<1>6. Len(s) \in Nat
  BY <1>5, LenProperties
<1>7. PICK m : /\ m \in Nat /\ n <= m /\ m <= Len(s)
               /\ PageOf(Owners, local.at, OwnersPerPage) = SubSeq(s, n + 1, m)
  <2>1. OwnersPerPage \in Nat
    BY DerivationAssumption
  <2>2. PICK end : end = IF n + OwnersPerPage < Len(s) THEN n + OwnersPerPage ELSE Len(s)
    OBVIOUS
  <2>3. end \in Nat /\ n <= end /\ end <= Len(s)
    BY <1>4, <1>5, <1>6, <2>1, <2>2
  <2>4. PageOf(Owners, local.at, OwnersPerPage) = SubSeq(s, n + 1, end)
    BY <1>4, <1>5, <2>2 DEF PageOf
  <2> QED
    BY <2>3, <2>4
<1>8. PICK page : page = SubSeq(s, n + 1, m)
  OBVIOUS
<1>9. /\ page \in Seq(Line) /\ Len(page) = m - n /\ Len(page) \in Nat
      /\ \A j \in 1..Len(page) : page[j] = s[n + j]
  BY <1>4, <1>5, <1>7, <1>8, Slice
<1>10. local' = [local EXCEPT !.todo = page, !.size = Len(page)]
  BY <1>7, <1>8 DEF FetchRegistrations
<1>11. /\ local' \in Locals /\ local'.at = n /\ local'.kept = local.kept
       /\ local'.seen = local.seen /\ local'.todo = page /\ local'.size = Len(page)
  BY <1>2, <1>4, <1>9, <1>10 DEF Locals
<1>12. Place' = n
  <2>1. Place' = local'.at + local'.size - Len(local'.todo)
    BY <1>1 DEF Place
  <2>2. \A i, j \in Nat : i + j - j = i
    OBVIOUS
  <2> QED
    BY <1>4, <1>9, <1>11, <2>1, <2>2
<1>13. Through(l, n)'
  BY <1>1, <1>2, <1>3, <1>4, SettledStays
<1>14. ScriptCovers(l)'
  <2>1. Covered(l, local)'
    BY <1>1, <1>2, <1>4, <1>11, <1>13 DEF ScriptCovers, Covered, Through
  <2>2. ASSUME NEW b \in local'.seen PROVE Settled(l, b)'
    BY <1>1, <1>2, <1>3, <1>11, <2>2, SettledStays DEF ScriptCovers
  <2>3. Through(l, Place)'
    BY <1>12, <1>13 DEF Through
  <2>4. Place' + Len(local'.todo) <= Len(Source(l)')
    BY <1>4, <1>5, <1>6, <1>7, <1>9, <1>11, <1>12
  <2>5. \A j \in 1..Len(local'.todo) : local'.todo[j] = Source(l)'[Place' + j]
    BY <1>5, <1>9, <1>11, <1>12
  <2>6. Place' \in Nat /\ local'.at <= Place'
    BY <1>4, <1>11, <1>12
  <2> QED
    BY <1>11, <2>1, <2>2, <2>3, <2>4, <2>5, <2>6 DEF ScriptCovers
<1>15. ProcessOK' /\ process'.list = l
  BY <1>1, <1>2 DEF ProcessOK, Points
<1> QED
  BY <1>1, <1>3, <1>14, <1>15, StillResumes

LEMMA VeteransEndCovers ==
  ASSUME ResumeInv, VeteransEnd
  PROVE  ResumeInv'
<1> DEFINE l == "ens-veterans"
<1>1. /\ process.list = l /\ process.at # "ended" /\ l \in Resumable /\ Closes
      /\ checkpoints' = checkpoints /\ unanswered' = unanswered
  BY DEF VeteransEnd, At, Resumable
<1>2. DOMAIN checkpoints' = Resumable
  BY <1>1 DEF ResumeInv, FilesOK
<1>3. Grown /\ process'.list = l /\ process'.at = "ended" /\ ProcessOK'
  BY <1>1, <1>2, ClosesList
<1> QED
  BY <1>1, <1>3, StillResumes

\* At the end of a page its rest is unanswered, and all of it is settled.
LEMMA PageDoneCovers ==
  ASSUME ResumeInv, PageDone
  PROVE  ResumeInv'
<1> DEFINE l == "ens-veterans"
<1>1. /\ process.list = l /\ process.at = "owners" /\ l \in Resumable
      /\ process' = [process EXCEPT !.at = "save"] /\ lists' = lists
      /\ checkpoints' = [checkpoints EXCEPT ![l] = TornCheckpoint]
      /\ unanswered' = [unanswered EXCEPT ![l] = unanswered[l] \cup Range(local.todo)]
      /\ local' = [local EXCEPT !.at = local.at + local.size, !.todo = << >>,
                                !.closing = local.size < OwnersPerPage]
  BY DEF PageDone, At, Goes, Resumable, OpenCheckpoint, Unanswered
<1>2. /\ ScriptCovers(l) /\ FilesOK /\ ProcessOK /\ local \in Locals
  BY <1>1 DEF ResumeInv, RunningCovers, ScriptCovers
<1>3. Grown
  BY <1>1, <1>2, LeavingLists DEF FilesOK
<1>4. PICK todo \in Seq(Line) : todo = local.todo
  BY <1>2 DEF Locals
<1>5. PICK p : p = Place
  OBVIOUS
<1>6. /\ p \in Nat /\ Through(l, p) /\ p + Len(todo) <= Len(Source(l))
      /\ \A j \in 1..Len(todo) : todo[j] = Source(l)[p + j]
  BY <1>1, <1>2, <1>4, <1>5 DEF ScriptCovers, Reading
<1>7. Len(todo) \in Nat /\ Range(todo) = {todo[i] : i \in 1..Len(todo)}
  BY <1>4, LenProperties, RangeEquality
<1>8. Len(Source(l)) \in Nat /\ Source(l)' = Source(l)
  BY <1>1, <1>2, SourceIs DEF Source
<1>9. PICK n : n \in Nat /\ n = local.at + local.size /\ n = p + Len(todo)
  <2>1. local.at \in Nat /\ local.size \in Nat
    BY <1>2 DEF Locals
  <2>2. p = local.at + local.size - Len(todo)
    BY <1>1, <1>4, <1>5 DEF Place
  <2>3. \A i, j, k \in Nat : (i + j - k) + k = i + j /\ i + j \in Nat
    OBVIOUS
  <2> QED
    BY <1>7, <2>1, <2>2, <2>3
<1>10. Through(l, n)'
  <2>1. Through(l, p)'
    BY <1>1, <1>2, <1>3, <1>6, SettledStays
  <2>2. ASSUME NEW k \in 1..n PROVE Settled(l, Source(l)[k])'
    <3>1. CASE k \in 1..p
      BY <2>1, <3>1 DEF Through
    <3>2. CASE k \notin 1..p
      <4>1. k - p \in 1..Len(todo) /\ p + (k - p) = k
        BY <1>6, <1>7, <1>9, <3>2
      <4>2. Source(l)[k] \in Range(todo)
        BY <1>6, <1>7, <4>1
      <4>3. Source(l)'[k] \in unanswered'[l]
        BY <1>1, <1>2, <1>4, <1>8, <4>2 DEF FilesOK
      <4> QED
        BY <4>3 DEF Settled
    <3> QED
      BY <3>1, <3>2
  <2> QED
    BY <1>6, <1>8, <1>9, <2>2 DEF Through
<1>11. /\ local' \in Locals /\ local'.at = n /\ local'.kept = local.kept
       /\ local'.seen = local.seen
  <2>1. << >> \in Seq(Line) /\ (local.size < OwnersPerPage) \in BOOLEAN
    BY EmptySeq
  <2>2. local' = [local EXCEPT !.at = n, !.todo = << >>, !.closing = local.size < OwnersPerPage]
    BY <1>1, <1>9
  <2> QED
    BY <1>2, <1>9, <2>1, <2>2 DEF Locals
<1>12. ScriptCovers(l)'
  <2>1. Covered(l, local)'
    BY <1>1, <1>2, <1>9, <1>10, <1>11 DEF ScriptCovers, Covered, Through
  <2>2. ASSUME NEW b \in local'.seen PROVE Settled(l, b)'
    BY <1>1, <1>2, <1>3, <1>11, <2>2, SettledStays DEF ScriptCovers
  <2>3. ~Reading'
    BY <1>1, <1>2 DEF Reading, ProcessOK, Points
  <2> QED
    BY <1>11, <2>1, <2>2, <2>3 DEF ScriptCovers
<1>13. ProcessOK' /\ process'.list = l
  BY <1>1, <1>2 DEF ProcessOK, Points
<1>14. \A m \in Resumable : checkpoints'[m] \in {checkpoints[m], TornCheckpoint}
  BY <1>1, <1>2 DEF FilesOK
<1> QED
  BY <1>1, <1>3, <1>12, <1>13, <1>14, StillResumes

\* One candidate after the other.
LEMMA CandidateCovers ==
  ASSUME ResumeInv, Candidate
  PROVE  ResumeInv'
<1> DEFINE l == "protocol-power-users"
<1>1. process.list = l /\ process.at = "loop" /\ local.todo # << >> /\ l \in Resumable
  BY DEF Candidate, At, Resumable
<1>2. ScriptCovers(l) /\ FilesOK /\ ProcessOK /\ local \in Locals
  BY <1>1 DEF ResumeInv, RunningCovers, ScriptCovers
<1>3. PICK a, next, done, variables :
        /\ a = Head(local.todo)
        /\ next = [local EXCEPT !.todo = Tail(local.todo), !.index = local.index + 1]
        /\ done = [next EXCEPT !.at = next.index]
        /\ variables \in {next, done}
        /\ \/ a \in local.seen /\ Passes(variables) /\ UNCHANGED unanswered
           \/ Passes(variables) /\ Unanswered({a})
           \/ a \notin Busy \cap Named /\ Passes(variables) /\ UNCHANGED unanswered
           \/ Keep(a, variables) /\ UNCHANGED unanswered
        /\ UNCHANGED <<process, checkpoints>> \/ OpenCheckpoint
  BY DEF Candidate, SaveAtSome
<1>4. /\ DOMAIN checkpoints' = Resumable
      /\ \A m \in Resumable : checkpoints'[m] \in {checkpoints[m], TornCheckpoint}
      /\ ProcessOK' /\ process'.list = l
  BY <1>1, <1>2, <1>3 DEF OpenCheckpoint, FilesOK, ProcessOK, Points, Goes
<1>5. a \in Line /\ Tail(local.todo) \in Seq(Line)
  <2>1. PICK todo \in Seq(Line) : todo = local.todo
    BY <1>2 DEF Locals
  <2> QED
    BY <1>1, <1>3, <2>1, HeadTailProperties
<1>6. local.index \in Nat /\ local.index + 1 \in Nat /\ local.at \in Nat
  BY <1>2 DEF Locals
<1>7. /\ variables \in Locals /\ variables.kept = local.kept /\ variables.seen = local.seen
      /\ variables.index = local.index + 1 /\ variables.todo = Tail(local.todo)
      /\ variables.at \in {local.at, local.index + 1}
  BY <1>2, <1>3, <1>5, <1>6 DEF Locals
<1>8. /\ Grown /\ Settled(l, a)' /\ local' \in Locals
      /\ local'.at = variables.at /\ local'.index = variables.index
      /\ local'.todo = variables.todo
      /\ local'.seen \in {local.seen, local.seen \cup {a}}
      /\ Range(local'.kept) \subseteq Range(lists'[l].lines)
  <2>1. CASE /\ Passes(variables) /\ (unanswered' = unanswered \/ Unanswered({a}))
             /\ a \in local.seen \/ Unanswered({a}) \/ a \notin Busy \cap Named
    <3>1. /\ Grown /\ lists' = lists /\ local' = variables
          /\ Unanswered({a}) => Settled(l, a)'
      BY <1>1, <1>4, <2>1, PassesLine
    <3>2. a \in local.seen => Settled(l, a)
      BY <1>2 DEF ScriptCovers
    <3>3. Settled(l, a)'
      <4>1. Settled(l, a) => Settled(l, a)'
        BY <1>1, <1>2, <3>1, SettledStays
      <4> QED
        BY <2>1, <3>1, <3>2, <4>1 DEF Settled, Wanted
    <3> QED
      BY <1>2, <1>7, <3>1, <3>3 DEF ScriptCovers, Covered
  <2>2. CASE Keep(a, variables) /\ UNCHANGED unanswered
    <3>1. /\ Grown /\ a \in Range(lists'[l].lines) /\ local' \in Locals
          /\ Range(local'.kept) \subseteq Range(lists'[l].lines)
          /\ local' = [variables EXCEPT !.kept = Append(local.kept, a),
                                        !.seen = variables.seen \cup {a}, !.buffer = << >>]
      BY <1>1, <1>4, <1>5, <1>7, <2>2, KeepsLine
    <3>2. Settled(l, a)'
      BY <3>1 DEF Settled
    <3> QED
      BY <1>7, <3>1, <3>2 DEF Locals
  <2> QED
    BY <1>3, <2>1, <2>2
<1>9. PICK p : p = Place /\ p = local.index
  BY <1>1 DEF Place
<1>10. /\ Through(l, p + 1)'
       /\ p + 1 + Len(Tail(local.todo)) <= Len(Source(l)')
       /\ \A j \in 1..Len(Tail(local.todo)) : Tail(local.todo)[j] = Source(l)'[p + 1 + j]
       /\ local.at <= p
  <2>1. Reading
    BY <1>1 DEF Reading
  <2> QED
    BY <1>1, <1>3, <1>8, <1>9, <2>1, TakesHead
<1>11. Place' = p + 1
  <2>1. Place' = local'.index
    BY <1>4 DEF Place
  <2> QED
    BY <1>7, <1>8, <1>9, <2>1
<1>12. ScriptCovers(l)'
  <2>1. Through(l, local.at)'
    <3>1. PICK n : n \in Nat /\ n = local.at /\ Through(l, n)
      BY <1>2 DEF ScriptCovers, Covered
    <3>2. Through(l, n)'
      BY <1>1, <1>2, <1>8, <3>1, SettledStays
    <3>3. PICK m : m = local'.at /\ m \in {n, p + 1}
      BY <1>7, <1>8, <1>9, <3>1
    <3>4. Through(l, m)'
      BY <1>10, <3>2, <3>3
    <3> QED
      BY <3>3, <3>4 DEF Through
  <2>2. Covered(l, local)'
    BY <1>8, <2>1 DEF Covered, Locals
  <2>3. ASSUME NEW b \in local'.seen PROVE Settled(l, b)'
    <3>1. b = a \/ (b \in local.seen /\ Settled(l, b))
      BY <1>2, <1>8, <2>3 DEF ScriptCovers
    <3> QED
      BY <1>1, <1>2, <1>8, <3>1, SettledStays
  <2>4. Through(l, Place)'
    BY <1>10, <1>11 DEF Through
  <2>5. local'.todo = Tail(local.todo) /\ local'.at \in {local.at, p + 1}
    BY <1>7, <1>8, <1>9
  <2>6. Place' \in Nat /\ local'.at <= Place'
    BY <1>6, <1>9, <1>10, <1>11, <2>5
  <2>7. Place' + Len(local'.todo) <= Len(Source(l)')
    BY <1>10, <1>11, <2>5
  <2>8. \A j \in 1..Len(local'.todo) : local'.todo[j] = Source(l)'[Place' + j]
    BY <1>10, <1>11, <2>5
  <2> QED
    BY <1>8, <2>2, <2>3, <2>4, <2>6, <2>7, <2>8 DEF ScriptCovers
<1> QED
  BY <1>1, <1>4, <1>8, <1>12, StillResumes

LEMMA CandidatesDoneCovers ==
  ASSUME ResumeInv, CandidatesDone
  PROVE  ResumeInv'
<1> DEFINE l == "protocol-power-users"
<1>1. /\ process.list = l /\ process.at = "loop" /\ l \in Resumable
      /\ process' = [process EXCEPT !.at = "save"] /\ lists' = lists
      /\ checkpoints' = [checkpoints EXCEPT ![l] = TornCheckpoint]
      /\ unanswered' = unanswered /\ local' = [local EXCEPT !.closing = TRUE]
  BY DEF CandidatesDone, At, Goes, Resumable, OpenCheckpoint
<1>2. /\ ScriptCovers(l) /\ FilesOK /\ ProcessOK /\ local \in Locals
  BY <1>1 DEF ResumeInv, RunningCovers, ScriptCovers
<1>3. Grown
  BY <1>1, <1>2, LeavingLists DEF FilesOK
<1>4. /\ local' \in Locals /\ local'.at = local.at /\ local'.kept = local.kept
      /\ local'.seen = local.seen /\ local'.todo = local.todo /\ local'.index = local.index
  BY <1>1, <1>2 DEF Locals
<1>5. Source(l)' = Source(l) /\ \A b : Settled(l, b) => Settled(l, b)'
  BY <1>1, <1>2, <1>3, SettledStays DEF Source, Candidates
<1>6. Place' = Place
  BY <1>1, <1>2, <1>4 DEF Place, ProcessOK, Points
<1>7. ScriptCovers(l)'
  <2>1. Reading
    BY <1>1 DEF Reading
  <2> QED
    BY <1>1, <1>2, <1>4, <1>5, <1>6, <2>1 DEF ScriptCovers, Covered, Through
<1>8. ProcessOK' /\ process'.list = l
  BY <1>1, <1>2 DEF ProcessOK, Points
<1>9. \A m \in Resumable : checkpoints'[m] \in {checkpoints[m], TornCheckpoint}
  BY <1>1, <1>2 DEF FilesOK
<1> QED
  BY <1>1, <1>3, <1>7, <1>8, <1>9, StillResumes

\* What a checkpoint says when it is written is true.
LEMMA SaveCovers ==
  ASSUME ResumeInv, SaveCheckpoint
  PROVE  ResumeInv'
<1>1. PICK l, saved :
        /\ l \in Resumable /\ process.list = l /\ process.at = "save"
        /\ saved = [at |-> local.at, kept |-> local.kept]
        /\ checkpoints' = [checkpoints EXCEPT ![l] = saved]
        /\ \/ Closes
           \/ /\ process' = [process EXCEPT !.at = "loop"]
              /\ lists' = lists /\ local' = local
        /\ unanswered' = unanswered
  BY DEF SaveCheckpoint, Goes, ResumeInv, ProcessOK
<1>2. /\ ScriptCovers(l) /\ FilesOK /\ ProcessOK /\ local \in Locals /\ CheckpointsCover
  BY <1>1 DEF ResumeInv, RunningCovers, ScriptCovers
<1>3. DOMAIN checkpoints' = Resumable
  BY <1>1, <1>2 DEF FilesOK
<1>4. Grown /\ ProcessOK' /\ process'.list = l
  <2>1. CASE Closes
    BY <1>1, <1>3, <2>1, ClosesList
  <2>2. CASE process' = [process EXCEPT !.at = "loop"] /\ lists' = lists /\ local' = local
    <3>1. Grown
      BY <1>1, <1>2, <1>3, <2>2, LeavingLists DEF FilesOK
    <3> QED
      BY <1>1, <1>2, <2>2, <3>1 DEF ProcessOK, Points
  <2> QED
    BY <1>1, <2>1, <2>2
<1>5. CheckpointsCover'
  <2>1. ASSUME NEW m \in Resumable PROVE checkpoints'[m] # TornCheckpoint => Covered(m, Loaded(m))'
    <3>1. CASE m # l
      <4>1. checkpoints'[m] = checkpoints[m]
        BY <1>1, <1>2, <3>1 DEF FilesOK
      <4> QED
        BY <1>2, <1>4, <4>1, CheckpointsStay
    <3>2. CASE m = l
      <4>1. Covered(l, saved)
        BY <1>1, <1>2 DEF ScriptCovers, Covered
      <4>2. Covered(l, saved)'
        BY <1>1, <1>2, <1>4, <4>1, CoveredStays
      <4>3. checkpoints'[l] = saved
        BY <1>1, <1>2 DEF FilesOK
      <4>4. PICK cp : cp = Loaded(l)'
        OBVIOUS
      <4>5. CASE saved # NoCheckpoint
        BY <3>2, <4>2, <4>3, <4>5 DEF Loaded, Covered
      <4>6. CASE saved = NoCheckpoint
        <5>1. cp.at = 0 /\ cp.kept = << >>
          BY <4>3, <4>4, <4>6 DEF Loaded
        <5>2. << >> \in Seq(Line) /\ Range(<< >>) = {}
          BY EmptySeq DEF Range
        <5>3. Len(Source(l)') \in Nat
          BY <1>1, <1>4 DEF Grown
        <5>4. Covered(l, cp)'
          BY <5>1, <5>2, <5>3 DEF Covered, Through
        <5> QED
          BY <3>2, <4>4, <5>4 DEF Covered
      <4> QED
        BY <4>5, <4>6
    <3> QED
      BY <3>1, <3>2
  <2> QED
    BY <2>1 DEF CheckpointsCover
<1>6. RunningCovers'
  <2>1. CASE Closes
    BY <2>1 DEF Closes, Goes, RunningCovers, ResumeInv, ProcessOK, Points
  <2>2. CASE process' = [process EXCEPT !.at = "loop"] /\ lists' = lists /\ local' = local
    <3>1. /\ Source(l)' = Source(l) /\ \A b : Settled(l, b) => Settled(l, b)'
      BY <1>1, <1>2, <1>4, <2>2, SettledStays DEF Source, Candidates
    <3>2. Place' = Place /\ (Reading' => Reading)
      BY <1>1, <1>2, <2>2 DEF Place, Reading, ProcessOK, Points
    <3>3. ScriptCovers(l)'
      BY <1>1, <1>2, <2>2, <3>1, <3>2 DEF ScriptCovers, Covered, Through
    <3>4. ScriptCovers(process.list)'
      BY <1>4, <3>3
    <3> QED
      BY <3>4 DEF RunningCovers
  <2> QED
    BY <1>1, <2>1, <2>2
<1> QED
  BY <1>4, <1>5, <1>6 DEF ResumeInv, Grown

\* The other scripts and a kill leave files and checkpoints alone.
LEMMA OthersCover ==
  ASSUME ResumeInv, ProcessOK',
         \A l \in Resumable : lists'[l] = lists[l], DOMAIN lists' = DOMAIN lists,
         checkpoints' = checkpoints, DOMAIN unanswered' = Resumable \cup AtOnce,
         \A l \in Resumable : unanswered[l] \subseteq unanswered'[l],
         process'.list \notin Resumable \/ process'.at = "ended"
  PROVE  ResumeInv'
<1>1. Grown
  BY LeavingLists DEF ResumeInv, FilesOK
<1>2. CheckpointsCover'
  BY <1>1, CheckpointsStay DEF ResumeInv, CheckpointsCover
<1> QED
  BY <1>1, <1>2 DEF ResumeInv, Grown, RunningCovers

----------------------------------------------------------------------------
(* Windows of blocks and pages of votes.                                   *)

\* Blocks that the scan has passed are counted, of earlier governors all.
Scanned(governor, from) ==
  \A v \in Ballots :
    /\ v.block >= Governors[v.governor] /\ v.block < local.head
    /\ v.governor < governor \/ (v.governor = governor /\ v.block < from)
    => [voter |-> v.voter, proposal |-> <<v.governor, v.proposal>>] \in local.tally

ScanCovers ==
  At("governance-voters", "scan") =>
    /\ DOMAIN local = {"governor", "from", "head", "tally", "buffer"}
    /\ local.governor \in DOMAIN Governors /\ local.from \in Int /\ local.head \in Int
    /\ Scanned(local.governor, local.from)

\* Snapshot's list has grown at its head or not, and it had not when a walk
\* that is under way saw no newer vote.
CastOK == cast \in {Cast, <<CastLater>> \o Cast}

WalkCovers ==
  At("snapshot-voters", "walk") =>
    /\ DOMAIN local = {"page", "tally", "first", "buffer"}
    /\ local.page \in Nat /\ local.tally \in Seq(Range(Cast) \cup {CastLater})
    /\ cast = Cast => local.first = Cast
    /\ \A k \in DOMAIN cast :
         k <= local.page * VotesPerPage /\ cast[k] \in Range(local.first) =>
           cast[k] \in Range(local.tally) \cup unanswered["snapshot-voters"]

DerivationInv == ResumeInv /\ ScanCovers /\ CastOK /\ WalkCovers

LEMMA CastIs ==
  ASSUME CastOK
  PROVE  /\ Cast \in Seq(Range(Cast) \cup {CastLater})
         /\ cast \in Seq(Range(Cast) \cup {CastLater})
         /\ Len(Cast) \in Nat /\ Len(cast) = Len(Cast) => cast = Cast
<1>1. Cast \in Seq(Range(Cast) \cup {CastLater})
  <2>1. Cast \in Seq(Range(Cast))
    BY DerivationAssumption
  <2> QED
    BY <2>1, SeqMonotonic
<1>2. <<CastLater>> \in Seq(Range(Cast) \cup {CastLater}) /\ Len(<<CastLater>>) = 1
  OBVIOUS
<1>3. /\ <<CastLater>> \o Cast \in Seq(Range(Cast) \cup {CastLater})
      /\ Len(<<CastLater>> \o Cast) = 1 + Len(Cast) /\ Len(Cast) \in Nat
  BY <1>1, <1>2, ConcatProperties, LenProperties
<1>4. Len(Cast) \in Nat /\ (Len(<<CastLater>> \o Cast) = Len(Cast) => FALSE)
  BY <1>3
<1> QED
  BY <1>1, <1>3, <1>4 DEF CastOK

LEMMA ScanStarts ==
  ASSUME DerivationInv, StartGovernance
  PROVE  ScanCovers'
<1>1. PICK head \in Heads :
        local' = [governor |-> 1, from |-> Governors[1], head |-> head, tally |-> {},
                  buffer |-> << >>]
  BY DEF StartGovernance, Starts
<1>2. DOMAIN Governors = 1..Len(Governors) /\ Len(Governors) \in Nat /\ Len(Governors) >= 1
  BY DerivationAssumption, LenProperties
<1>3. Governors[1] \in Int /\ head \in Int
  BY <1>2, DerivationAssumption, ElementOfSeq
<1>4. ASSUME NEW v \in Ballots, v.block >= Governors[v.governor],
             v.governor < 1 \/ (v.governor = 1 /\ v.block < Governors[1])
      PROVE  FALSE
  <2>1. v.governor \in 1..Len(Governors) /\ v.block \in Int
    BY <1>2, DerivationAssumption
  <2> QED
    BY <1>2, <1>3, <1>4, <2>1
<1> QED
  BY <1>1, <1>2, <1>3, <1>4 DEF ScanCovers, Scanned

LEMMA ScanSteps ==
  ASSUME DerivationInv, Scan
  PROVE  ScanCovers'
<1>1. /\ DOMAIN local = {"governor", "from", "head", "tally", "buffer"}
      /\ local.governor \in DOMAIN Governors /\ local.from \in Int /\ local.head \in Int
      /\ Scanned(local.governor, local.from)
  BY DEF DerivationInv, ScanCovers, Scan
<1>2. PICK to : /\ to \in {IF local.from + BlockStep < local.head THEN local.from + BlockStep
                                                              ELSE local.head,
                           local.from + ShortStep}
                /\ local' = [local EXCEPT
                     !.tally = local.tally \cup
                        {[voter |-> v.voter, proposal |-> <<v.governor, v.proposal>>] :
                           v \in {w \in Ballots : w.governor = local.governor
                                                    /\ w.block \in local.from..to}},
                     !.from = to + 1]
  BY DEF Scan
<1>3. to \in Int
  BY <1>1, <1>2, DerivationAssumption
<1>t. PICK tally : tally = local.tally \cup
                     {[voter |-> v.voter, proposal |-> <<v.governor, v.proposal>>] :
                        v \in {w \in Ballots : w.governor = local.governor
                                                 /\ w.block \in local.from..to}}
  OBVIOUS
<1>4. /\ DOMAIN local' = DOMAIN local /\ local'.governor = local.governor
      /\ local'.head = local.head /\ local'.from = to + 1 /\ local'.tally = tally
  BY <1>1, <1>2, <1>t
<1>5. ASSUME NEW v \in Ballots, v.block >= Governors[v.governor], v.block < local.head,
             v.governor < local.governor \/ (v.governor = local.governor /\ v.block < to + 1)
      PROVE  [voter |-> v.voter, proposal |-> <<v.governor, v.proposal>>] \in tally
  <2>1. v.block \in Int
    BY DerivationAssumption
  <2>2. CASE v.governor < local.governor \/ (v.governor = local.governor /\ v.block < local.from)
    BY <1>1, <1>5, <1>t, <2>2 DEF Scanned
  <2>3. CASE v.governor = local.governor /\ v.block \in local.from..to
    BY <1>t, <2>3
  <2> QED
    BY <1>1, <1>3, <1>5, <2>1, <2>2, <2>3
<1>6. Scanned(local.governor, local.from)'
  BY <1>4, <1>5 DEF Scanned
<1> QED
  BY <1>1, <1>3, <1>4, <1>6 DEF ScanCovers, Scanned

LEMMA ScanMovesOn ==
  ASSUME DerivationInv, NextGovernor
  PROVE  ScanCovers'
<1>1. /\ DOMAIN local = {"governor", "from", "head", "tally", "buffer"}
      /\ local.governor \in DOMAIN Governors /\ local.from \in Int /\ local.head \in Int
      /\ Scanned(local.governor, local.from) /\ local.from >= local.head
  BY DEF DerivationInv, ScanCovers, NextGovernor
<1>2. DOMAIN Governors = 1..Len(Governors) /\ Len(Governors) \in Nat
  BY DerivationAssumption, LenProperties
<1>3. CASE local.governor = Len(Governors)
  BY <1>3 DEF NextGovernor, Goes, ScanCovers, At, DerivationInv, ResumeInv, ProcessOK, Points
<1>4. CASE local.governor # Len(Governors)
  <2>1. local' = [local EXCEPT !.governor = local.governor + 1,
                               !.from = Governors[local.governor + 1]]
    BY <1>4 DEF NextGovernor
  <2>2. /\ DOMAIN local' = DOMAIN local /\ local'.governor = local.governor + 1
        /\ local'.head = local.head /\ local'.from = Governors[local.governor + 1]
        /\ local'.tally = local.tally
    BY <1>1, <2>1
  <2>3. local.governor + 1 \in DOMAIN Governors /\ Governors[local.governor + 1] \in Int
    BY <1>1, <1>2, <1>4, DerivationAssumption, ElementOfSeq
  <2>4. ASSUME NEW v \in Ballots, v.block >= Governors[v.governor], v.block < local.head,
               \/ v.governor < local.governor + 1
               \/ v.governor = local.governor + 1 /\ v.block < Governors[local.governor + 1]
        PROVE  [voter |-> v.voter, proposal |-> <<v.governor, v.proposal>>] \in local.tally
    <3>1. v.governor \in 1..Len(Governors) /\ v.block \in Int /\ local.governor \in 1..Len(Governors)
      BY <1>1, <1>2, DerivationAssumption
    <3>2. v.governor < local.governor \/ (v.governor = local.governor /\ v.block < local.from)
      BY <1>1, <1>2, <2>3, <2>4, <3>1
    <3> QED
      BY <1>1, <2>4, <3>2 DEF Scanned
  <2>5. Scanned(local.governor, local.from)'
    BY <2>2, <2>4 DEF Scanned
  <2> QED
    BY <1>1, <2>2, <2>3, <2>5 DEF ScanCovers, Scanned
<1> QED
  BY <1>3, <1>4

LEMMA WalkStarts ==
  ASSUME DerivationInv, StartSnapshot
  PROVE  WalkCovers'
<1>1. local' = [page |-> 0, tally |-> << >>, first |-> cast, buffer |-> << >>] /\ cast' = cast
  BY DEF StartSnapshot, Starts
<1>2. << >> \in Seq(Range(Cast) \cup {CastLater})
  BY EmptySeq
<1>3. VotesPerPage \in Nat /\ 0 * VotesPerPage = 0
  BY DerivationAssumption
<1>4. ASSUME NEW k \in DOMAIN cast PROVE ~(k <= 0)
  BY CastIs, LenProperties DEF DerivationInv
<1> QED
  BY <1>1, <1>2, <1>3, <1>4 DEF WalkCovers

LEMMA WalkSteps ==
  ASSUME DerivationInv, WalkVotes
  PROVE  WalkCovers'
<1>1. /\ DOMAIN local = {"page", "tally", "first", "buffer"}
      /\ local.page \in Nat /\ local.tally \in Seq(Range(Cast) \cup {CastLater})
      /\ cast = Cast => local.first = Cast
      /\ \A k \in DOMAIN cast :
           k <= local.page * VotesPerPage /\ cast[k] \in Range(local.first) =>
             cast[k] \in Range(local.tally) \cup unanswered["snapshot-voters"]
  BY DEF DerivationInv, WalkCovers, WalkVotes
<1>2. PICK votes : votes \in Seq(Range(Cast) \cup {CastLater}) /\ votes = cast
  BY CastIs DEF DerivationInv
<1>m. PICK m : /\ m = local.page * VotesPerPage /\ m \in Nat /\ VotesPerPage \in Nat
                /\ (local.page + 1) * VotesPerPage = m + VotesPerPage
  BY <1>1, DerivationAssumption
<1>3. m \in Nat /\ VotesPerPage \in Nat
  BY <1>m
<1>4. Len(votes) \in Nat /\ DOMAIN votes = 1..Len(votes)
  BY <1>2, LenProperties
<1>5. PICK page : page = PageOf(cast, local.page * VotesPerPage, VotesPerPage)
  OBVIOUS
<1>6. PICK end : end = IF m + VotesPerPage < Len(votes) THEN m + VotesPerPage ELSE Len(votes)
  OBVIOUS
<1>7. end \in Nat /\ end <= Len(votes) /\ page = SubSeq(votes, m + 1, end)
  <2>1. end \in Nat /\ end <= Len(votes)
    <3>1. \A i, j, n \in Nat : LET e == IF i + j < n THEN i + j ELSE n IN e \in Nat /\ e <= n
      OBVIOUS
    <3> QED
      BY <1>3, <1>4, <1>6, <3>1
  <2>2. \A n : PageOf(votes, n, VotesPerPage) =
          SubSeq(votes, n + 1, IF n + VotesPerPage < Len(votes) THEN n + VotesPerPage ELSE Len(votes))
    BY DEF PageOf
  <2>3. page = PageOf(votes, m, VotesPerPage)
    BY <1>2, <1>m, <1>5
  <2> QED
    BY <1>6, <2>1, <2>2, <2>3
<1>8. /\ page \in Seq(Range(Cast) \cup {CastLater})
      /\ \A k \in (m + 1)..end : votes[k] \in Range(page)
  <2>1. \A i \in (m + 1)..end : votes[i] \in Range(Cast) \cup {CastLater}
    <3>1. ASSUME NEW i \in (m + 1)..end PROVE i \in 1..Len(votes)
      BY <1>3, <1>4, <1>7, <3>1
    <3> QED
      BY <1>2, <3>1, ElementOfSeq
  <2>2. /\ page \in Seq(Range(Cast) \cup {CastLater})
        /\ Len(page) = IF m + 1 <= end THEN end - (m + 1) + 1 ELSE 0
        /\ \A i \in 1..(end - (m + 1) + 1) : page[i] = votes[m + 1 + i - 1]
    <3>1. m + 1 \in Int /\ end \in Int
      BY <1>3, <1>7
    <3> QED
      BY <1>7, <2>1, <3>1, SubSeqProperties
  <2>3. ASSUME NEW k \in (m + 1)..end PROVE votes[k] \in Range(page)
    <3>1. /\ k - m \in 1..(end - (m + 1) + 1) /\ k - m \in 1..Len(page)
          /\ m + 1 + (k - m) - 1 = k
      <4>1. PICK j : j = k - m /\ j \in Int /\ m + 1 <= k /\ k <= end /\ k \in Int
        BY <1>3, <1>7, <2>3
      <4>2. j \in 1..(end - (m + 1) + 1) /\ m + 1 <= end
        BY <1>3, <1>7, <4>1
      <4> QED
        BY <1>3, <1>7, <2>2, <4>1, <4>2
    <3>2. page[k - m] = votes[k]
      BY <2>2, <3>1
    <3>3. Range(page) = {page[i] : i \in 1..Len(page)}
      BY <2>2, RangeEquality
    <3> QED
      BY <3>1, <3>2, <3>3
  <2> QED
    BY <2>2, <2>3
<1>9. /\ cast' = cast
      /\ \/ /\ local' = [local EXCEPT !.page = local.page + 1, !.tally = local.tally \o page]
            /\ unanswered' = unanswered
         \/ /\ local' = [local EXCEPT !.page = local.page + 1]
            /\ unanswered' = [unanswered EXCEPT !["snapshot-voters"] = @ \cup Range(page)]
  BY <1>5 DEF WalkVotes, Unanswered, At
<1>10. /\ DOMAIN local' = DOMAIN local /\ local'.page = local.page + 1
       /\ local'.first = local.first
       /\ local'.tally \in {local.tally, local.tally \o page}
  BY <1>1, <1>9
<1>11. /\ local.tally \o page \in Seq(Range(Cast) \cup {CastLater})
       /\ Range(local.tally \o page) = Range(local.tally) \cup Range(page)
  <2>1. PICK s : s \in Seq(Range(Cast) \cup {CastLater}) /\ s = local.tally
    BY <1>1
  <2> QED
    BY <1>8, <2>1, ConcatProperties, RangeConcatenation
<1>12. "snapshot-voters" \in DOMAIN unanswered
  BY DEF DerivationInv, ResumeInv, FilesOK, AtOnce
<1>13. /\ Range(local.tally) \cup unanswered["snapshot-voters"]
            \subseteq Range(local'.tally) \cup unanswered'["snapshot-voters"]
       /\ Range(page) \subseteq Range(local'.tally) \cup unanswered'["snapshot-voters"]
  <2>1. CASE /\ local' = [local EXCEPT !.page = local.page + 1, !.tally = local.tally \o page]
             /\ unanswered' = unanswered
    <3>1. local'.tally = local.tally \o page
      BY <1>1, <2>1
    <3> QED
      BY <1>11, <2>1, <3>1
  <2>2. CASE /\ local' = [local EXCEPT !.page = local.page + 1]
             /\ unanswered' = [unanswered EXCEPT !["snapshot-voters"] = @ \cup Range(page)]
    <3>1. local'.tally = local.tally
      BY <1>1, <2>2
    <3> QED
      BY <1>12, <2>2, <3>1
  <2> QED
    BY <1>9, <2>1, <2>2
<1>14. ASSUME NEW k \in DOMAIN cast, k <= local'.page * VotesPerPage,
              cast[k] \in Range(local.first)
       PROVE  cast[k] \in Range(local'.tally) \cup unanswered'["snapshot-voters"]
  <2>1. k \in 1..Len(votes) /\ k <= m + VotesPerPage
    BY <1>2, <1>m, <1>4, <1>10, <1>14
  <2>2. CASE k <= m
    BY <1>1, <1>m, <1>13, <1>14, <2>2
  <2>3. CASE ~(k <= m)
    <3>1. k \in (m + 1)..end
      <4>1. end = m + VotesPerPage \/ end = Len(votes)
        BY <1>6
      <4> QED
        BY <1>3, <1>4, <2>1, <2>3, <4>1
    <3> QED
      BY <1>2, <1>8, <1>13, <3>1
  <2> QED
    BY <2>2, <2>3
<1>15. local'.page \in Nat /\ local'.tally \in Seq(Range(Cast) \cup {CastLater})
  <2>1. local.page + 1 \in Nat
    BY <1>1
  <2>2. local'.tally = local.tally \/ local'.tally = local.tally \o page
    BY <1>10
  <2> QED
    BY <1>1, <1>10, <1>11, <2>1, <2>2
<1> QED
  BY <1>1, <1>9, <1>10, <1>14, <1>15 DEF WalkCovers

\* A new vote at the head pushes the others one place on, away from the
\* pages that have been read.
LEMMA VoteComes ==
  ASSUME DerivationInv, VoteCast
  PROVE  CastOK' /\ WalkCovers'
<1>1. /\ cast' = <<CastLater>> \o cast /\ local' = local /\ process' = process
      /\ unanswered' = unanswered /\ cast = Cast
  BY CastIs DEF VoteCast, DerivationInv
<1>2. CASE ~At("snapshot-voters", "walk")
  BY <1>1, <1>2 DEF CastOK, WalkCovers, At
<1>3. CASE At("snapshot-voters", "walk")
  <2>1. /\ DOMAIN local = {"page", "tally", "first", "buffer"}
        /\ local.page \in Nat /\ local.tally \in Seq(Range(Cast) \cup {CastLater})
        /\ local.first = Cast
        /\ \A k \in DOMAIN Cast :
             k <= local.page * VotesPerPage /\ Cast[k] \in Range(Cast) =>
               Cast[k] \in Range(local.tally) \cup unanswered["snapshot-voters"]
    BY <1>1, <1>3 DEF DerivationInv, WalkCovers
  <2>2. PICK m : m = local.page * VotesPerPage /\ m \in Nat
    BY <2>1, DerivationAssumption
  <2>3. /\ Cast \in Seq(Range(Cast) \cup {CastLater}) /\ Len(Cast) \in Nat
        /\ <<CastLater>> \in Seq(Range(Cast) \cup {CastLater}) /\ Len(<<CastLater>>) = 1
        /\ DOMAIN Cast = 1..Len(Cast)
    BY CastIs, LenProperties DEF DerivationInv
  <2>4. /\ cast' \in Seq(Range(Cast) \cup {CastLater}) /\ Len(cast') = 1 + Len(Cast)
        /\ \A i \in 1..(1 + Len(Cast)) : cast'[i] = IF i <= 1 THEN <<CastLater>>[i] ELSE Cast[i - 1]
    BY <1>1, <2>3, ConcatProperties
  <2>5. ASSUME NEW k \in DOMAIN cast', k <= m, cast'[k] \in Range(Cast)
        PROVE  cast'[k] \in Range(local.tally) \cup unanswered["snapshot-voters"]
    <3>1. k \in 1..(1 + Len(Cast))
      BY <2>4, LenProperties
    <3>2. CASE k = 1
      <4>1. cast'[1] = CastLater
        BY <2>3, <2>4, <3>1, <3>2
      <4> QED
        BY <2>5, <3>2, <4>1, DerivationAssumption
    <3>3. CASE k # 1
      <4>1. k - 1 \in 1..Len(Cast) /\ k - 1 <= m /\ cast'[k] = Cast[k - 1]
        BY <2>2, <2>3, <2>4, <2>5, <3>1, <3>3
      <4> QED
        BY <2>1, <2>2, <2>3, <2>5, <4>1
    <3> QED
      BY <3>2, <3>3
  <2>6. cast' # Cast
    BY <2>3, <2>4
  <2> QED
    BY <1>1, <2>1, <2>2, <2>5, <2>6 DEF CastOK, WalkCovers
<1> QED
  BY <1>2, <1>3

----------------------------------------------------------------------------
(* All scripts.                                                            *)

\* The scripts that write at the end leave lists and checkpoints alone.
LEMMA AtOnceCovers ==
  ASSUME ResumeInv,
         \/ StartGovernance \/ Scan \/ NextGovernor \/ StartSnapshot \/ WalkVotes
         \/ PagesDone \/ VoteCast \/ OpenList \/ WriteList \/ Killed
  PROVE  ResumeInv'
<1>1. FilesOK /\ ProcessOK
  BY DEF ResumeInv
<1>2. CASE StartGovernance \/ StartSnapshot
  BY <1>1, <1>2, OthersCover DEF StartGovernance, StartSnapshot, Starts, ProcessOK, Points,
     FilesOK, Resumable, AtOnce
<1>3. CASE Scan \/ NextGovernor
  <2>1. /\ process.list = "governance-voters" /\ lists' = lists /\ checkpoints' = checkpoints
        /\ unanswered' = unanswered
        /\ process' = process \/ process' = [process EXCEPT !.at = "emit"]
    BY <1>3 DEF Scan, NextGovernor, At, Goes
  <2> QED
    BY <1>1, <2>1, OthersCover DEF ProcessOK, Points, FilesOK, Resumable, AtOnce
<1>4. CASE WalkVotes \/ PagesDone \/ VoteCast
  <2>1. /\ process.list = "snapshot-voters" /\ lists' = lists /\ checkpoints' = checkpoints
        /\ process' = process \/ process' = [process EXCEPT !.at = "emit"]
    BY <1>4 DEF WalkVotes, PagesDone, VoteCast, At, Goes
  <2>2. /\ DOMAIN unanswered' = Resumable \cup AtOnce
        /\ \A l \in Resumable : unanswered[l] \subseteq unanswered'[l]
    BY <1>1, <1>4 DEF WalkVotes, PagesDone, VoteCast, Unanswered, FilesOK
  <2> QED
    BY <1>1, <2>1, <2>2, OthersCover DEF ProcessOK, Points, Resumable, AtOnce
<1>5. CASE OpenList
  <2>1. /\ process.at = "emit" /\ process.list \in AtOnce
        /\ lists' = [lists EXCEPT ![process.list] = [made |-> TRUE, lines |-> << >>]]
        /\ process' = [process EXCEPT !.at = "write"]
        /\ checkpoints' = checkpoints /\ unanswered' = unanswered
    BY <1>1, <1>5 DEF OpenList, Goes, ProcessOK
  <2>2. \A l \in Resumable : lists'[l] = lists[l] /\ l # process.list
    BY <1>1, <2>1 DEF FilesOK, Resumable, AtOnce
  <2> QED
    BY <1>1, <2>1, <2>2, OthersCover DEF ProcessOK, Points, FilesOK
<1>6. CASE WriteList
  <2>1. PICK lines : /\ process.at = "write" /\ process.list \in AtOnce
                     /\ lists' = [lists EXCEPT ![process.list].lines = lines]
                     /\ process' = [process EXCEPT !.at = "ended"]
                     /\ checkpoints' = checkpoints /\ unanswered' = unanswered
    BY <1>1, <1>6 DEF WriteList, Goes, ProcessOK
  <2>2. \A l \in Resumable : lists'[l] = lists[l] /\ l # process.list
    BY <1>1, <2>1 DEF FilesOK, Resumable, AtOnce
  <2> QED
    BY <1>1, <2>1, <2>2, OthersCover DEF ProcessOK, Points, FilesOK
<1>7. CASE Killed
  BY <1>1, <1>7, OthersCover DEF Killed, Goes, ProcessOK, Points, FilesOK
<1> QED
  BY <1>2, <1>3, <1>4, <1>5, <1>6, <1>7

LEMMA DerivationStarts == DerivationInit => DerivationInv
<1> SUFFICES ASSUME DerivationInit PROVE DerivationInv
  OBVIOUS
<1>1. /\ lists = [l \in Resumable \cup AtOnce |-> [made |-> FALSE, lines |-> << >>]]
      /\ checkpoints = [l \in Resumable |-> NoCheckpoint]
      /\ process = [list |-> "none", at |-> "ended"] /\ cast = Cast
      /\ unanswered = [l \in Resumable \cup AtOnce |-> {}]
  BY DEF DerivationInit
<1>2. << >> \in Seq(Line) /\ Range(<< >>) = {}
  BY EmptySeq DEF Range
<1>3. FilesOK
  BY <1>1, <1>2 DEF FilesOK
<1>4. ProcessOK
  BY <1>1 DEF ProcessOK, Points
<1>5. CheckpointsCover
  <2>1. ASSUME NEW l \in Resumable PROVE Covered(l, Loaded(l))
    <3>1. Loaded(l).at = 0 /\ Loaded(l).kept = << >>
      BY <1>1 DEF Loaded
    <3>2. Len(Source(l)) \in Nat
      BY <1>3, SourceIs
    <3> QED
      BY <1>2, <3>1, <3>2 DEF Covered, Through
  <2> QED
    BY <2>1 DEF CheckpointsCover
<1> QED
  BY <1>1, <1>3, <1>4, <1>5 DEF DerivationInv, ResumeInv, RunningCovers, ScanCovers,
     CastOK, WalkCovers, At

LEMMA DerivationSteps == DerivationInv /\ [DerivationNext]_derivationVars => DerivationInv'
<1> SUFFICES ASSUME DerivationInv, [DerivationNext]_derivationVars PROVE DerivationInv'
  OBVIOUS
<1>1. ResumeInv /\ ProcessOK
  BY DEF DerivationInv, ResumeInv
<1>2. CASE UNCHANGED derivationVars
  <2>1. /\ lists' = lists /\ checkpoints' = checkpoints /\ process' = process
        /\ local' = local /\ unanswered' = unanswered /\ cast' = cast
    BY <1>2 DEF derivationVars
  <2>2. FilesOK' /\ ProcessOK'
    BY <1>1, <2>1 DEF ResumeInv, FilesOK, ProcessOK
  <2>3. CheckpointsCover'
    BY <1>1, <2>1 DEF ResumeInv, CheckpointsCover, Loaded, Covered, Through, Settled, Source,
       Candidates
  <2>4. RunningCovers'
    BY <1>1, <2>1 DEF ResumeInv, RunningCovers, ScriptCovers, Covered, Through, Settled, Source,
       Candidates, Reading, Place
  <2> QED
    BY <2>1, <2>2, <2>3, <2>4 DEF DerivationInv, ResumeInv, ScanCovers, Scanned, CastOK,
       WalkCovers, At
<1>3. CASE \/ StartVeterans \/ FetchRegistrations \/ VeteransEnd \/ Owner \/ PageDone
           \/ StartPowerUsers \/ Candidate \/ CandidatesDone \/ SaveCheckpoint
  <2>1. ResumeInv'
    BY <1>1, <1>3, StartsCovered, FetchCovers, VeteransEndCovers, OwnerCovers, PageDoneCovers,
       CandidateCovers, CandidatesDoneCovers, SaveCovers
  <2>2. cast' = cast /\ process'.at \notin {"scan", "walk"}
    <3>1. CASE StartVeterans \/ StartPowerUsers
      BY <3>1 DEF StartVeterans, StartPowerUsers, Resumes, Starts
    <3>2. CASE FetchRegistrations \/ VeteransEnd \/ PageDone
      BY <1>1, <3>2 DEF FetchRegistrations, VeteransEnd, PageDone, Closes, Goes, OpenCheckpoint,
         ProcessOK, Points
    <3>3. CASE Owner \/ Candidate \/ CandidatesDone
      BY <1>1, <3>3 DEF Owner, Candidate, CandidatesDone, SaveAtSome, Goes, OpenCheckpoint,
         ProcessOK, Points, At
    <3>4. CASE SaveCheckpoint
      BY <1>1, <3>4 DEF SaveCheckpoint, Closes, Goes, ProcessOK, Points
    <3> QED
      BY <1>3, <3>1, <3>2, <3>3, <3>4
  <2> QED
    BY <2>1, <2>2 DEF DerivationInv, ScanCovers, CastOK, WalkCovers, At
<1>4. ASSUME \/ StartGovernance \/ Scan \/ NextGovernor \/ StartSnapshot \/ WalkVotes
             \/ PagesDone \/ VoteCast \/ OpenList \/ WriteList \/ Killed
      PROVE  ResumeInv'
  BY <1>1, <1>4, AtOnceCovers
<1>5. CASE StartGovernance \/ Scan \/ NextGovernor
  <2>1. cast' = cast /\ process'.list = "governance-voters"
    BY <1>1, <1>5 DEF StartGovernance, Starts, Scan, NextGovernor, At, Goes, ProcessOK, Points
  <2>2. ScanCovers'
    BY <1>5, ScanStarts, ScanSteps, ScanMovesOn
  <2> QED
    BY <1>4, <1>5, <2>1, <2>2 DEF DerivationInv, CastOK, WalkCovers, At
<1>6. CASE StartSnapshot \/ WalkVotes
  <2>1. cast' = cast /\ process'.list = "snapshot-voters"
    BY <1>1, <1>6 DEF StartSnapshot, Starts, WalkVotes, At, Goes, ProcessOK, Points
  <2>2. WalkCovers'
    BY <1>6, WalkStarts, WalkSteps
  <2> QED
    BY <1>4, <1>6, <2>1, <2>2 DEF DerivationInv, CastOK, ScanCovers, At
<1>7. CASE VoteCast
  <2>1. process'.list = "snapshot-voters"
    BY <1>7 DEF VoteCast
  <2> QED
    BY <1>4, <1>7, <2>1, VoteComes DEF DerivationInv, ScanCovers, At
<1>8. CASE PagesDone \/ OpenList \/ WriteList \/ Killed
  <2>1. cast' = cast /\ process'.at \notin {"scan", "walk"}
    BY <1>1, <1>8 DEF PagesDone, OpenList, WriteList, Killed, Goes, ProcessOK, Points
  <2> QED
    BY <1>4, <1>8, <2>1 DEF DerivationInv, ScanCovers, CastOK, WalkCovers, At
<1> QED
  BY <1>2, <1>3, <1>5, <1>6, <1>7, <1>8 DEF DerivationNext

\* What files, checkpoints and the variables of the running script owe to
\* the source holds at every await, and after every kill (derive_*.py).
THEOREM DerivationInvariance == DerivationSpec => []DerivationInv
<1> QED
  BY DerivationStarts, DerivationSteps, PTL DEF DerivationSpec

\* A script that resumes has lost nothing, wherever it was killed, and no
\* vote falls between two windows of blocks or two pages (derive_*.py): for
\* every source, page size, window and interval of checkpoints.
THEOREM NothingLost == DerivationSpec => []NothingPassedOver
<1>1. DerivationInv => NothingPassedOver
  <2> SUFFICES ASSUME DerivationInv PROVE NothingPassedOver
    OBVIOUS
  <2>1. ASSUME NEW l \in Resumable, checkpoints[l] # TornCheckpoint
        PROVE  /\ Range(Loaded(l).kept) \subseteq Range(lists[l].lines)
               /\ \A k \in 1..Loaded(l).at : Source(l)[k] \in Wanted(l) =>
                    \/ Source(l)[k] \in Range(lists[l].lines)
                    \/ Source(l)[k] \in unanswered[l]
    BY <2>1 DEF DerivationInv, ResumeInv, CheckpointsCover, Covered, Through, Settled
  <2>2. At("governance-voters", "scan") => Scanned(local.governor, local.from)
    BY DEF DerivationInv, ScanCovers
  <2>3. At("snapshot-voters", "walk") =>
          \A k \in DOMAIN cast :
            k <= local.page * VotesPerPage /\ cast[k] \in Range(local.first) =>
              cast[k] \in Range(local.tally) \cup unanswered["snapshot-voters"]
    BY DEF DerivationInv, WalkCovers
  <2> QED
    BY <2>1, <2>2, <2>3 DEF NothingPassedOver, Scanned
<1> QED
  BY <1>1, DerivationInvariance, PTL
=============================================================================
