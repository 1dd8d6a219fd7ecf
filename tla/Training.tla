------------------------------ MODULE Training ------------------------------
(***************************************************************************)
(* From the lists of known sybils and genuine users to the model that is   *)
(* served: curate.py, holdout.py, build_features.py, retrain.py,           *)
(* retrain_full.py, train.py, model.py and the load in service.py.  Every  *)
(* script is run by hand or by cron, reads the files of the one before it, *)
(* and writes its own one after another in place.                          *)
(***************************************************************************)
EXTENDS Naturals, FiniteSets, Sequences

CONSTANTS
  Listings,      \* what the lists in labeled/raw may say: sets of claims
                 \*   [address, chain, tier]
  HoldoutSize,   \* holdout.size_per_class
  SybilSample,   \* --sybil and --genuine of retrain_full
  GenuineSample,
  Missing, Torn, \* a file that was never written, or not to its end
  NoModel,       \* the rules of pipeline.py serve instead of a model
  MaxScripts     \* bound on the scripts that are run

VARIABLES
  claims,     \* the lists as they are now
  files,      \* curated, train, holdout, trainF, holdF and current (the model)
  writes,     \* of the script that is running: what it has yet to write
  served,     \* the model that the ML service loaded when it started
  started,    \* scripts so far
  faultless   \* no script was cut short so far

trainingVars == <<claims, files, writes, served, started, faultless>>

SybilTiers   == {"T1", "T2", "T3", "T4", "T5"}
GenuineTiers == {"G1", "G2"}

ASSUME TrainingAssumption ==
  \A listed \in Listings : \A c \in listed : c.tier \in SybilTiers \cup GenuineTiers

\* Rows as the files have them; sources stands for the tiers that name the
\* key, model for the examples that a model was trained and measured on.
FileNames == {"curated", "train", "holdout", "trainF", "holdF", "current"}

TrainingInit ==
  /\ claims \in Listings
  /\ files = [f \in FileNames |-> Missing]
  /\ writes = << >>
  /\ served = NoModel
  /\ started = 0
  /\ faultless = TRUE

----------------------------------------------------------------------------
(* curate.py: one row for each address and chain.                          *)

Strength == <<"T1", "T2", "T3", "T5", "T4">>
GenuineStrength == <<"G1", "G2">>

\* _best_tier()
BestTier(tiers, order) ==
  order[CHOOSE i \in DOMAIN order :
          order[i] \in tiers /\ \A j \in 1..(i-1) : order[j] \notin tiers]

\* conflict_rules; the fifth has no tiers and never matches.
ConflictRules ==
  <<[genuine |-> {"T1", "T2", "G1"}, sybil |-> {"T4", "T5"}, then |-> "genuine"],
    [genuine |-> {"T4"},             sybil |-> {"T4"},       then |-> "drop"],
    [genuine |-> {"T4"},             sybil |-> {"T1", "T2"}, then |-> "sybil"],
    [genuine |-> {"G1"},             sybil |-> {"T1"},       then |-> "drop"]>>

Matching(tiers) ==
  {i \in DOMAIN ConflictRules : /\ tiers \cap ConflictRules[i].genuine
                                     \cap GenuineTiers # {}
                                /\ tiers \cap ConflictRules[i].sybil # {}}

ResolveKeepingUnmatched(tiers) ==
  LET first == CHOOSE i \in Matching(tiers) : \A j \in Matching(tiers) : i <= j
  IN IF tiers \cap GenuineTiers = {} THEN "sybil"
     ELSE IF tiers \cap SybilTiers = {} THEN "genuine"
     ELSE IF Matching(tiers) = {} THEN "sybil"
     ELSE ConflictRules[first].then

\* _resolve(): the first rule that matches decides between the classes, and
\* a conflict that no rule is for is dropped.
Resolve(tiers) ==
  LET first == CHOOSE i \in Matching(tiers) : \A j \in Matching(tiers) : i <= j
  IN IF tiers \cap GenuineTiers = {} THEN "sybil"
     ELSE IF tiers \cap SybilTiers = {} THEN "genuine"
     ELSE IF Matching(tiers) = {} THEN "drop"
     ELSE ConflictRules[first].then

KeyOf(r) == <<r.address, r.chain>>

Curated(listed) ==
  LET TiersOf(k) == {c.tier : c \in {d \in listed : KeyOf(d) = k}}
      Row(k) == [address |-> k[1], chain |-> k[2], label |-> Resolve(TiersOf(k)),
                 tier |-> IF Resolve(TiersOf(k)) = "sybil"
                            THEN BestTier(TiersOf(k), Strength)
                            ELSE BestTier(TiersOf(k), GenuineStrength),
                 sources |-> TiersOf(k)]
  IN {Row(k) : k \in {l \in {KeyOf(c) : c \in listed} : Resolve(TiersOf(l)) # "drop"}}

----------------------------------------------------------------------------
(* Scripts.  One begins when none is running and its input can be read; a  *)
(* file that it opens for writing is torn until it is closed.              *)

Readable(f) == files[f] \notin {Missing, Torn}

Begin(reads, toWrite) ==
  /\ writes = << >>
  /\ started < MaxScripts
  /\ \A f \in reads : Readable(f)
  /\ started' = started + 1
  /\ writes' = toWrite
  /\ UNCHANGED <<claims, files, served, faultless>>

To(file, content) == [to |-> file, content |-> content]

Curate == Begin({}, <<To("curated", Curated(claims))>>)

Labelled(rs, label) == {r \in rs : r.label = label}

Fewer(n, m) == IF n < m THEN n ELSE m

\* The samples that min(size, len(pool)) rows of a pool may be.
Samples(pool, size) ==
  {s \in SUBSET pool : Cardinality(s) = Fewer(size, Cardinality(pool))}

PoolOfAllTiers(rs, label) == Labelled(rs, label)

\* The rows that may be held out: sybil_tiers and genuine_tiers.
Pool(rs, label) == {r \in Labelled(rs, label) : r.tier \in {"T1", "T2", "G1", "G2"}}

RestOfSameClass(rs, held) ==
  {r \in rs : \A h \in held : KeyOf(h) = KeyOf(r) => h.label = "genuine"}

\* The training rows: those whose address and chain are not held out.
Rest(rs, held) == {r \in rs : \A h \in held : KeyOf(h) # KeyOf(r)}

\* split_holdout()
SplitHoldout ==
  /\ Readable("curated")
  /\ \E s \in Samples(Pool(files["curated"], "sybil"), HoldoutSize),
        g \in Samples(Pool(files["curated"], "genuine"), HoldoutSize) :
       Begin({"curated"}, <<To("holdout", s \cup g),
                            To("train", Rest(files["curated"], s \cup g))>>)

\* build_features.py.  What is known of an address comes from ethereum,
\* whatever the chain of its row, so an address stands for its features.
BuildFeatures ==
  Begin({"train", "holdout"}, <<To("trainF", files["train"]),
                                To("holdF", files["holdout"])>>)

\* A trained model as current.pkl has it; blind when its features were all
\* synthesized as 0.0.
Trained(on, measuredOn, blind, recall) ==
  [on |-> on, measuredOn |-> measuredOn, blind |-> blind, recall |-> recall]

\* save() opens current.pkl in place.
SaveModel(model) == <<To("current", Torn), To("current", model)>>

\* train_test_split() and LightGBM want both classes, with two rows of each.
Trainable(rs, added) ==
  /\ Cardinality(Labelled(rs, "sybil")) + added >= 2
  /\ Cardinality(Labelled(rs, "genuine")) >= 2

\* decide(): there is no model, or it finds fewer of the adversarial set than
\* it once did, which is never of a model that has no recall on record.
\* There are no snapshots for the drift check to read.
Triggered == files["current"] = Missing
               \/ (Readable("current") /\ files["current"].recall)

\* main() of retrain.py, on the files without features (its defaults and
\* those of the monthly cron job) or on those with them.  It trains without
\* recording a recall, and raises when current.pkl cannot be loaded.
Retrain ==
  /\ Triggered
  /\ \E blind \in BOOLEAN :
       LET train == IF blind THEN "train" ELSE "trainF"
           held  == IF blind THEN "holdout" ELSE "holdF"
       IN /\ Readable(train) /\ Readable(held)
          /\ Trainable(files[train], 0)
          /\ Begin({train, held},
                   SaveModel(Trained(files[train], files[held], blind, FALSE)))

\* _sample_balanced(): all tiers of sybils by their share, cut to the number
\* asked for.
BalancedSamples(rs) ==
  {s \cup g : s \in {t \in SUBSET Labelled(rs, "sybil") :
                       Cardinality(t) \in 1..SybilSample},
              g \in Samples(Labelled(rs, "genuine"), GenuineSample)}

\* main() of retrain_full.py: the sample replaces train.parquet; adversarial
\* sybils are added for the training alone, and recall on others is recorded.
RetrainFull ==
  /\ Readable("train") /\ Readable("holdout")
  /\ \E sample \in BalancedSamples(files["train"]), recall \in BOOLEAN :
       /\ Trainable(sample, 2)
       /\ Begin({"train", "holdout"},
                <<To("train", sample), To("trainF", sample),
                  To("holdF", files["holdout"])>>
                \o SaveModel(Trained(sample, files["holdout"], FALSE, recall)))

WriteNext ==
  /\ writes # << >>
  /\ files' = [files EXCEPT ![Head(writes).to] = Head(writes).content]
  /\ writes' = Tail(writes)
  /\ UNCHANGED <<claims, served, started, faultless>>

----------------------------------------------------------------------------
(* What else may happen.                                                   *)

\* The script is killed, or raises: a file may be torn, those to come are
\* left as they were.
Interrupted ==
  /\ writes # << >>
  /\ files' \in {files, [files EXCEPT ![Head(writes).to] = Torn]}
  /\ writes' = << >>
  /\ faultless' = FALSE
  /\ UNCHANGED <<claims, served, started>>

\* seed_sybil.py, a derive_*.py or a download replaces a list.
NewLists ==
  /\ writes = << >>
  /\ claims' \in Listings \ {claims}
  /\ UNCHANGED <<files, writes, served, started, faultless>>

\* _build_pipeline(): once, at the first request of the process; a model that
\* cannot be loaded is logged and done without.
ServiceStarts ==
  /\ served' = IF Readable("current") THEN files["current"] ELSE NoModel
  /\ served' # served
  /\ UNCHANGED <<claims, files, writes, started, faultless>>

TrainingNext ==
  Curate \/ SplitHoldout \/ BuildFeatures \/ Retrain \/ RetrainFull
    \/ WriteNext \/ Interrupted \/ NewLists \/ ServiceStarts

TrainingSpec == TrainingInit /\ [][TrainingNext]_trainingVars

----------------------------------------------------------------------------
(* Properties.                                                             *)

Models == {files["current"], served} \ {Missing, Torn, NoModel}

\* A model was measured on rows that it was not trained on (train.py:76
\* "Evaluate on honest holdout"), however often the lists, the split, the
\* features and the sample were renewed in between and whichever files it
\* was trained from, so long as no script was cut short between its writes.
HeldOutApart ==
  faultless => \A m \in Models :
    {KeyOf(r) : r \in m.on} \cap {KeyOf(r) : r \in m.measuredOn} = {}

\* A row on lists of both kinds is learnt from, or measured on, only as a
\* verified human (G1) whom a detector accuses (T4, T5); every other row is of
\* one class in all of the lists (_resolve).  What else the lists say of such a
\* human does not matter: the first rule that matches decides, so that it is
\* cleared of the other accusations too, a confession (T1) among them.
OnlyVerifiedCleared ==
  \A r \in UNION {m.on \cup m.measuredOn : m \in Models} :
    LET accused == r.sources \cap SybilTiers
        vouched == r.sources \cap GenuineTiers
    IN accused # {} /\ vouched # {} =>
         r.label = "genuine" /\ r.tier = "G1" /\ accused \cap {"T4", "T5"} # {}

\* No model is measured on another detector's word (README.md:226), whatever
\* files are left over from scripts that were cut short.
MeasuredOnGroundTruth ==
  \A m \in Models : \A r \in m.measuredOn :
    r.label = "sybil" => r.sources \cap {"T1", "T2"} # {}

----------------------------------------------------------------------------
(* What the docs say, and the code does not do.                            *)

\* "T1 sybil + G1 genuine on same address = data error, drop"
\* (tests/test_curate.py:135; the rule data_error_drop_T1_G1_overlap of the
\* manifest): no model learns from such a row or is measured on it.  With T4 or
\* T5 beside them, the rule that keeps the row as genuine comes first.
ConfessedNeverCleared ==
  \A r \in UNION {m.on \cup m.measuredOn : m \in Models} :
    ~ ({"T1", "G1"} \subseteq r.sources)

\* No model has seen what it is measured on: holdout.py:5 "Held-out set is
\* NEVER used for training".  The rows are apart by address and chain, but
\* the features of an address are those of ethereum in both.
HoldoutUnseen ==
  faultless => \A m \in Models :
    {r.address : r \in m.on} \cap {r.address : r \in m.measuredOn} = {}
=============================================================================
