----------------------------- MODULE MCPipeline -----------------------------
(* Instances for TLC of what the ML code computes: the scoring of an       *)
(* analysis, and the training of the model.  They share no state, so a     *)
(* behaviour is of one or of the other.                                    *)
EXTENDS Pipeline, Training, Derivation

CONSTANTS f1, exch, c1, c2

VARIABLE family

H(funder, at, stamps, hourEntropy, correlation, bridged) ==
  [funder |-> funder, at |-> at, stamps |-> stamps, hourEntropy |-> hourEntropy,
   correlation |-> correlation, bridged |-> bridged]

\* Funded by one wallet, early and regular, or nine days later and irregular;
\* funded by an exchange; without a timestamp.
Script == H(f1, 1000, <<1000, 1030, 1060, 1090, 1120>>, 65, 0, FALSE)
Later  == H(f1, 1000 + 9 * Day, <<1000 + 9 * Day, 900000, 950000>>, 146, 0, FALSE)
Cex    == H(exch, 1000, <<1000, 5000, 50000, 400000, 400000, 500000, 600000,
                          700000, 800000, 900000>>, 220, 80, TRUE)
Undated == H(f1, 0, <<0, 7000>>, 0, 0, FALSE)

MCHistoriesOn == [c \in {c1, c2} |-> IF c = c1 THEN {Script, Later, Cex, Undated}
                                   ELSE {Cex}]

\* What a model makes of an account: the older the safer.
MCScore(f) ==
  CASE f.total_tx_count = 0 -> 40
    [] f.total_tx_count \in 1..4 -> IF f.same_funder_count > 1 THEN 70 ELSE 69
    [] f.total_tx_count \in 5..9 -> IF f.same_funder_count > 1 THEN 90 ELSE 39
    [] OTHER -> 0

Job(mode, chains, listing, preset, overrides, model) ==
  [mode |-> mode, chains |-> chains, listing |-> listing, preset |-> preset,
   overrides |-> overrides, model |-> model]

Tuned == Overrides(Rule(70, Absent), Rule(Absent, 3))

\* An address alone, and three of them on two chains; lists may repeat one.
MCJobs ==
  {Job("full", {c1}, <<1>>, p, NoOverrides, m) : p \in PresetNames, m \in BOOLEAN}
  \cup {Job("full", {c1, c2}, <<2, 1, 3>>, "grant", NoOverrides, m) :
          m \in BOOLEAN}
  \cup {Job("full", {c1, c2}, <<3, 1, 2>>, "airdrop", NoOverrides, TRUE),
        Job("full", {c1}, <<1, 2, 3>>, "grant", Tuned, TRUE),
        Job("full", {c1}, <<1, 2, 1>>, "dao", NoOverrides, FALSE),
        Job("cluster_only", {c1, c2}, <<1, 2, 3, 1>>, "balanced", NoOverrides, FALSE)}
OneJob == {Job("full", {c1}, <<1>>, "grant", NoOverrides, TRUE)}

Claim(a, c, t) == [address |-> a, chain |-> c, tier |-> t]

\* One farmer is on two chains, one wallet is accused and verified, one has
\* confessed and is verified; the newer lists disagree about two more, and
\* have a confession of the accused.
Lists == {Claim("g1", "ethereum", "G1"), Claim("g2", "ethereum", "G2"),
          Claim("c", "ethereum", "G1"), Claim("c", "ethereum", "T4"),
          Claim("s1", "ethereum", "T1"), Claim("s1", "arbitrum", "T4"),
          Claim("s2", "ethereum", "T2"), Claim("x", "ethereum", "T1"),
          Claim("x", "ethereum", "G1")}
NewerLists == Lists \cup {Claim("c", "ethereum", "T1"),
                          Claim("g2", "ethereum", "T4"), Claim("g3", "ethereum", "G1"),
                          Claim("s2", "ethereum", "T4"), Claim("s2", "ethereum", "G2")}
MCListings == {Lists, NewerLists}

\* One owner has two names, two are lively, one of them with a reverse record.
MCOwners == <<"a1", "a2", "a1", "a3", "a4">>

Ballot(g, b, v, p) == [governor |-> g, block |-> b, voter |-> v, proposal |-> p]
MCBallots == {Ballot(1, 2, "v1", 1), Ballot(1, 6, "v2", 2), Ballot(1, 7, "v1", 2),
              Ballot(2, 5, "v2", 1), Ballot(2, 9, "v3", 1)}
MCGovernors == <<1, 3>>

Vote(v, sp) == [voter |-> v, space |-> sp]
MCCast == <<Vote("v1", "x"), Vote("v2", "x"), Vote("v1", "y"), Vote("v2", "z"),
            Vote("v3", "x")>>
MCLater == Vote("v3", "y")

allVars == <<family, vars, trainingVars, derivationVars>>

MCInit ==
  /\ family \in {"scoring", "training", "lists", "votes"}
  /\ Init /\ TrainingInit /\ DerivationInit
  /\ family # "scoring" => job = CHOOSE j \in Jobs : TRUE
  /\ family # "training" => claims = Lists

MCNext ==
  /\ UNCHANGED family
  /\ \/ family = "scoring" /\ Next /\ UNCHANGED <<trainingVars, derivationVars>>
     \/ family = "training" /\ TrainingNext /\ UNCHANGED <<vars, derivationVars>>
     \/ /\ family \in {"lists", "votes"} /\ DerivationNext
        /\ process'.list \in {"none"} \cup (IF family = "lists" THEN Resumable ELSE AtOnce)
        /\ UNCHANGED <<vars, trainingVars>>

MCSpec == MCInit /\ [][MCNext]_allVars
=============================================================================
