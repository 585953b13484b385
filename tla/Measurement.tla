----------------------------- MODULE Measurement -----------------------------
(***************************************************************************)
(* The two programs that measure solvers: the phase 1 harness and the      *)
(* phase 5 campaign, started from one shell on the files of one corpus,    *)
(* and never at the same time.                                             *)
(***************************************************************************)
EXTENDS Campaign, Harness

MeasurementInit ==
    /\ CampaignInit /\ HarnessInit
    /\ cnfs = [k \in DOMAIN LoadCorpus |-> profile[LoadCorpus[k].actual]]

RunHarness == invocation = 0 /\ HarnessNext /\ UNCHANGED campaignVars

RunCampaign == phase = "main" /\ CampaignNext /\ UNCHANGED harnessVars

HarnessOver == phase = "over" /\ UNCHANGED <<campaignVars, harnessVars>>

MeasurementNext == RunHarness \/ RunCampaign \/ HarnessOver

MeasurementSpec == MeasurementInit /\ [][MeasurementNext]_<<campaignVars, harnessVars>>

---------------------------------------------------------------------------
(* Properties.                                                             *)

\* A campaign that ends with 0 reports no wrong answer to an instance that any mode
\* answered rightly, or whose answer the manifest declares.  A harness that ends with 0
\* reports none for a file that any solver answered rightly, in either phase.
CleanExitIsRight ==
    /\ code = "0" => \A k \in DOMAIN results :
          LET item == results[k].item
              seen == {j \in DOMAIN results : results[j].item = item}
              statuses == {results[j].run.status : j \in seen} \cup {item.declared}
          IN  FileOf(item).truth \in statuses => statuses \cap Definite = {FileOf(item).truth}
    /\ returned = "0" => \A file \in DOMAIN cnfs :
          LET rows == Range(validated) \cup Range(measurements)
              statuses == {row.status : row \in {r \in rows : r.file = file}}
          IN  Cardinality(statuses \cap Certain) = 1
=============================================================================
