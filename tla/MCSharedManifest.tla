-------------------------- MODULE MCSharedManifest --------------------------
(***************************************************************************)
(* Instances of SharedManifest for TLC: plans of JRC's flood maps for two  *)
(* areas and one of EDO's drought years share a directory, beside keyed    *)
(* entries.                                                                *)
(***************************************************************************)
EXTENDS SharedManifest, TLC

CONSTANTS west, east, edo      \* the plans

\* The records' fields.  All requests name the same version.
MCStated ==
    (west :> [provider |-> "jrc", dataset |-> "glofas", bounds |-> "west",
              source_periods |-> "all"]) @@
    (east :> [provider |-> "jrc", dataset |-> "glofas", bounds |-> "east",
              source_periods |-> "all"]) @@
    (edo :> [provider |-> "jrc-edo", dataset |-> "fapar", bounds |-> "west",
             requested_years |-> "all"])

MCFound ==
    [plan \in PlanKey |-> {"resources"} \cup IF plan = edo THEN {"resolved_years"} ELSE {}]

\* The station plans give their provider beside the entries; ERA5 and CMIP6 give
\* no fields, which leaves the top level as it is.
MCEntryFields == {[provider |-> "noaa-stations"]}
=============================================================================
