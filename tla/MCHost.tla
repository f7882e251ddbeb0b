------------------------------- MODULE MCHost --------------------------------
(***************************************************************************)
(* HostComponents and the receiver of pushed snapshots, for TLC: one more  *)
(* part, which keeps the variables of its module.                          *)
(***************************************************************************)
EXTENDS Ingest, HostComponents

CONSTANTS a, c, d, g    \* names

\* An older snapshot with a later observation, and a newer one.
TwoPacks ==
    {[source |-> "s", generated |-> 1, observed |-> 1],
     [source |-> "s", generated |-> 2, observed |-> 0]}

\* Fixed times, an interval that divides the day and one that does not.
ThreePlans ==
    {[times |-> {<<7, 0>>, <<19, 0>>, <<7, 30>>}, every |-> 0],
     [times |-> {}, every |-> 7], [times |-> {}, every |-> 24]}

\* Two artifacts of one image on two pages, nothing configured.
OneSubject == [x \in {"a", "b"} |-> "i"]
TwoPages == [x \in {"a", "b"} |-> IF x = "a" THEN 1 ELSE 2]
NoPin == [i \in {"i", "j"} |-> Nothing]

\* Two assets on two hosts, one of which redirects.
TwoHosts == [x \in {"a", "b"} |-> IF x = "b" THEN "g" ELSE "h"]
OneRedirects == [x \in {"a", "b"} |-> IF x = "b" THEN 1 ELSE 0]

HostInit ==
    /\ Init
    /\ \/ /\ part = "ingest"
          /\ NoConfigSave /\ NoSchedule /\ NoPipeline /\ NoCollect
          /\ NoProcessRun /\ NoDiscovery /\ NoWebDetect
       \/ ComponentsInit

IngestNext == part = "ingest" /\ Next /\ UNCHANGED <<part, componentVars>>

HostNext == IngestNext \/ (ComponentsNext /\ UNCHANGED vars)

HostSpec == HostInit /\ [][HostNext]_<<part, vars, componentVars>>
=============================================================================
