------------------------- MODULE CapacityValidation -------------------------
(***************************************************************************)
(* The checks of a cluster's capacity at plan time (clustershared and      *)
(* azure_cluster, validate.go), where parts of it may still be unknown.    *)
(* An element has the kind of its number_of_hosts, "missing", "unknown",   *)
(* "text" or "number", and of its host_type; an element that is unknown    *)
(* as a whole has both unknown.                                            *)
(***************************************************************************)
EXTENDS Integers, Sequences, FiniteSetsExt

Element == [hosts : {"missing", "unknown", "text", "number"}, n : Int, type : STRING]

MinClusterHosts == 1
MinProductionClusterHosts == 3
MaxClusterHosts == 28

\* Seeded fault for IsAllowedClusterHostCount: every count up to the greatest.
AllowTwoHosts(n) == MinClusterHosts <= n /\ n <= MaxClusterHosts

IsAllowedClusterHostCount(n) ==
  n = MinClusterHosts \/ (MinProductionClusterHosts <= n /\ n <= MaxClusterHosts)

Of(capacity, kind) == {i \in DOMAIN capacity : capacity[i].hosts = kind}

Total(capacity) == MapThenSumSet(LAMBDA i : capacity[i].n, Of(capacity, "number"))

\* ValidateCapacityHostCount: the elements with an error, and 0 for the sum.
HostCountErrors(capacity) ==
  LET wrong == Of(capacity, "text") \cup {i \in Of(capacity, "number") : capacity[i].n < 1}
      sum == wrong = {} /\ Of(capacity, "unknown") = {} /\ Of(capacity, "number") # {}
  IN wrong \cup (IF sum /\ ~IsAllowedClusterHostCount(Total(capacity)) THEN {0} ELSE {})

AllowedHostTypes == {"AN36P", "AN64"}

\* validateCapacityHostTypes, of Azure.
HostTypeErrors(capacity) ==
  {i \in DOMAIN capacity : capacity[i].type \notin AllowedHostTypes \cup {"missing", "unknown"}}

Validate(cloud, capacity) ==
  HostCountErrors(capacity) \cup (IF cloud = "azure" THEN HostTypeErrors(capacity) ELSE {})

\* What the validators take once every count is known.
Taken(cloud, capacity) ==
  /\ \A i \in DOMAIN capacity :
       /\ capacity[i].hosts # "text"
       /\ capacity[i].hosts = "number" => capacity[i].n > 0
       /\ cloud = "azure" => capacity[i].type \in {"AN36P", "AN64", "missing", "unknown"}
  /\ Total(capacity) \in {0, 1} \cup 3..28

\* The capacity, with counts for the elements whose count is unknown.
Completed(capacity, counts) ==
  [i \in DOMAIN capacity |->
     IF i \in DOMAIN counts THEN [capacity[i] EXCEPT !.hosts = "number", !.n = counts[i]]
     ELSE capacity[i]]

\* The plan refuses only what is refused again at apply time, whatever the
\* counts that are still unknown turn out to be, and it lets nothing through
\* that is wrong with every count known.  With one unknown it may let through
\* what no count can save (28 hosts and an unknown): that is left to NC2.
HopelessIfRefused(cloud, capacity, errors) ==
  IF errors = {} THEN Of(capacity, "unknown") = {} => Taken(cloud, capacity)
  ELSE \A counts \in [Of(capacity, "unknown") -> 1..28] :
         ~Taken(cloud, Completed(capacity, counts))

=============================================================================
