-------------------------- MODULE MCSubscriptionFetch --------------------------
(* Deadlines of 1 s and more, one of them the limit of 45 s.  One fetch    *)
(* from a host that answers as it likes has times of its own; two share    *)
(* what is noted about a reliable host.                                    *)
EXTENDS SubscriptionFetch

CONSTANTS f1, f2

Config(timeout, retries, agents, mode) ==
  [timeout |-> timeout, retries |-> retries, agents |-> agents, mode |-> mode]
MCConfigs ==
  {Config(10, 0, 1, "auto"), Config(40, 1, 2, "auto"), Config(17, 2, 1, "auto"),
   Config(20, 5, 1, "h2"), Config(250, 1, 1, "auto")}
MCHosts ==
  {[reliable |-> FALSE, users |-> {f1}], [reliable |-> TRUE, users |-> {f1, f2}]}
================================================================================
