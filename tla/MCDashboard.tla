----------------------------- MODULE MCDashboard -----------------------------
(* Two sites, and the first with an interval that the server replaces.     *)
EXTENDS Dashboard

site(name, interval) ==
  [name |-> name, type |-> "site", interval |-> interval, timeout |-> 5000, config |-> "{}"]
MCWhats == {site("a", 60), site("b", 60), site("a", 0)}
MCAliases == [type \in {"SITE"} |-> "site"]
MCConfigOf == [config \in {"{}"} |-> config]
row(w) == [what |-> w, enabled |-> TRUE]
MCGiven == {<<>>, <<row(site("a", 60)), row(site("b", 60))>>}
MCFiles == {<<row(site("a", 0)), Bad, row(site("a", 0))>>}
MCFilters == {{site("a", 60)}, MCWhats}
===============================================================================
