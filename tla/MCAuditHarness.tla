--------------------------- MODULE MCAuditHarness ----------------------------
(* Small instances of AuditHarness for TLC.  idle allows nothing, the      *)
(* Playwright scenario downloads allows what navigation allows too, bogus  *)
(* is no scenario.                                                         *)
EXTENDS AuditHarness

CONSTANTS idle, navigation, downloads, bogus, example, update

Allowlist == [s \in {idle, navigation, downloads} |->
                IF s = idle THEN {} ELSE {example}]

Lists == {<<idle, navigation>>, <<downloads, navigation>>, <<bogus>>, << >>}

Short == {<<idle, navigation>>}
Pages == {<<navigation, downloads>>, <<bogus>>}

(* --output is new, has the dump of a silent run, or one to complain of.   *)
Stale == [id |-> 0, scenario |-> idle, dest |-> update]
Dumps == {{}, {{}}, {{Stale}}}

(* Runs in which nothing gets past the capture, and runs in which much may. *)
Fair   == {{"browser", "raise"}}
Unfair == {{"browser", "raise", "proxy"}, {"proxy", "slow", "disk"}, {"browser", "raise", "port"},
           {"browser", "proxy", "large"}}
AnyFault == Fair \cup Unfair
=============================================================================
