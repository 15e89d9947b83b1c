--------------------------- MODULE MCAuditChecker ----------------------------
(* Inputs of AuditChecker for TLC: one rule against one flow, in every way *)
(* to write short names, paths and prefixes, and whole audits with two     *)
(* sections and up to three flows, and files that cannot be loaded.        *)
EXTENDS AuditChecker

R(host, prefix, ok) == [host |-> host, prefix |-> prefix, ok |-> ok]
F(host, path, scenario, form) ==
  [host |-> host, path |-> path, scenario |-> scenario, form |-> form]
In(sections, fs) ==
  [flows_file |-> "read", flows |-> fs, allowlist_file |-> "read", allowlist |-> sections]

(* The label <<"e", "x">> ends in the label <<"x">>: a lookalike.          *)
Labels == {<<"x">>, <<"e", "x">>}
Names  == UNION {[1 .. n -> Labels] : n \in 1 .. 3}
Ports  == {<<"1">>, <<"1", "2">>}
Hosts  == UNION {Spellings[name] : name \in Names}
Bases  == UNION {Spellings[name] : name \in {m \in Names : Len(m) <= 2}}
Wild(host) == <<"*", ".">> \o host

Unusable == {<<"*">>, <<"x", "*">>, Wild(<<"*", ".", "x">>), Wild(<<":", "1">>)}
Meaningless == {<<".">>, <<":", "1">>, <<"x", ":">>, Wild(<<"x", ":">>), Wild(<<".", "x">>)}
Patterns == Bases \cup {Wild(b) : b \in Bases} \cup Unusable \cup Meaningless

Dir   == <<"/", "d">>
Paths == {<< >>, <<"/">>, Dir, Dir \o <<"/">>, Dir \o <<"/", "f">>,
          Dir \o <<"-">>, Dir \o <<"-", "/", "f">>}
PathPrefixes == {<<"/">>, Dir, Dir \o <<"/">>, <<"d">>, << >>}

x  == <<"x">>
ex == <<"e", "x">>

HostInputs ==
  {In([s |-> <<R(p, None, TRUE)>>], <<F(h, <<"/">>, "s", "sound")>>)
     : p \in Patterns, h \in Hosts}

PathInputs ==
  {In([s |-> <<R(x, prefix, TRUE)>>], <<F(x, path, "s", "sound")>>)
     : prefix \in PathPrefixes, path \in Paths}

Sections ==
  {[s |-> << >>],
   [s |-> <<R(x, None, TRUE)>>, t |-> <<R(ex, None, TRUE)>>],
   [s |-> <<R(Wild(x), Dir, TRUE), R(x, None, TRUE)>>, t |-> << >>],
   [s |-> <<R(x, None, FALSE)>>]}

Flows == {F(h, Dir, s, "sound") : h \in {x, ex, ex \o <<".", "x">>}, s \in {"s", "t", "u"}}
         \cup {F(x, Dir, "s", form) : form \in {"malformed", "unsplit"}}

AuditInputs == {In(sections, fs) : sections \in Sections, fs \in BoundedSeq(Flows, 3)}

FileInputs ==
  {[in EXCEPT !.flows_file = of_flows, !.allowlist_file = of_allowlist] :
     in \in {In(sections, << >>) : sections \in Sections},
     of_flows \in File, of_allowlist \in File}

Inputs == HostInputs \cup PathInputs \cup AuditInputs \cup FileInputs
=============================================================================
