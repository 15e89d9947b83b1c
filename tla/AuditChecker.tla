---------------------------- MODULE AuditChecker -----------------------------
(***************************************************************************)
(* The audit's detection engine, audit/checker.py: is every captured flow  *)
(* explained by an allowlist rule of the flow's own scenario?              *)
(*                                                                         *)
(* Hosts and paths are sequences of characters, because what is hard here  *)
(* is where a pattern may start and stop matching.  Of the characters only *)
(* the ones the code looks at matter: ".", ":", "*", "/" and the digits;   *)
(* letters are taken as lowercased already.                                *)
(***************************************************************************)
EXTENDS Integers, Sequences, SequencesExt

CONSTANTS
  Char,     \* the characters of hosts and paths
  Input,    \* what main may be given: a flows file and an allowlist file
  Digit,    \* the characters isdigit accepts
  Name,     \* DNS names, as sequences of labels, that properties speak of
  Port,     \* port numbers, as sequences of digits, that properties speak of
  None      \* a rule without path_prefix; no verdict yet

(* `ok` stands for the shape checks of a rule that do not concern matching *)
(* (types, the reason), `form` for those of a flow (keys, types, an        *)
(* absolute URL); an "unsplit" URL, "https://[bad", makes urlsplit raise.  *)
Rule == [host : Seq(Char), prefix : Seq(Char) \cup {None}, ok : BOOLEAN]
Flow == [host : Seq(Char), path : Seq(Char), scenario : STRING,
         form : {"sound", "malformed", "unsplit"}]

(* What becomes of a file: read; refused as missing, not JSON or of the    *)
(* wrong shape; or not readable at all (permissions, a directory, bytes    *)
(* that are not UTF-8), which no handler of main's is for.                 *)
File == {"read", "refused", "unreadable"}

ASSUME InputAssumption ==
  \A in \in Input :
    /\ {in.flows_file, in.allowlist_file} \subseteq File
    /\ in.flows \in Seq(Flow)
    /\ \A s \in DOMAIN in.allowlist : in.allowlist[s] \in Seq(Rule)

(* A label may be of anything but what separates labels, names from ports, *)
(* and what makes a pattern of a name.                                     *)
LabelChar == Char \ {".", ":", "*"}
Label == Seq(LabelChar) \ {<< >>}

ASSUME NameAssumption ==
  /\ {".", ":", "*", "/"} \subseteq Char
  /\ Name \subseteq Seq(Label) \ {<< >>}
  /\ Digit \subseteq LabelChar
  /\ Port \subseteq Seq(Digit) \ {<< >>}

VARIABLES
  input,       \* [flows_file, flows, allowlist_file, allowlist]
  index,       \* check_flows: the flow it is at
  violations,  \* positions of the flows found unexplained
  verdict      \* the exit code, or None

vars == <<input, index, violations, verdict>>

flows     == input.flows
allowlist == input.allowlist   \* section name -> sequence of rules
-----------------------------------------------------------------------------
(* Drop trailing dots, then a port: what follows the last colon, if that   *)
(* is all digits.                                                          *)
NormalizeHost(s) ==
  LET host  == SubSeq(s, 1, SelectLastInSeq(s, LAMBDA c : c # "."))
      colon == SelectLastInSeq(host, LAMBDA c : c = ":")
      port  == SubSeq(host, colon + 1, Len(host))
  IN IF colon # 0 /\ port # << >> /\ \A n \in 1 .. Len(port) : port[n] \in Digit
     THEN SubSeq(host, 1, colon - 1) ELSE host

IsWildcard(pattern) == IsPrefix(<<"*", ".">>, pattern)
Base(pattern) == SubSeq(pattern, 3, Len(pattern))

(* Patterns that host_matches refuses with an AllowlistError.              *)
Unsupported(pattern) ==
  LET p == NormalizeHost(pattern)
      rest == IF IsWildcard(p) THEN Base(p) ELSE p
  IN (IsWildcard(p) /\ rest = << >>) \/ Contains(rest, "*")

(* Mutated: the suffix is compared without the dot before it.              *)
HostMatchesNoDot(pattern, host) ==
  LET p == NormalizeHost(pattern)
      h == NormalizeHost(host)
  IN IF IsWildcard(p) THEN IsSuffix(Base(p), h) ELSE h = p

(* A wildcard matches whatever ends in a dot and its base.                 *)
HostMatches(pattern, host) ==
  LET p == NormalizeHost(pattern)
      h == NormalizeHost(host)
  IN IF IsWildcard(p) THEN IsSuffix(<<".">> \o Base(p), h) ELSE h = p

(* Mutated: a plain prefix test.                                           *)
PathMatchesAnyPrefix(prefix, path) == IsPrefix(prefix, path)

PathMatches(prefix, path) ==
  /\ IsPrefix(prefix, path)
  /\ Len(path) > Len(prefix) => "/" \in {Last(prefix), path[Len(prefix) + 1]}

RuleMatches(rule, flow) ==
  /\ HostMatches(rule.host, flow.host)
  /\ rule.prefix # None =>
       PathMatches(rule.prefix, IF flow.path = << >> THEN <<"/">> ELSE flow.path)

(* The patterns that validate_allowlist lets pass.                         *)
Accepted(pattern) == pattern # << >> /\ ~Unsupported(pattern)

ValidRule(rule) ==
  /\ rule.ok
  /\ Accepted(rule.host)
  /\ rule.prefix # None => IsPrefix(<<"/">>, rule.prefix)

ValidAllowlist(sections) ==
  \A s \in DOMAIN sections : \A n \in 1 .. Len(sections[s]) :
    ValidRule(sections[s][n])

(* Mutated: a scenario without a section falls back to any section.        *)
ExplainedSomewhere(flow) ==
  \E s \in DOMAIN allowlist :
    \E n \in 1 .. Len(allowlist[s]) : RuleMatches(allowlist[s][n], flow)

(* Some rule of the flow's own section matches: no section, no rule.       *)
Explained(flow) ==
  /\ flow.scenario \in DOMAIN allowlist
  /\ \E n \in 1 .. Len(allowlist[flow.scenario]) :
       RuleMatches(allowlist[flow.scenario][n], flow)
-----------------------------------------------------------------------------
Init ==
  /\ input \in Input
  /\ index = 0
  /\ violations = {}
  /\ verdict = None

Finish(code) == verdict' = code /\ UNCHANGED <<input, index, violations>>

Continue(found) ==
  /\ index' = index + 1
  /\ violations' = violations \cup found
  /\ UNCHANGED <<input, verdict>>

(* main answers an AuditError with 2; any other exception ends Python      *)
(* with a traceback and the status 1.                                      *)
Status == [refused |-> 2, unreadable |-> 1]

FlowsRead == input.flows_file = "read"
FilesRead == FlowsRead /\ input.allowlist_file = "read"

AtFiles == verdict = None /\ index = 0

(* The flows are loaded first, then the allowlist.                         *)
LoadFails ==
  /\ AtFiles
  /\ \/ ~FlowsRead /\ Finish(Status[input.flows_file])
     \/ FlowsRead /\ ~FilesRead /\ Finish(Status[input.allowlist_file])

(* The allowlist is validated before any flow is looked at.                *)
Load ==
  /\ AtFiles /\ FilesRead
  /\ IF ValidAllowlist(allowlist) THEN Continue({}) ELSE Finish(2)

AtFlow == verdict = None /\ index \in 1 .. Len(flows)

(* A malformed flow ends the audit, whatever was found before it.          *)
Malformed == AtFlow /\ flows[index].form = "malformed" /\ Finish(2)

(* So does one whose URL urlsplit raises ValueError for, but by an         *)
(* exception that main does not catch.                                     *)
Unsplit == AtFlow /\ flows[index].form = "unsplit" /\ Finish(1)

AtSound == AtFlow /\ flows[index].form = "sound"

Pass == AtSound /\ Explained(flows[index]) /\ Continue({})

(* Mutated: the position is counted from one more.                         *)
FlagOffByOne == AtSound /\ ~Explained(flows[index]) /\ Continue({index + 1})

Flag == AtSound /\ ~Explained(flows[index]) /\ Continue({index})

Report ==
  /\ verdict = None /\ index = Len(flows) + 1
  /\ Finish(IF violations = {} THEN 0 ELSE 1)

Next == LoadFails \/ Load \/ Malformed \/ Unsplit \/ Pass \/ Flag \/ Report

Spec == Init /\ [][Next]_vars
-----------------------------------------------------------------------------
(* What the rules mean, said of DNS names and of directories: a name is    *)
(* its sequence of labels, and is written as it is, fully qualified, or    *)
(* with a port.                                                            *)
Dotted(name) == Tail(FlattenSeq([n \in 1 .. Len(name) |-> <<".">> \o name[n]]))

Spellings == [name \in Name |->
  {Dotted(name), Dotted(name) \o <<".">>}
    \cup {Dotted(name) \o <<":">> \o port : port \in Port}]

Named(host, name) == host \in Spellings[name]
Below(pattern, name) == IsWildcard(pattern) /\ Base(pattern) \in Spellings[name]

(* An exact pattern means one name; a wildcard means the names that have   *)
(* further labels before those of its base.                                *)
Means(pattern, host) ==
  \E p \in Name :
    \/ Named(pattern, p) /\ Named(host, p)
    \/ Below(pattern, p) /\ \E h \in Name : IsStrictSuffix(p, h) /\ Named(host, h)

(* A path prefix means that path and everything in the directory of that   *)
(* name.                                                                   *)
Directory(prefix) == IF Last(prefix) = "/" THEN prefix ELSE Append(prefix, "/")
Covers(prefix, path) == path = prefix \/ IsPrefix(Directory(prefix), path)

ExplainedBy(rule, flow) ==
  /\ Means(rule.host, flow.host)
  /\ \/ rule.prefix = None
     \/ Covers(rule.prefix, IF flow.path = << >> THEN <<"/">> ELSE flow.path)

Meaningful(pattern) == \E name \in Name : Named(pattern, name) \/ Below(pattern, name)

Usable(rule) ==
  /\ rule.ok
  /\ Accepted(rule.host)
  /\ rule.prefix # None => rule.prefix # << >> /\ Head(rule.prefix) = "/"

Rules == UNION {{allowlist[s][n] : n \in 1 .. Len(allowlist[s])}
                  : s \in DOMAIN allowlist}

(* Every host is one the meaning speaks of: a flow was made to some name,  *)
(* and a pattern is of names, or one that the checker refuses.  It accepts *)
(* more than that ("." or "x:"), without use, and takes "x.." for "x".     *)
HostsAreNames ==
  /\ \A rule \in Rules : Accepted(rule.host) => Meaningful(rule.host)
  /\ \A n \in 1 .. Len(flows) : \E name \in Name : Named(flows[n].host, name)

ExplainedByRule(flow) ==
  /\ flow.scenario \in DOMAIN allowlist
  /\ \E n \in 1 .. Len(allowlist[flow.scenario]) :
       ExplainedBy(allowlist[flow.scenario][n], flow)

(* The input is one the audit cannot trust: a file or, in both that were   *)
(* read, a rule or the first flow that is not sound.                       *)
Untrusted ==
  \/ input.flows_file = "refused"
  \/ FlowsRead /\ input.allowlist_file = "refused"
  \/ FilesRead /\ \E rule \in Rules : ~Usable(rule)
  \/ /\ FilesRead
     /\ \E n \in 1 .. Len(flows) :
          flows[n].form = "malformed" /\ \A m \in 1 .. n - 1 : flows[m].form = "sound"
-----------------------------------------------------------------------------
(* Every variable has its type.                                            *)
TypeOK ==
  /\ index \in 0 .. Len(flows) + 1
  /\ violations \subseteq 1 .. Len(flows)
  /\ verdict \in {None, 0, 1, 2}

(* Character by character, host_matches agrees with the meaning of names:  *)
(* a wildcard matches subdomains only, never the apex, never a lookalike   *)
(* that merely ends in the same letters, however either side is spelled.   *)
(* No pattern with a meaning is refused by validate_allowlist, and one     *)
(* that it accepts without a meaning matches no name.                      *)
HostsMatchByLabel ==
  \A rule \in Rules :
    /\ Meaningful(rule.host) => Accepted(rule.host)
    /\ Accepted(rule.host) => \A n \in 1 .. Len(flows) :
         HostMatches(rule.host, flows[n].host) <=> Means(rule.host, flows[n].host)

(* path_matches agrees with the meaning of directories: "/dl" is "/dl" and *)
(* what is below it, never "/dl-evil".                                     *)
PathsMatchBySegment ==
  \A rule \in Rules : \A n \in 1 .. Len(flows) :
    Usable(rule) /\ rule.prefix # None =>
      (PathMatches(rule.prefix, flows[n].path) <=> Covers(rule.prefix, flows[n].path))

(* 0 is never said of data that cannot be trusted, and only if every flow  *)
(* is explained by a rule of its own section; 2 exactly where the first    *)
(* thing wrong is one the checker refuses, even if a violation was found   *)
(* before it.  All else is 1: a violation, and what raises past main.      *)
VerdictExact ==
  verdict # None =>
    /\ verdict = 0 <=>
         /\ FilesRead /\ \A rule \in Rules : Usable(rule)
         /\ \A n \in 1 .. Len(flows) :
              flows[n].form = "sound" /\ ExplainedByRule(flows[n])
    /\ verdict = 2 <=> Untrusted
=============================================================================
