-------------------------- MODULE AuditCheckerProofs --------------------------
(***************************************************************************)
(* Why the checker's verdict is right for allowlists and flows of any      *)
(* size, with hosts and paths of any length: what the loop of check_flows  *)
(* adds up to, what a path prefix matches, and, from HostNameProofs, what  *)
(* a host pattern matches.                                                 *)
(***************************************************************************)
EXTENDS HostNameProofs

(* What was decided about the flows so far, and in the end about all.      *)
Clean(n) == \A m \in 1 .. n - 1 : flows[m].form = "sound"

Cleared ==
  /\ FilesRead /\ ValidAllowlist(allowlist)
  /\ \A n \in 1 .. Len(flows) : flows[n].form = "sound" /\ Explained(flows[n])

Refused ==
  \/ input.flows_file = "refused"
  \/ FlowsRead /\ input.allowlist_file = "refused"
  \/ FilesRead /\ ~ValidAllowlist(allowlist)
  \/ FilesRead /\ \E n \in 1 .. Len(flows) : flows[n].form = "malformed" /\ Clean(n)

Judged(code) == (code = 0 <=> Cleared) /\ (code = 2 <=> Refused)

Judgement == verdict # None => Judged(verdict)

SoFar ==
  /\ index > 0 => FilesRead /\ ValidAllowlist(allowlist)
  /\ \A n \in 1 .. Len(flows) :
       /\ n < index => flows[n].form = "sound" /\ (n \in violations <=> ~Explained(flows[n]))
       /\ n >= index => n \notin violations

IInv == input \in Input /\ TypeOK /\ SoFar /\ Judgement

LEMMA Typed ==
  ASSUME input \in Input
  PROVE  /\ flows \in Seq(Flow) /\ Len(flows) \in Nat
         /\ \A n \in 1 .. Len(flows) : flows[n] \in Flow
         /\ \A rule \in Rules : rule \in Rule
<1>1. flows \in Seq(Flow) /\ \A s \in DOMAIN allowlist : allowlist[s] \in Seq(Rule)
  BY InputAssumption DEF flows, allowlist
<1>2. \A n \in 1 .. Len(flows) : flows[n] \in Flow
  BY <1>1, ElementOfSeq
<1>3. ASSUME NEW s \in DOMAIN allowlist, NEW n \in 1 .. Len(allowlist[s])
      PROVE  allowlist[s][n] \in Rule
  BY <1>1, ElementOfSeq
<1> QED
  BY <1>1, <1>2, <1>3 DEF Rules

(* The loop stands still at a flow, or goes one on.                        *)
LEMMA ContinueStep ==
  ASSUME IInv, NEW found \in SUBSET {index}, index \in 0 .. Len(flows), verdict = None,
         index > 0 => /\ flows[index].form = "sound"
                      /\ found # {} <=> ~Explained(flows[index]),
         index = 0 => found = {} /\ FilesRead /\ ValidAllowlist(allowlist),
         Continue(found)
  PROVE  IInv'
<1>1. Len(flows) \in Nat
  BY Typed DEF IInv
<1>2. /\ input' = input /\ verdict' = verdict /\ index' = index + 1
      /\ violations' = violations \cup found /\ flows' = flows /\ allowlist' = allowlist
  BY DEF Continue, flows, allowlist
<1>3. found \subseteq 1 .. Len(flows)
  BY <1>1
<1>4. TypeOK'
  BY <1>1, <1>2, <1>3 DEF IInv, TypeOK
<1>5. FilesRead /\ ValidAllowlist(allowlist)
  BY DEF IInv, SoFar
<1>6. ASSUME NEW n \in 1 .. Len(flows)
      PROVE  /\ n < index' => flows[n].form = "sound" /\ (n \in violations' <=> ~Explained(flows[n]))
             /\ n >= index' => n \notin violations'
  <2>1. CASE n < index
    BY <1>2, <2>1 DEF IInv, SoFar
  <2>2. CASE n = index
    <3>1. flows[n].form = "sound" /\ (found # {} <=> ~Explained(flows[n])) /\ n \notin violations
      BY <2>2 DEF IInv, SoFar
    <3>2. n \in violations' <=> found # {}
      BY <1>2, <2>2, <3>1
    <3> QED
      BY <1>2, <2>2, <3>1, <3>2
  <2>3. CASE n > index
    BY <1>2, <2>3 DEF IInv, SoFar
  <2> QED
    BY <2>1, <2>2, <2>3
<1>7. SoFar'
  <2>1. /\ \A n : Explained(flows[n])' <=> Explained(flows[n])
        /\ ValidAllowlist(allowlist)' <=> ValidAllowlist(allowlist)
        /\ FilesRead' <=> FilesRead
    BY <1>2 DEF Explained, ValidAllowlist, FilesRead, FlowsRead
  <2> QED
    BY <1>2, <1>5, <1>6, <2>1 DEF SoFar
<1> QED
  BY <1>2, <1>4, <1>7 DEF IInv, Judgement

LEMMA FinishStep ==
  ASSUME IInv, NEW code \in {0, 1, 2}, Judged(code), Finish(code)
  PROVE  IInv'
<1>1. /\ input' = input /\ verdict' = code /\ UNCHANGED <<index, violations>>
      /\ flows' = flows /\ allowlist' = allowlist
  BY DEF Finish, flows, allowlist
<1>2. /\ \A n : Explained(flows[n])' <=> Explained(flows[n])
      /\ ValidAllowlist(allowlist)' <=> ValidAllowlist(allowlist)
      /\ (FilesRead' <=> FilesRead) /\ (FlowsRead' <=> FlowsRead)
  BY <1>1 DEF Explained, ValidAllowlist, FilesRead, FlowsRead
<1>3. Judged(verdict)'
  BY <1>1, <1>2 DEF Judged, Cleared, Refused, Clean
<1> QED
  BY <1>1, <1>2, <1>3 DEF IInv, TypeOK, SoFar, Judgement

LEMMA IInvInit == Init => IInv
<1> SUFFICES ASSUME Init PROVE IInv
  OBVIOUS
<1>1. Len(flows) \in Nat
  BY Typed DEF Init
<1> QED
  BY <1>1 DEF Init, IInv, TypeOK, SoFar, Judgement

LEMMA LoadFailsJudged ==
  ASSUME IInv, LoadFails
  PROVE  IInv'
<1>1. {input.flows_file, input.allowlist_file} \subseteq File
  BY InputAssumption DEF IInv
<1>2. PICK code \in {1, 2} :
        /\ Finish(code)
        /\ \/ input.flows_file = "unreadable" /\ code = 1
           \/ input.flows_file = "refused" /\ code = 2
           \/ FlowsRead /\ input.allowlist_file = "unreadable" /\ code = 1
           \/ FlowsRead /\ input.allowlist_file = "refused" /\ code = 2
  BY <1>1 DEF LoadFails, Status, FlowsRead, FilesRead, File
<1>3. Judged(code)
  BY <1>1, <1>2 DEF Judged, Cleared, Refused, FilesRead, FlowsRead, File
<1> QED
  BY <1>2, <1>3, FinishStep

(* A flow that is not sound ends the loop, and is the first of its kind.   *)
LEMMA NotSoundJudged ==
  ASSUME IInv, AtFlow, flows[index].form \in {"malformed", "unsplit"},
         NEW code, code = IF flows[index].form = "malformed" THEN 2 ELSE 1
  PROVE  Judged(code)
<1>1. Len(flows) \in Nat /\ index \in 1 .. Len(flows) /\ ~Cleared
  BY Typed DEF IInv, AtFlow, Cleared
<1>2. FilesRead /\ ValidAllowlist(allowlist) /\ Clean(index)
  BY <1>1 DEF IInv, SoFar, Clean
<1>3. ASSUME NEW n \in 1 .. Len(flows), flows[n].form = "malformed", Clean(n)
      PROVE  n = index
  <2>1. ~ n < index
    BY <1>1, <1>2, <1>3 DEF Clean
  <2>2. ~ index < n
    BY <1>1, <1>3 DEF Clean
  <2> QED
    BY <1>1, <2>1, <2>2
<1>4. Refused <=> flows[index].form = "malformed"
  <2>1. (\E n \in 1 .. Len(flows) : flows[n].form = "malformed" /\ Clean(n))
          <=> flows[index].form = "malformed"
    BY <1>1, <1>2, <1>3
  <2> QED
    BY <1>2, <2>1 DEF Refused, FilesRead, FlowsRead
<1> QED
  BY <1>1, <1>4 DEF Judged

LEMMA IInvStep == ASSUME IInv, [Next]_vars PROVE IInv'
<1>1. Len(flows) \in Nat /\ index \in 0 .. Len(flows) + 1
  BY Typed DEF IInv, TypeOK
<1>2. CASE LoadFails
  BY <1>2, LoadFailsJudged
<1>3. CASE Load
  <2>1. CASE ValidAllowlist(allowlist)
    BY <1>1, <1>3, <2>1, ContinueStep DEF Load, AtFiles
  <2>2. CASE ~ValidAllowlist(allowlist)
    <3>1. Judged(2)
      BY <1>3, <2>2 DEF Load, Judged, Cleared, Refused
    <3> QED
      BY <1>3, <2>2, <3>1, FinishStep DEF Load
  <2> QED
    BY <2>1, <2>2
<1>4. CASE Malformed
  BY <1>4, NotSoundJudged, FinishStep DEF Malformed
<1>5. CASE Unsplit
  BY <1>5, NotSoundJudged, FinishStep DEF Unsplit
<1>6. CASE Pass
  BY <1>1, <1>6, ContinueStep DEF Pass, AtSound, AtFlow
<1>7. CASE Flag
  <2>1. /\ index \in 0 .. Len(flows) /\ verdict = None /\ index # 0
        /\ flows[index].form = "sound" /\ ~Explained(flows[index])
        /\ Continue({index})
    BY <1>1, <1>7 DEF Flag, AtSound, AtFlow
  <2> QED
    BY <2>1, ContinueStep
<1>8. CASE Report
  <2>1. index = Len(flows) + 1
    BY <1>8 DEF Report
  <2>2. /\ FilesRead /\ ValidAllowlist(allowlist)
        /\ \A n \in 1 .. Len(flows) :
             flows[n].form = "sound" /\ (n \in violations <=> ~Explained(flows[n]))
    BY <1>1, <2>1 DEF IInv, SoFar
  <2>3. violations = {} <=> \A n \in 1 .. Len(flows) : Explained(flows[n])
    BY <2>2 DEF IInv, TypeOK
  <2>4. Cleared <=> violations = {}
    BY <2>2, <2>3 DEF Cleared
  <2>5. ~Refused
    BY <2>2 DEF Refused, FilesRead, FlowsRead
  <2>6. Judged(IF violations = {} THEN 0 ELSE 1)
    BY <2>4, <2>5 DEF Judged
  <2> QED
    BY <1>8, <2>6, FinishStep DEF Report
<1>9. CASE UNCHANGED vars
  <2>1. UNCHANGED <<input, index, violations, verdict, flows, allowlist>>
    BY <1>9 DEF vars, flows, allowlist
  <2>2. /\ \A n : Explained(flows[n])' <=> Explained(flows[n])
        /\ ValidAllowlist(allowlist)' <=> ValidAllowlist(allowlist)
        /\ (FilesRead' <=> FilesRead) /\ (FlowsRead' <=> FlowsRead)
    BY <2>1 DEF Explained, ValidAllowlist, FilesRead, FlowsRead
  <2> QED
    BY <2>1, <2>2 DEF IInv, TypeOK, SoFar, Judgement, Judged, Cleared, Refused, Clean
<1> QED
  BY <1>2, <1>3, <1>4, <1>5, <1>6, <1>7, <1>8, <1>9 DEF Next

LEMMA Invariance == Spec => []IInv
BY IInvInit, IInvStep, PTL DEF Spec

(* Every variable has its type; the loop never leaves the list of flows.   *)
THEOREM TypeCorrect == Spec => []TypeOK
<1>1. IInv => TypeOK
  BY DEF IInv
<1> QED
  BY <1>1, Invariance, PTL
-----------------------------------------------------------------------------
LEMMA PathsMatch ==
  ASSUME NEW S, NEW T, NEW prefix \in Seq(S), NEW path \in Seq(T), prefix # << >>
  PROVE  PathMatches(prefix, path) <=> Covers(prefix, path)
<1> DEFINE m == Len(prefix)
           Same == \A n \in 1 .. m : prefix[n] = path[n]
<1>1. m \in Nat /\ m > 0 /\ Len(path) \in Nat /\ Last(prefix) = prefix[m]
  BY DEF Last
<1>2. IsPrefix(prefix, path) <=> m <= Len(path) /\ Same
  BY PrefixByElement
<1>3. path = prefix <=> Len(path) = m /\ Same
  BY SeqEqual
<1>4. CASE prefix[m] = "/"
  <2>1. Directory(prefix) = prefix
    BY <1>1, <1>4 DEF Directory
  <2>2. Covers(prefix, path) <=> m <= Len(path) /\ Same
    BY <1>1, <1>2, <1>3, <2>1 DEF Covers
  <2> QED
    BY <1>1, <1>2, <1>4, <2>2 DEF PathMatches
<1>5. CASE prefix[m] # "/"
  <2>1. Directory(prefix) = Append(prefix, "/") /\ prefix \in Seq(S \cup {"/"})
    BY <1>1, <1>5 DEF Directory
  <2>2. /\ Append(prefix, "/") \in Seq(S \cup {"/"}) /\ Len(Append(prefix, "/")) = m + 1
        /\ Append(prefix, "/")[m + 1] = "/"
        /\ \A n \in 1 .. m : Append(prefix, "/")[n] = prefix[n]
    BY <2>1, AppendProperties
  <2>3. IsPrefix(Directory(prefix), path)
          <=> m + 1 <= Len(path) /\ Same /\ path[m + 1] = "/"
    <3>1. IsPrefix(Append(prefix, "/"), path)
            <=> /\ Len(Append(prefix, "/")) <= Len(path)
                /\ \A n \in 1 .. Len(Append(prefix, "/")) : Append(prefix, "/")[n] = path[n]
      <4>1. \A long \in Seq(S \cup {"/"}) :
              IsPrefix(long, path)
                <=> Len(long) <= Len(path) /\ \A n \in 1 .. Len(long) : long[n] = path[n]
        BY PrefixByElement
      <4> QED
        BY <2>2, <4>1
    <3> QED
      BY <1>1, <2>1, <2>2, <3>1
  <2> QED
    BY <1>1, <1>2, <1>3, <1>5, <2>3 DEF Covers, PathMatches
<1> QED
  BY <1>4, <1>5

(* path_matches means directories, for every prefix and path: a prefix     *)
(* covers itself and what is below it, and no sibling of a longer name.    *)
THEOREM PathsMean == Spec => []PathsMatchBySegment
<1>1. ASSUME IInv PROVE PathsMatchBySegment
  <2> SUFFICES ASSUME NEW rule \in Rules, NEW n \in 1 .. Len(flows),
                      Usable(rule), rule.prefix # None
               PROVE  PathMatches(rule.prefix, flows[n].path)
                        <=> Covers(rule.prefix, flows[n].path)
    BY DEF PathsMatchBySegment
  <2>1. rule \in Rule /\ flows[n] \in Flow
    BY <1>1, Typed DEF IInv
  <2>2. rule.prefix \in Seq(Char) /\ flows[n].path \in Seq(Char) /\ rule.prefix # << >>
    BY <2>1 DEF Rule, Flow, Usable
  <2> QED
    BY <2>2, PathsMatch
<1> QED
  BY <1>1, Invariance, PTL
-----------------------------------------------------------------------------
LEMMA HostsMean == ASSUME IInv, HostsAreNames PROVE HostsMatchByLabel
<1> SUFFICES ASSUME NEW rule \in Rules
             PROVE  /\ Meaningful(rule.host) => Accepted(rule.host)
                    /\ Accepted(rule.host) => \A n \in 1 .. Len(flows) :
                         HostMatches(rule.host, flows[n].host) <=> Means(rule.host, flows[n].host)
  BY DEF HostsMatchByLabel
<1>1. rule.host \in String
  BY Typed DEF IInv, Rule, String
<1>2. ASSUME Meaningful(rule.host)
      PROVE  /\ Accepted(rule.host)
             /\ \A h \in Name : \A host : Named(host, h) =>
                  (HostMatches(rule.host, host) <=> Means(rule.host, host))
  <2>1. PICK p \in Name : Named(rule.host, p) \/ Below(rule.host, p)
    BY <1>2 DEF Meaningful
  <2> QED
    BY <1>1, <2>1, ExactMatch, WildcardMatch DEF Accepted
<1>3. \A n \in 1 .. Len(flows) : \E h \in Name : Named(flows[n].host, h)
  BY DEF HostsAreNames
<1>4. Accepted(rule.host) => Meaningful(rule.host)
  BY DEF HostsAreNames
<1> QED
  BY <1>2, <1>3, <1>4

(* Host matching, which compares strings, agrees with the meaning of names *)
(* and wildcards, and no pattern of names is refused: for names of any     *)
(* number of labels of any length, spelled in any of the ways that         *)
(* _normalize_host takes for the same, and for allowlists that hold only   *)
(* patterns of names or refused ones.                                      *)
THEOREM HostsMatch == Spec => [](HostsAreNames => HostsMatchByLabel)
<1>1. IInv => (HostsAreNames => HostsMatchByLabel)
  BY HostsMean
<1> QED
  BY <1>1, Invariance, PTL

LEMMA RulesMean ==
  ASSUME IInv, HostsMatchByLabel, NEW rule \in Rules
  PROVE  /\ ValidRule(rule) <=> Usable(rule)
         /\ \A n \in 1 .. Len(flows) :
              Usable(rule) => (RuleMatches(rule, flows[n]) <=> ExplainedBy(rule, flows[n]))
<1>1. rule \in Rule /\ rule.ok \in BOOLEAN
  BY Typed DEF IInv, Rule
<1>2. rule.prefix # None =>
        (IsPrefix(<<"/">>, rule.prefix) <=> rule.prefix # << >> /\ Head(rule.prefix) = "/")
  <2> SUFFICES ASSUME rule.prefix # None
               PROVE  IsPrefix(<<"/">>, rule.prefix)
                        <=> rule.prefix # << >> /\ Head(rule.prefix) = "/"
    OBVIOUS
  <2>1. rule.prefix \in Seq(Char) /\ <<"/">> \in Seq({"/"})
    BY <1>1 DEF Rule
  <2>2. ASSUME NEW root \in Seq({"/"}), root = <<"/">>
        PROVE  IsPrefix(root, rule.prefix)
                 <=> 1 <= Len(rule.prefix) /\ rule.prefix[1] = "/"
    <3>1. Len(root) = 1 /\ root[1] = "/"
      BY <2>2
    <3>2. IsPrefix(root, rule.prefix)
            <=> Len(root) <= Len(rule.prefix) /\ \A n \in 1 .. Len(root) : root[n] = rule.prefix[n]
      BY <2>1, PrefixByElement
    <3> QED
      BY <3>1, <3>2
  <2>3. rule.prefix # << >> <=> 1 <= Len(rule.prefix)
    BY <2>1
  <2>4. IsPrefix(<<"/">>, rule.prefix)
          <=> 1 <= Len(rule.prefix) /\ rule.prefix[1] = "/"
    BY <2>1, <2>2, Zenon
  <2>5. Head(rule.prefix) = rule.prefix[1]
    BY <2>1
  <2> QED
    BY <2>3, <2>4, <2>5
<1>3. ValidRule(rule) <=> Usable(rule)
  BY <1>1, <1>2 DEF ValidRule, Usable
<1>4. ASSUME NEW n \in 1 .. Len(flows), Usable(rule)
      PROVE  RuleMatches(rule, flows[n]) <=> ExplainedBy(rule, flows[n])
  <2> DEFINE path == IF flows[n].path = << >> THEN <<"/">> ELSE flows[n].path
  <2>1. HostMatches(rule.host, flows[n].host) <=> Means(rule.host, flows[n].host)
    BY <1>4 DEF HostsMatchByLabel, Usable
  <2>2. path \in Seq(Char) \/ path \in Seq({"/"})
    <3>1. flows[n] \in Flow
      BY Typed DEF IInv
    <3>2. flows[n].path \in Seq(Char)
      BY <3>1 DEF Flow
    <3>3. <<"/">> \in Seq({"/"})
      OBVIOUS
    <3> QED
      BY <3>2, <3>3
  <2>3. rule.prefix # None => (PathMatches(rule.prefix, path) <=> Covers(rule.prefix, path))
    BY <1>1, <1>4, <2>2, PathsMatch DEF Rule, Usable
  <2> QED
    BY <2>1, <2>3 DEF RuleMatches, ExplainedBy
<1> QED
  BY <1>3, <1>4

(* The exit code is right on all flows of a list of any length, wherever   *)
(* the malformed or unexplained ones are, whatever names the rules and the *)
(* flows are of, and whatever becomes of the two files: 0 only if every    *)
(* flow is explained, 2 exactly where the first fault is one that the      *)
(* checker refuses.                                                        *)
THEOREM VerdictIsExact == Spec => [](HostsAreNames => VerdictExact)
<1>1. ASSUME IInv, HostsAreNames PROVE VerdictExact
  <2> SUFFICES ASSUME verdict # None PROVE VerdictExact
    BY DEF VerdictExact
  <2>1. Judged(verdict)
    BY <1>1 DEF IInv, Judgement
  <2>2. ValidAllowlist(allowlist) <=> \A rule \in Rules : Usable(rule)
    <3>1. ValidAllowlist(allowlist) <=> \A rule \in Rules : ValidRule(rule)
      BY DEF ValidAllowlist, Rules
    <3> QED
      BY <1>1, <3>1, HostsMean, RulesMean
  <2>3. ASSUME \A rule \in Rules : Usable(rule), NEW n \in 1 .. Len(flows)
        PROVE  Explained(flows[n]) <=> ExplainedByRule(flows[n])
    <3>1. \A s \in DOMAIN allowlist : \A m \in 1 .. Len(allowlist[s]) :
            allowlist[s][m] \in Rules
      BY DEF Rules
    <3> QED
      BY <1>1, <2>3, <3>1, HostsMean, RulesMean DEF Explained, ExplainedByRule
  <2>4. Cleared <=> /\ FilesRead /\ \A rule \in Rules : Usable(rule)
                    /\ \A n \in 1 .. Len(flows) :
                         flows[n].form = "sound" /\ ExplainedByRule(flows[n])
    BY <2>2, <2>3 DEF Cleared
  <2>5. Refused <=> Untrusted
    BY <2>2 DEF Refused, Untrusted, Clean
  <2> QED
    BY <2>1, <2>4, <2>5 DEF Judged, VerdictExact
<1> QED
  BY <1>1, Invariance, PTL
=============================================================================
