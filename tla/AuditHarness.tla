---------------------------- MODULE AuditHarness -----------------------------
(***************************************************************************)
(* One run of the network audit: audit/audit.py starts mitmdump with the   *)
(* capture addon, drives the browser through scripted scenarios, stops the *)
(* proxy and turns the captured flows into an exit code.                   *)
(*                                                                         *)
(* Three processes run side by side: the audit itself (main, which runs    *)
(* the scenario driver), mitmdump with CaptureAddon, and the browser.  The *)
(* audit and the addon share only the control file and the flows file.     *)
(* A request counts from the moment the browser has handed it to a proxy   *)
(* or has failed to reach one.                                             *)
(***************************************************************************)
EXTENDS Integers, Sequences

CONSTANTS
  Scenario,      \* keys of the driver's registry SCENARIOS
  Playwright,    \* PLAYWRIGHT_SCENARIOS
  NameList,      \* the lists --scenarios may ask for
  Destination,   \* where the browser's requests may go
  Allowed,       \* the allowlist: for a section, what its rules match
  Earlier,       \* the dumps --output may hold before the run, {} for none
  MaxRequests,   \* bound: requests the browser makes in one run
  FaultSet,      \* the sets of faults a run may be exposed to
  UNATTRIBUTED, BETWEEN,   \* the two sentinels
  None           \* no control file, no exit code, no hook running

Stamp == Scenario \cup {UNATTRIBUTED, BETWEEN}
(* The id says which request a flow is of, 0 one of an earlier run.        *)
Flow  == [id : 0 .. MaxRequests, scenario : Stamp, dest : Destination]

(* Things the audit needs and may not find.                                *)
Prerequisite == {"allowlist", "mitmdump", "playwright", "browser"}

ASSUME NameListAssumption ==
  \A list \in NameList : list \in Seq({list[k] : k \in DOMAIN list})
ASSUME PlaywrightAssumption == Playwright \subseteq Scenario
ASSUME MaxRequestsAssumption == MaxRequests \in Nat
(* mitmdump or the browser dies; a program cannot be run or Playwright     *)
(* raises; a second is too short; a file cannot be written; a leftover     *)
(* proxy has the port; the browser sends bodies of over a megabyte.        *)
Fault == {"proxy", "browser", "raise", "slow", "disk", "port", "large"}

ASSUME FaultsAssumption == FaultSet \subseteq SUBSET Fault
ASSUME EarlierAssumption ==
  \A dump \in Earlier : dump \subseteq SUBSET Flow /\ \A f \in UNION dump : f.id = 0
ASSUME SentinelAssumption == UNATTRIBUTED \notin Scenario /\ BETWEEN \notin Scenario
ASSUME AllowedAssumption == UNATTRIBUTED \notin DOMAIN Allowed /\ BETWEEN \notin DOMAIN Allowed
ASSUME NoneAssumption == None \notin Stamp /\ None \notin Flow /\ None \notin 0 .. 2

VARIABLES
  names,         \* the scenarios asked for
  missing,       \* the prerequisites this machine lacks
  faults,        \* what may go wrong in this run
  earlier,       \* the dump an earlier run left in --output, if any
  pc,            \* where main is
  i,             \* run_scenarios: the scenario it is at
  raised,        \* the exception on its way out of the driver
  exit_code,
  control_file,  \* the active scenario, as the addon reads it
  proxy,         \* the mitmdump process
  hook,          \* the flow CaptureAddon.request is working on
  flows,         \* CaptureAddon.flows, in memory
  flows_file,    \* the dump on disk: {} when there is no flows file
  browser,       \* the browser process
  requests,      \* history: what the browser asked for, and where that is
  finished       \* history: the scenarios that ran to their end

setup   == <<names, missing, faults, earlier>>
main    == <<pc, i, raised, exit_code, finished>>
capture == <<proxy, hook, flows, flows_file>>
vars    == <<setup, main, control_file, capture, browser, requests>>

Init ==
  /\ names \in NameList
  /\ missing \in SUBSET Prerequisite
  /\ faults \in FaultSet
  /\ earlier \in Earlier
  /\ pc = "begin"
  /\ i = 1
  /\ raised = "none"
  /\ exit_code = None
  /\ control_file = None
  /\ proxy = "none"
  /\ hook = None
  /\ flows = {}
  /\ flows_file = earlier   \* main does not clear --output
  /\ browser = "none"
  /\ requests = << >>
  /\ finished = {}
-----------------------------------------------------------------------------
(* check_flows, default deny: a flow is explained only by the rules of the *)
(* section its own stamp names.                                            *)
Explained(scenario, dest) ==
  scenario \in DOMAIN Allowed /\ dest \in Allowed[scenario]

Violations(fs) == {f \in fs : ~Explained(f.scenario, f.dest)}

Goto(place) == pc' = place /\ UNCHANGED <<i, raised, exit_code, finished>>

Exit(code) ==
  /\ pc' = "exited" /\ exit_code' = code
  /\ UNCHANGED <<i, raised, finished>>

Raise(exception, place) ==
  /\ pc' = place /\ raised' = exception
  /\ UNCHANGED <<i, exit_code, finished>>

(* announce_scenario in the driver: if the control file cannot be written, *)
(* the exception replaces any that is on its way out.                      *)
AnnounceScenario(stamp, place) ==
  \/ control_file' = stamp /\ Goto(place)
  \/ "disk" \in faults /\ UNCHANGED control_file /\ Raise("other", "stop")

(* main: load the allowlist first, then announce that nothing runs yet.    *)
Begin ==
  /\ pc = "begin"
  /\ IF "allowlist" \in missing
     THEN Exit(2) /\ UNCHANGED control_file
     ELSE Goto("spawn") /\ control_file' = UNATTRIBUTED
  /\ UNCHANGED <<setup, capture, browser, requests>>

(* The output directory, the allowlist or the control file fails it: no    *)
(* handler, so Python's own status.                                        *)
BeginRaise ==
  /\ pc = "begin" /\ "disk" \in faults
  /\ Exit(1)
  /\ UNCHANGED <<setup, control_file, capture, browser, requests>>

(* start_mitmdump.                                                         *)
Spawn ==
  /\ pc = "spawn"
  /\ IF "mitmdump" \in missing
     THEN Exit(2) /\ UNCHANGED proxy
     ELSE Goto("wait_port") /\ proxy' = "starting"
  /\ UNCHANGED <<setup, control_file, hook, flows, flows_file, browser, requests>>

(* Popen fails: mitmdump is on the PATH but cannot be run.                 *)
SpawnRaise ==
  /\ pc = "spawn" /\ "mitmdump" \notin missing /\ "raise" \in faults
  /\ Exit(1)
  /\ UNCHANGED <<setup, control_file, capture, browser, requests>>

(* wait_for_port: it opens, or mitmdump exits early, or time is up.  A     *)
(* leftover proxy answers for a mitmdump that has yet to find it has no    *)
(* port.                                                                   *)
PortOpen ==
  proxy \in {"listening", "running"} \/ (proxy = "starting" /\ "port" \in faults)

WaitForPort ==
  /\ pc = "wait_port"
  /\ IF PortOpen THEN Goto("check_names")
     ELSE Raise("unavailable", "stop")
  /\ UNCHANGED <<setup, control_file, capture, browser, requests>>

(* run_scenarios looks at the names, at Playwright and at the browser      *)
(* binary before it launches anything.                                     *)
Runnable ==
  /\ \A n \in 1 .. Len(names) : names[n] \in Scenario
  /\ "playwright" \in missing => \A n \in 1 .. Len(names) : names[n] \notin Playwright
  /\ "browser" \notin missing

CheckNames ==
  /\ pc = "check_names"
  /\ IF Runnable
     THEN AnnounceScenario(BETWEEN, IF names = << >> THEN "stop" ELSE "announce")
     ELSE Raise("unavailable", "stop") /\ UNCHANGED control_file
  /\ UNCHANGED <<setup, capture, browser, requests>>

Announce ==
  /\ pc = "announce"
  /\ AnnounceScenario(names[i], "launch")
  /\ UNCHANGED <<setup, capture, browser, requests>>

(* browser_process: Popen; a Playwright scenario then waits for the CDP    *)
(* port and attaches.                                                      *)
Launch ==
  /\ pc = "launch"
  /\ browser' = "up"
  /\ Goto(IF names[i] \in Playwright THEN "attach" ELSE "act")
  /\ UNCHANGED <<setup, control_file, capture, requests>>

(* No profile directory, or a binary that exists but cannot be run.        *)
LaunchRaise ==
  /\ pc = "launch" /\ faults \cap {"raise", "disk"} # {}
  /\ Raise("other", "end")
  /\ UNCHANGED <<setup, control_file, capture, browser, requests>>

Attach ==
  /\ pc = "attach" /\ browser = "up"
  /\ Goto("act")
  /\ UNCHANGED <<setup, control_file, capture, browser, requests>>

(* The CDP port does not open, or Playwright cannot attach.                *)
AttachRaise ==
  /\ pc = "attach" /\ ("raise" \in faults \/ browser = "none")
  /\ \E exception \in {"unavailable", "other"} : Raise(exception, "teardown")
  /\ UNCHANGED <<setup, control_file, capture, browser, requests>>

(* The scripted actions, or just a sleep that takes no note of the browser. *)
Act ==
  /\ pc = "act"
  /\ names[i] \in Playwright => browser = "up"
  /\ pc' = "teardown"
  /\ finished' = finished \cup {i}
  /\ UNCHANGED <<i, raised, exit_code>>
  /\ UNCHANGED <<setup, control_file, capture, browser, requests>>

(* Mutated: a scenario that aborts is passed over.                         *)
ActRaiseSwallowed ==
  /\ pc = "act" /\ names[i] \in Playwright
  /\ "raise" \in faults \/ browser = "none"
  /\ Raise("none", "teardown")
  /\ UNCHANGED <<setup, control_file, capture, browser, requests>>

(* Mutated: the browser is not closed on the way out.                      *)
ActRaiseNoFinally ==
  /\ pc = "act" /\ names[i] \in Playwright
  /\ "raise" \in faults \/ browser = "none"
  /\ Raise("other", "end")
  /\ UNCHANGED <<setup, control_file, capture, browser, requests>>

(* Playwright raises: a selector misses, a wait times out, the browser is  *)
(* gone.                                                                   *)
ActRaise ==
  /\ pc = "act" /\ names[i] \in Playwright
  /\ "raise" \in faults \/ browser = "none"
  /\ Raise("other", "teardown")
  /\ UNCHANGED <<setup, control_file, capture, browser, requests>>

(* browser_process, finally: terminate, wait, kill if that takes too long. *)
Teardown ==
  /\ pc = "teardown"
  /\ IF browser = "up" THEN browser' = "closing" /\ Goto("reap")
     ELSE Goto("end") /\ UNCHANGED browser
  /\ UNCHANGED <<setup, control_file, capture, requests>>

Reap ==
  /\ pc = "reap"
  /\ browser' = "none"
  /\ Goto("end")
  /\ UNCHANGED <<setup, control_file, capture, requests>>

(* run_scenarios, finally.                                                 *)
EndScenario ==
  /\ pc = "end"
  /\ AnnounceScenario(BETWEEN, IF raised = "none" THEN "gap" ELSE "stop")
  /\ UNCHANGED <<setup, capture, browser, requests>>

(* The requests mitmdump has still to call the addon for.                  *)
AtProxy == {n \in 1 .. Len(requests) : requests[n].at \in {"proxy", "streamed"}}

NextScenario ==
  /\ IF i < Len(names) THEN pc' = "announce" /\ i' = i + 1
     ELSE pc' = "stop" /\ UNCHANGED i
  /\ UNCHANGED <<raised, exit_code, finished>>
  /\ UNCHANGED <<setup, control_file, capture, browser, requests>>

(* Mutated: no gap, the next scenario starts at once.                      *)
NoGap == pc = "gap" /\ NextScenario

(* The one-second gap lets requests still on their way land in it; under   *)
(* the fault "slow" a second is not enough for all of them.                *)
Gap ==
  /\ pc = "gap"
  /\ AtProxy = {} \/ "slow" \in faults
  /\ NextScenario
-----------------------------------------------------------------------------
(* mitmdump is gone, however it went: what it had not let out is lost, and *)
(* what it was streaming has left unseen.                                  *)
ProxyGone ==
  /\ proxy' = "gone"
  /\ hook' = None
  /\ requests' = [n \in 1 .. Len(requests) |->
       [requests[n] EXCEPT !.at =
          CASE @ \in {"proxy", "recorded"} -> "lost"
            [] @ = "streamed" -> "leaked"
            [] OTHER -> @]]

(* stop_mitmdump, in main's finally and in start_mitmdump's except.  What  *)
(* mitmdump does about it depends on how far it has come.                  *)
Stop ==
  /\ pc = "stop"
  /\ IF proxy = "gone" THEN Goto("evaluate") /\ UNCHANGED proxy
     ELSE /\ Goto("wait_proxy")
          /\ proxy' = IF proxy = "starting" THEN "aborting" ELSE "terminating"
  /\ UNCHANGED <<setup, control_file, hook, flows, flows_file, browser, requests>>

Stopped ==
  /\ pc = "wait_proxy" /\ proxy = "gone"
  /\ Goto("evaluate")
  /\ UNCHANGED <<setup, control_file, capture, browser, requests>>

(* Mutated: proc.wait() has no timeout.                                    *)
KillNever == Stopped

(* mitmdump does not go within ten seconds.                                *)
Kill ==
  /\ pc = "wait_proxy" /\ proxy \in {"terminating", "aborting"}
  /\ ProxyGone
  /\ Goto("evaluate")
  /\ UNCHANGED <<setup, control_file, flows, flows_file, browser>>

(* Mutated: the two kinds of trouble add up.                               *)
EvaluateAdds ==
  /\ pc = "evaluate"
  /\ Exit((IF raised # "none" \/ flows_file = {} THEN 2 ELSE 0)
          + (IF Violations(UNION flows_file) # {} THEN 1 ELSE 0))
  /\ UNCHANGED <<setup, control_file, capture, browser, requests>>

(* An exception main catches gives 2, any other Python's own status 1;     *)
(* else load_flows and check_flows decide.                                 *)
Evaluate ==
  /\ pc = "evaluate"
  /\ Exit(IF raised = "unavailable" THEN 2
          ELSE IF raised = "other" THEN 1
          ELSE IF flows_file = {} THEN 2
          ELSE IF Violations(UNION flows_file) # {} THEN 1 ELSE 0)
  /\ UNCHANGED <<setup, control_file, capture, browser, requests>>

Main ==
  \/ Begin \/ BeginRaise \/ Spawn \/ SpawnRaise \/ WaitForPort \/ CheckNames
  \/ Announce \/ Launch \/ LaunchRaise \/ Attach \/ AttachRaise
  \/ Act \/ ActRaise \/ Teardown \/ Reap \/ EndScenario \/ Gap
  \/ Stop \/ Stopped \/ Kill \/ Evaluate
-----------------------------------------------------------------------------
(* The browser asks for something, on the user's behalf or on its own; it  *)
(* can go on doing so until it is dead.  What has the port instead of      *)
(* mitmdump may send the request on, and records nothing.                  *)
Receivers ==
  IF proxy \in {"listening", "running", "terminating"} THEN {"proxy"}
  ELSE IF "port" \in faults THEN {"leaked", "lost"} ELSE {"lost"}

Request(dest, large) ==
  /\ browser \in {"up", "closing"}
  /\ Len(requests) < MaxRequests
  /\ large => "large" \in faults
  /\ \E at \in Receivers :
       requests' = Append(requests, [scenario |-> names[i], dest |-> dest,
                                     large |-> large, at |-> at])
  /\ UNCHANGED <<setup, main, control_file, capture, browser>>

(* The browser exits by itself; a scenario that only sleeps does not look. *)
BrowserExits ==
  /\ "browser" \in faults
  /\ browser = "up"
  /\ browser' = "none"
  /\ UNCHANGED <<setup, main, control_file, capture, requests>>

(* _dump: a rename puts the new file in place at once.  If the new file    *)
(* cannot be written, mitmproxy logs the exception and goes on.            *)
Dump(fs) ==
  \/ flows_file' = {fs}
  \/ "disk" \in faults /\ UNCHANGED flows_file

(* mitmdump opens its port, then calls the addon's running hook, which     *)
(* writes the first dump.                                                  *)
Listen ==
  /\ proxy = "starting" /\ "port" \notin faults
  /\ proxy' = "listening"
  /\ UNCHANGED <<setup, main, control_file, hook, flows, flows_file, browser, requests>>

Running ==
  /\ proxy = "listening" /\ hook = None
  /\ proxy' = "running"
  /\ Dump(flows)
  /\ UNCHANGED <<setup, main, control_file, hook, flows, browser, requests>>

(* stream_large_bodies=1m: a larger body is passed on as it arrives, and   *)
(* the addon is called for the request at its end ...                      *)
Stream ==
  /\ proxy \in {"listening", "running", "terminating"}
  /\ \E n \in AtProxy :
       /\ requests[n].large /\ requests[n].at = "proxy"
       /\ requests' = [requests EXCEPT ![n].at = "streamed"]
  /\ UNCHANGED <<setup, main, control_file, capture, browser>>

(* ... if it gets there: the browser may be closed before.                 *)
BreakOff ==
  /\ hook = None
  /\ \E n \in AtProxy :
       /\ requests[n].at = "streamed"
       /\ requests' = [requests EXCEPT ![n].at = "leaked"]
  /\ UNCHANGED <<setup, main, control_file, capture, browser>>

(* CaptureAddon.request: read the control file ...                         *)
ReadScenario ==
  /\ proxy \in {"listening", "running", "terminating"} /\ hook = None
  /\ \E n \in AtProxy :
       /\ requests[n].large => requests[n].at = "streamed"
       /\ hook' = [id |-> n, dest |-> requests[n].dest,
                   scenario |-> IF control_file = None THEN UNATTRIBUTED
                                ELSE control_file]
  /\ UNCHANGED <<setup, main, control_file, proxy, flows, flows_file, browser, requests>>

Recorded(at) == IF at = "streamed" THEN "forwarded" ELSE "recorded"

(* Mutated: the dump is left to the done hook.                             *)
RecordNoDump ==
  /\ hook # None
  /\ flows' = flows \cup {hook}
  /\ requests' = [requests EXCEPT ![hook.id].at = Recorded(@)]
  /\ hook' = None
  /\ UNCHANGED <<setup, main, control_file, proxy, flows_file, browser>>

(* ... append the flow, and dump all flows.                                *)
Record ==
  /\ hook # None
  /\ flows' = flows \cup {hook}
  /\ Dump(flows \cup {hook})
  /\ requests' = [requests EXCEPT ![hook.id].at = Recorded(@)]
  /\ hook' = None
  /\ UNCHANGED <<setup, main, control_file, proxy, browser>>

(* mitmdump lets the request out once the hook has returned.               *)
Forward ==
  /\ proxy \in {"listening", "running", "terminating"}
  /\ \E n \in 1 .. Len(requests) :
       /\ requests[n].at = "recorded"
       /\ requests' = [requests EXCEPT ![n].at = "forwarded"]
  /\ UNCHANGED <<setup, main, control_file, capture, browser>>

(* Told to terminate, mitmdump calls the done hook and exits.              *)
Done ==
  /\ proxy = "terminating" /\ hook = None
  /\ ProxyGone
  /\ Dump(flows)
  /\ UNCHANGED <<setup, main, control_file, flows, browser>>

(* Told so before it was up, it exits without: the done hook goes with the *)
(* running hook.                                                           *)
Abort ==
  /\ proxy = "aborting"
  /\ ProxyGone
  /\ UNCHANGED <<setup, main, control_file, flows, flows_file, browser>>

(* It crashes, or finds its port taken and exits.                          *)
ProxyDies ==
  /\ proxy \notin {"none", "gone"}
  /\ "proxy" \in faults \/ ("port" \in faults /\ proxy = "starting")
  /\ ProxyGone
  /\ UNCHANGED <<setup, main, control_file, flows, flows_file, browser>>

Mitmdump ==
  \/ Listen \/ Running \/ Stream \/ BreakOff \/ ReadScenario \/ Record
  \/ Forward \/ Done \/ Abort

Next ==
  \/ Main
  \/ Mitmdump \/ ProxyDies
  \/ \E dest \in Destination, large \in BOOLEAN : Request(dest, large)
  \/ BrowserExits

Spec == Init /\ [][Next]_vars

(* Some calls into Playwright have no timeout: new_page, evaluate,         *)
(* save_as, close.                                                         *)
InPlaywright == pc \in {"attach", "act"} /\ names[i] \in Playwright

(* Every other wait of main ends: a sleep, or a timeout followed by kill.  *)
(* mitmdump calls the addon for what it has received.                      *)
Fairness ==
  /\ WF_vars(Main /\ ~InPlaywright)
  /\ WF_vars(Stream) /\ WF_vars(ReadScenario) /\ WF_vars(Record)
FairSpec == Spec /\ Fairness
-----------------------------------------------------------------------------
(* Every variable has its type.                                            *)
TypeOK ==
  /\ names \in NameList
  /\ missing \subseteq Prerequisite
  /\ faults \subseteq Fault
  /\ earlier \in Earlier
  /\ pc \in {"begin", "spawn", "wait_port", "check_names", "announce",
             "launch", "attach", "act", "teardown", "reap", "end", "gap",
             "stop", "wait_proxy", "evaluate", "exited"}
  /\ i \in Nat
  /\ raised \in {"none", "unavailable", "other"}
  /\ exit_code \in {None, 0, 1, 2}
  /\ control_file \in Stamp \cup {None}
  /\ proxy \in {"none", "starting", "listening", "running", "terminating",
               "aborting", "gone"}
  /\ hook \in Flow \cup {None}
  /\ flows \subseteq Flow
  /\ flows_file \subseteq SUBSET Flow
  /\ browser \in {"none", "up", "closing"}
  /\ requests \in Seq([scenario : Scenario, dest : Destination, large : BOOLEAN,
       at : {"proxy", "recorded", "forwarded", "lost", "streamed", "leaked"}])
  /\ finished \subseteq Nat

(* Exit code 0 means that every request the browser made is one the        *)
(* allowlist explains for the scenario the browser made it in, whichever   *)
(* scenario was announced when the addon got to stamp it.                  *)
VerdictSound ==
  exit_code = 0 =>
    \A n \in 1 .. Len(requests) :
      Explained(requests[n].scenario, requests[n].dest)

(* So it is as long as nothing gets past the capture: the proxy lives, has *)
(* the port, can write and streams nothing, and the gap suffices.          *)
Reliable == faults \cap {"proxy", "slow", "disk", "port", "large"} = {}

VerdictTrue == Reliable => VerdictSound

(* The requests that have left the machine, if only in part.               *)
Left == {n \in 1 .. Len(requests) : requests[n].at \in {"forwarded", "streamed", "leaked"}}

(* Even if mitmdump dies, or a leftover proxy answers in its place: what   *)
(* left the machine is explained when the exit code is 0.  With a leftover *)
(* proxy this rests on there being no flows file to judge, so it needs an  *)
(* --output that no earlier run has used.                                  *)
Steady ==
  /\ faults \cap {"slow", "disk", "large"} = {}
  /\ "port" \in faults => earlier = {}

SentIsExplained ==
  exit_code = 0 /\ Steady =>
    \A n \in Left : Explained(requests[n].scenario, requests[n].dest)

(* Exit code 0 also means that every scenario asked for ran to its end: no *)
(* scenario that aborted, or never started, is passed over in silence.     *)
PassIsComplete == exit_code = 0 => finished = 1 .. Len(names)

(* What mitmdump let out is in the flows file already, under the id of     *)
(* that very request, and the flows of an earlier run are not: killing     *)
(* mitmdump at any moment loses no evidence.  (Except that a dump can      *)
(* fail, and that a large body leaves before its request is captured.)     *)
EvidenceKept ==
  faults \cap {"disk", "port"} = {} =>
    \A n \in Left :
      ~requests[n].large \/ requests[n].at = "forwarded" =>
        /\ \E f \in UNION flows_file : f.id = n
        /\ \A f \in UNION flows_file : f.id # 0

(* However the audit ends, it leaves neither mitmdump nor a browser behind. *)
NothingLeftBehind ==
  exit_code # None => proxy \in {"none", "gone"} /\ browser = "none"

(* A run ends with an exit code, whatever hangs or dies, unless a call     *)
(* into Playwright never returns.                                          *)
AuditEnds == <>(exit_code # None) \/ <>[]InPlaywright

(* audit/audit.py: exit code 1 = at least one unexplained request, that is *)
(* one this run captured.                                                  *)
OneMeansUnexplained ==
  exit_code = 1 => Violations(flows \cap UNION flows_file) # {}
=============================================================================
