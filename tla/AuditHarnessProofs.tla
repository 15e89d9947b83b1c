------------------------- MODULE AuditHarnessProofs --------------------------
(***************************************************************************)
(* What an exit code of the audit stands for, proved for every allowlist,  *)
(* every list of scenarios and any number of requests.                     *)
(*                                                                         *)
(* The argument follows main: Stage ties what the other processes may be   *)
(* doing to where main is; Count ties the scenarios that ran to where main *)
(* is; Way says by which way a request can have left, and Kept that the    *)
(* dump on disk never falls behind what was let out.  For the verdict,     *)
(* Attributed says that a request is stamped with its own scenario or with *)
(* a sentinel, which no section of the allowlist excuses, and Settled and  *)
(* Accounted that none is missing when the flows are evaluated.  SentInv   *)
(* is what a dying mitmdump leaves of these, and CalmInv what makes exit   *)
(* code 1 a verdict.                                                       *)
(***************************************************************************)
EXTENDS AuditHarness, TLAPS

InScenario == {"announce", "launch", "attach", "act", "teardown", "reap", "end", "gap"}
Announced  == {"launch", "attach", "act", "teardown", "reap", "end"}
Browsing   == {"attach", "act", "teardown", "reap"}

Stage ==
  /\ pc \in InScenario => i \in 1 .. Len(names) /\ \A k \in 1 .. Len(names) : names[k] \in Scenario
  /\ pc \in Announced => control_file = names[i]
  /\ browser # "none" => pc \in Browsing
  /\ browser = "closing" => pc = "reap"
  /\ Len(requests) <= MaxRequests
  /\ hook # None => hook.id \in 1 .. Len(requests)
  /\ pc \in {"begin", "spawn", "wait_port", "check_names"} => i = 1
  /\ pc \in {"begin", "spawn"} => proxy = "none"
  /\ pc = "evaluate" => proxy = "gone"
  /\ pc = "exited" => proxy \in {"none", "gone"}
  /\ pc \notin {"begin", "spawn", "exited"} => proxy # "none"
  /\ proxy \in {"terminating", "aborting"} => pc = "wait_proxy"
  /\ exit_code # None => pc = "exited"

TypeInv == TypeOK /\ Stage
-----------------------------------------------------------------------------
LEMMA NamesType ==
  ASSUME NEW list \in NameList
  PROVE  /\ Len(list) \in Nat /\ DOMAIN list = 1 .. Len(list)
         /\ list # << >> => Len(list) > 0
  BY NameListAssumption

RequestType == [scenario : Scenario, dest : Destination,
                large : BOOLEAN,
                at : {"proxy", "recorded", "forwarded", "lost", "streamed", "leaked"}]

(* What the end of mitmdump does to the requests leaves them requests.     *)
LEMMA GoneType ==
  ASSUME TypeOK, ProxyGone
  PROVE  /\ requests' \in Seq(RequestType) /\ Len(requests') = Len(requests)
         /\ hook' = None /\ proxy' = "gone"
         /\ \A m \in 1 .. Len(requests) :
              /\ requests'[m].scenario = requests[m].scenario
              /\ requests'[m].dest = requests[m].dest
              /\ requests'[m].large = requests[m].large
              /\ requests[m].at \in {"proxy", "recorded"} => requests'[m].at = "lost"
              /\ requests[m].at = "streamed" => requests'[m].at = "leaked"
              /\ requests[m].at \notin {"proxy", "recorded", "streamed"} =>
                   requests'[m].at = requests[m].at
<1>1. requests \in Seq(RequestType) /\ Len(requests) \in Nat
  BY DEF TypeOK, RequestType
<1> DEFINE To(at) == CASE at \in {"proxy", "recorded"} -> "lost"
                       [] at = "streamed" -> "leaked"
                       [] OTHER -> at
<1>2. requests' = [m \in 1 .. Len(requests) |-> [requests[m] EXCEPT !.at = To(requests[m].at)]]
  BY DEF ProxyGone
<1>3. \A m \in 1 .. Len(requests) : requests[m] \in RequestType
  BY <1>1
<1>t. \A at \in {"proxy", "recorded", "forwarded", "lost", "streamed", "leaked"} :
        /\ To(at) \in {"forwarded", "lost", "leaked"}
        /\ at \in {"proxy", "recorded"} => To(at) = "lost"
        /\ at = "streamed" => To(at) = "leaked"
        /\ at \notin {"proxy", "recorded", "streamed"} => To(at) = at
  OBVIOUS
<1> HIDE DEF To
<1>4. \A m \in 1 .. Len(requests) :
        /\ requests'[m] \in RequestType
        /\ requests'[m].scenario = requests[m].scenario
        /\ requests'[m].dest = requests[m].dest
        /\ requests'[m].large = requests[m].large
        /\ requests'[m].at = To(requests[m].at)
  BY <1>2, <1>3, <1>t DEF RequestType
<1>5. requests' \in Seq(RequestType) /\ Len(requests') = Len(requests)
  BY <1>1, <1>2, <1>4
<1>6. \A m \in 1 .. Len(requests) :
        requests[m].at \in {"proxy", "recorded", "forwarded", "lost", "streamed", "leaked"}
  BY <1>3 DEF RequestType
<1> QED
  BY <1>4, <1>5, <1>6, <1>t DEF ProxyGone

(* A request that moves on remains a request.                              *)
Moved(r, m, at) == [r EXCEPT ![m].at = at]

LEMMA MoveType ==
  ASSUME NEW r \in Seq(RequestType), NEW m \in 1 .. Len(r),
         NEW at \in {"proxy", "recorded", "forwarded", "lost", "streamed", "leaked"}
  PROVE  /\ Moved(r, m, at) \in Seq(RequestType) /\ Len(Moved(r, m, at)) = Len(r)
         /\ Moved(r, m, at)[m].at = at
         /\ \A k \in 1 .. Len(r) : k # m => Moved(r, m, at)[k] = r[k]
         /\ \A k \in 1 .. Len(r) : /\ Moved(r, m, at)[k].scenario = r[k].scenario
                                   /\ Moved(r, m, at)[k].dest = r[k].dest
                                   /\ Moved(r, m, at)[k].large = r[k].large
<1> DEFINE new == [r[m] EXCEPT !.at = at]
           moved == [r EXCEPT ![m] = new]
<1>1. \A k \in 1 .. Len(r) : r[k] \in RequestType
  OBVIOUS
<1>2. /\ new \in RequestType /\ new.scenario = r[m].scenario /\ new.dest = r[m].dest
      /\ new.large = r[m].large /\ new.at = at
  BY <1>1 DEF RequestType
<1> HIDE DEF new
<1>3. /\ moved \in Seq(RequestType) /\ Len(moved) = Len(r)
      /\ moved[m] = new /\ \A k \in 1 .. Len(r) : k # m => moved[k] = r[k]
  BY <1>2
<1>4. Moved(r, m, at) = moved
  BY DEF Moved, new
<1> HIDE DEF moved
<1> QED
  BY <1>2, <1>3, <1>4 DEF new

(* A request on its way through mitmdump: only its place changes.          *)
LEMMA Passing ==
  ASSUME TypeOK, Stream \/ BreakOff \/ Forward
  PROVE  /\ UNCHANGED <<setup, main, control_file, capture, browser>>
         /\ requests' \in Seq(RequestType) /\ Len(requests') = Len(requests)
         /\ \A k \in 1 .. Len(requests) : /\ requests'[k].scenario = requests[k].scenario
                                          /\ requests'[k].dest = requests[k].dest
                                          /\ requests'[k].large = requests[k].large
         /\ \E m \in 1 .. Len(requests) :
              /\ \A k \in 1 .. Len(requests) : k # m => requests'[k] = requests[k]
              /\ \/ requests[m].at = "proxy" /\ requests'[m].at = "streamed" /\ requests[m].large
                 \/ /\ requests[m].at = "streamed" /\ requests'[m].at = "leaked"
                    /\ hook = None
                 \/ requests[m].at = "recorded" /\ requests'[m].at = "forwarded"
<1>1. UNCHANGED <<setup, main, control_file, capture, browser>>
  BY DEF Stream, BreakOff, Forward
<1>2. PICK m \in 1 .. Len(requests) :
        \E at \in {"streamed", "leaked", "forwarded"} :
          /\ requests' = [requests EXCEPT ![m].at = at]
          /\ \/ requests[m].at = "proxy" /\ at = "streamed" /\ requests[m].large
             \/ requests[m].at = "streamed" /\ at = "leaked" /\ hook = None
             \/ requests[m].at = "recorded" /\ at = "forwarded"
  BY DEF Stream, BreakOff, Forward, AtProxy
<1>3. PICK at \in {"streamed", "leaked", "forwarded"} :
        /\ requests' = [requests EXCEPT ![m].at = at]
        /\ \/ requests[m].at = "proxy" /\ at = "streamed" /\ requests[m].large
           \/ requests[m].at = "streamed" /\ at = "leaked" /\ hook = None
           \/ requests[m].at = "recorded" /\ at = "forwarded"
  BY <1>2
<1>4. requests' = Moved(requests, m, at)
  BY <1>3 DEF Moved
<1>5. /\ requests \in Seq(RequestType)
      /\ at \in {"proxy", "recorded", "forwarded", "lost", "streamed", "leaked"}
  BY DEF TypeOK, RequestType
<1>6. /\ requests' \in Seq(RequestType) /\ Len(requests') = Len(requests)
      /\ requests'[m].at = at
      /\ \A k \in 1 .. Len(requests) : k # m => requests'[k] = requests[k]
      /\ \A k \in 1 .. Len(requests) : /\ requests'[k].scenario = requests[k].scenario
                                       /\ requests'[k].dest = requests[k].dest
                                       /\ requests'[k].large = requests[k].large
  BY <1>4, <1>5, MoveType
<1> QED
  BY <1>1, <1>3, <1>6

(* What the addon has captured moves on.                                   *)
LEMMA Recording ==
  ASSUME TypeInv, Record
  PROVE  /\ hook.id \in 1 .. Len(requests) /\ hook \in Flow
         /\ requests' \in Seq(RequestType) /\ Len(requests') = Len(requests)
         /\ requests'[hook.id].at \in {"recorded", "forwarded"}
         /\ ~requests[hook.id].large /\ requests[hook.id].at # "streamed" =>
              requests'[hook.id].at = "recorded"
         /\ \A k \in 1 .. Len(requests) : k # hook.id => requests'[k] = requests[k]
         /\ \A k \in 1 .. Len(requests) : /\ requests'[k].scenario = requests[k].scenario
                                          /\ requests'[k].dest = requests[k].dest
                                          /\ requests'[k].large = requests[k].large
<1>1. hook.id \in 1 .. Len(requests) /\ hook \in Flow /\ requests \in Seq(RequestType)
  BY DEF Record, TypeInv, TypeOK, Stage, RequestType
<1> DEFINE at == Recorded(requests[hook.id].at)
<1>2. at \in {"recorded", "forwarded"} /\ (requests[hook.id].at # "streamed" => at = "recorded")
  BY DEF Recorded
<1>3. requests' = [requests EXCEPT ![hook.id].at = at]
  BY DEF Record
<1> HIDE DEF at
<1>4. requests' = Moved(requests, hook.id, at)
  BY <1>3 DEF Moved
<1>5. at \in {"proxy", "recorded", "forwarded", "lost", "streamed", "leaked"}
  BY <1>2
<1>6. /\ requests' \in Seq(RequestType) /\ Len(requests') = Len(requests)
      /\ requests'[hook.id].at = at
      /\ \A k \in 1 .. Len(requests) : k # hook.id => requests'[k] = requests[k]
      /\ \A k \in 1 .. Len(requests) : /\ requests'[k].scenario = requests[k].scenario
                                       /\ requests'[k].dest = requests[k].dest
                                       /\ requests'[k].large = requests[k].large
  BY <1>1, <1>4, <1>5, MoveType
<1> QED
  BY <1>1, <1>2, <1>6

(* What was settled before the run stays so.                               *)
LEMMA SetupKept == [Next]_vars => UNCHANGED setup
  BY DEF Next, Main, Mitmdump, Begin, Spawn, WaitForPort, CheckNames, Announce, Launch,
     LaunchRaise, Attach, AttachRaise, Act, ActRaise, Teardown, Reap, EndScenario, Gap,
     NextScenario, Stop, Stopped, Kill, Evaluate, Listen, Running, ReadScenario, Record,
     BeginRaise, SpawnRaise, Stream, BreakOff, Forward, Done, Abort, ProxyDies, BrowserExits,
     Request, vars

LEMMA TypeInit == Init => TypeInv
<1> SUFFICES ASSUME Init PROVE TypeInv
  OBVIOUS
<1>1. requests = << >> /\ requests \in Seq(RequestType) /\ Len(requests) = 0
  BY DEF Init
<1>2. TypeOK
  BY <1>1, FaultsAssumption, EarlierAssumption DEF Init, TypeOK, RequestType
<1>3. Stage
  BY <1>1, MaxRequestsAssumption DEF Init, Stage, InScenario, Announced, Browsing
<1> QED
  BY <1>2, <1>3 DEF TypeInv

LEMMA TypeStep == TypeInv /\ [Next]_vars => TypeInv'
<1> SUFFICES ASSUME TypeInv, [Next]_vars
             PROVE  TypeInv'
  OBVIOUS
<1> USE DEF TypeInv
<1>u. Len(names) \in Nat /\ Len(requests) \in Nat /\ i \in Nat
  BY NamesType DEF TypeOK
<1>n. None \notin {0, 1, 2} /\ None \notin Flow
  BY NoneAssumption
<1>1. CASE Begin
  BY <1>1, <1>u, <1>n DEF Begin, Exit, Goto, setup, capture, Stamp,
     TypeOK, Stage, InScenario, Announced, Browsing
<1>2. CASE Spawn
  BY <1>2, <1>u, <1>n DEF Spawn, Exit, Goto, setup,
     TypeOK, Stage, InScenario, Announced, Browsing
<1>3. CASE WaitForPort
  BY <1>3, <1>u DEF WaitForPort, Raise, Goto, setup, capture,
     TypeOK, Stage, InScenario, Announced, Browsing
<1>4. CASE CheckNames
  <2>1. UNCHANGED <<setup, capture, browser, requests, i, exit_code, finished>>
    BY <1>4 DEF CheckNames, AnnounceScenario, Goto, Raise
  <2>2. i = 1 /\ pc = "check_names" /\ browser = "none" /\ exit_code = None
    BY <1>4 DEF CheckNames, Stage, Browsing
  <2>3. CASE Runnable
    <3>1. \/ /\ control_file' = BETWEEN /\ raised' = raised
             /\ pc' = IF names = << >> THEN "stop" ELSE "announce"
          \/ control_file' = control_file /\ raised' = "other" /\ pc' = "stop"
      BY <1>4, <2>3 DEF CheckNames, AnnounceScenario, Goto, Raise
    <3>2. names # << >> => i \in 1 .. Len(names)
      BY <1>u, <2>2, NamesType DEF TypeOK
    <3> QED
      BY <2>1, <2>2, <2>3, <3>1, <3>2
         DEF Runnable, Stamp, setup, capture, TypeOK, Stage, InScenario, Announced, Browsing
  <2>4. CASE ~Runnable
    <3>1. control_file' = control_file /\ pc' = "stop" /\ raised' = "unavailable"
      BY <1>4, <2>4 DEF CheckNames, Raise
    <3> QED
      BY <2>1, <2>2, <3>1
         DEF setup, capture, TypeOK, Stage, InScenario, Announced, Browsing
  <2> QED
    BY <2>3, <2>4
<1>5. CASE Announce
  BY <1>5, <1>u DEF Announce, AnnounceScenario, Goto, Raise, setup, capture, Stamp,
     TypeOK, Stage, InScenario, Announced, Browsing
<1>6. CASE Launch
  BY <1>6, <1>u DEF Launch, Goto, setup, capture,
     TypeOK, Stage, InScenario, Announced, Browsing
<1>7. CASE LaunchRaise
  BY <1>7, <1>u DEF LaunchRaise, Raise, setup, capture,
     TypeOK, Stage, InScenario, Announced, Browsing
<1>8. CASE Attach
  BY <1>8, <1>u DEF Attach, Goto, setup, capture,
     TypeOK, Stage, InScenario, Announced, Browsing
<1>9. CASE AttachRaise
  BY <1>9, <1>u DEF AttachRaise, Raise, setup, capture,
     TypeOK, Stage, InScenario, Announced, Browsing
<1>10. CASE Act
  BY <1>10, <1>u DEF Act, setup, capture,
     TypeOK, Stage, InScenario, Announced, Browsing
<1>11. CASE ActRaise
  BY <1>11, <1>u DEF ActRaise, Raise, setup, capture,
     TypeOK, Stage, InScenario, Announced, Browsing
<1>12. CASE Teardown
  <2>1. /\ UNCHANGED <<setup, control_file, capture, requests, i, raised, exit_code, finished>>
        /\ pc = "teardown" /\ exit_code = None
    BY <1>12 DEF Teardown, Goto, Stage
  <2>2. \/ pc' = "reap" /\ browser' = "closing"
        \/ pc' = "end" /\ browser' = browser /\ browser # "up"
    BY <1>12 DEF Teardown, Goto
  <2>3. browser = "closing" => pc = "reap"
    BY DEF Stage
  <2> QED
    BY <2>1, <2>2, <2>3
       DEF setup, capture, TypeOK, Stage, InScenario, Announced, Browsing
<1>13. CASE Reap
  BY <1>13, <1>u DEF Reap, Goto, setup, capture,
     TypeOK, Stage, InScenario, Announced, Browsing
<1>14. CASE EndScenario
  BY <1>14, <1>u DEF EndScenario, AnnounceScenario, Goto, Raise, setup, capture, Stamp,
     TypeOK, Stage, InScenario, Announced, Browsing
<1>15. CASE Gap
  BY <1>15, <1>u DEF Gap, NextScenario, setup, capture,
     TypeOK, Stage, InScenario, Announced, Browsing
<1>16. CASE Stop
  BY <1>16, <1>u DEF Stop, Goto, setup,
     TypeOK, Stage, InScenario, Announced, Browsing
<1>17. CASE Stopped
  BY <1>17, <1>u DEF Stopped, Goto, setup, capture,
     TypeOK, Stage, InScenario, Announced, Browsing
<1>18. CASE Kill
  BY <1>18, <1>u, GoneType DEF Kill, Goto, setup, RequestType,
     TypeOK, Stage, InScenario, Announced, Browsing
<1>19. CASE Evaluate
  BY <1>19, <1>u, <1>n DEF Evaluate, Exit, setup, capture,
     TypeOK, Stage, InScenario, Announced, Browsing
<1>20. CASE BrowserExits
  BY <1>20, <1>u DEF BrowserExits, setup, main, capture,
     TypeOK, Stage, InScenario, Announced, Browsing
<1>21. CASE Listen
  BY <1>21, <1>u DEF Listen, setup, main,
     TypeOK, Stage, InScenario, Announced, Browsing
<1>22. CASE Running
  BY <1>22, <1>u DEF Running, Dump, setup, main,
     TypeOK, Stage, InScenario, Announced, Browsing
<1>23. CASE ProxyDies
  BY <1>23, <1>u, GoneType DEF ProxyDies, setup, main, RequestType,
     TypeOK, Stage, InScenario, Announced, Browsing
<1>24. CASE Done
  BY <1>24, <1>u, GoneType DEF Done, Dump, setup, main, RequestType,
     TypeOK, Stage, InScenario, Announced, Browsing
<1>25. CASE \E dest \in Destination, large \in BOOLEAN : Request(dest, large)
  <2>1. PICK dest \in Destination, large \in BOOLEAN : Request(dest, large)
    BY <1>25
  <2>2. PICK at \in {"proxy", "leaked", "lost"} :
          requests' = Append(requests, [scenario |-> names[i], dest |-> dest,
                                        large |-> large, at |-> at])
    BY <2>1 DEF Request, Receivers
  <2> DEFINE r == [scenario |-> names[i], dest |-> dest, large |-> large, at |-> at]
  <2>3. names[i] \in Scenario /\ Len(requests) < MaxRequests
    BY <2>1 DEF Request, Stage, Browsing, InScenario
  <2>4. r \in RequestType
    BY <2>3 DEF RequestType
  <2>5. requests' \in Seq(RequestType) /\ Len(requests') = Len(requests) + 1
    BY <2>2, <2>4 DEF TypeOK, RequestType
  <2> QED
    BY <2>1, <2>3, <2>5, <1>u, MaxRequestsAssumption
       DEF Request, setup, main, capture, TypeOK, Stage, RequestType
<1>26. CASE ReadScenario
  <2>1. PICK m \in AtProxy :
          hook' = [id |-> m, dest |-> requests[m].dest,
                   scenario |-> IF control_file = None THEN UNATTRIBUTED ELSE control_file]
    BY <1>26 DEF ReadScenario
  <2>2. m \in 1 .. Len(requests) /\ requests[m] \in RequestType
    <3>1. requests \in Seq(RequestType)
      BY DEF TypeOK, RequestType
    <3> QED
      BY <2>1, <3>1 DEF AtProxy
  <2>3. m \in 1 .. MaxRequests
    BY <2>2, <1>u, MaxRequestsAssumption DEF Stage
  <2>4. hook' \in Flow /\ hook'.id = m
    BY <2>1, <2>2, <2>3, MaxRequestsAssumption DEF Flow, Stamp, RequestType, TypeOK
  <2> QED
    BY <1>26, <2>2, <2>4 DEF ReadScenario, setup, main, TypeOK, Stage
<1>27. CASE Record
  <2>1. /\ hook \in Flow /\ requests' \in Seq(RequestType) /\ Len(requests') = Len(requests)
    BY <1>27, Recording
  <2> QED
    BY <1>27, <2>1 DEF Record, Dump, setup, main, TypeOK, Stage, RequestType
<1>28. CASE Stream \/ BreakOff \/ Forward
  <2>1. /\ UNCHANGED <<setup, main, control_file, capture, browser>>
        /\ requests' \in Seq(RequestType) /\ Len(requests') = Len(requests)
    BY <1>28, Passing
  <2> QED
    BY <2>1 DEF setup, main, capture, TypeOK, Stage, RequestType
<1>30. CASE BeginRaise \/ SpawnRaise
  BY <1>30, <1>u, <1>n DEF BeginRaise, SpawnRaise, Exit, setup, capture,
     TypeOK, Stage, InScenario, Announced, Browsing
<1>31. CASE Abort
  BY <1>31, <1>u, GoneType DEF Abort, setup, main, RequestType,
     TypeOK, Stage, InScenario, Announced, Browsing
<1>29. CASE UNCHANGED vars
  BY <1>29 DEF vars, setup, main, capture, TypeOK, Stage
<1> QED
  BY <1>1, <1>2, <1>3, <1>4, <1>5, <1>6, <1>7, <1>8, <1>9, <1>10, <1>11, <1>12, <1>13, <1>14, <1>15,
     <1>16, <1>17, <1>18, <1>19, <1>20, <1>21, <1>22, <1>23, <1>24, <1>25, <1>26, <1>27, <1>28, <1>29,
     <1>30, <1>31
     DEF Next, Main, Mitmdump

(* Every variable keeps its type.                                          *)
THEOREM TypeCorrect == Spec => []TypeOK
<1>1. TypeInv => TypeOK
  BY DEF TypeInv
<1> QED
  BY TypeInit, TypeStep, <1>1, PTL DEF Spec

(* However the audit ends, it leaves neither mitmdump nor a browser behind. *)
THEOREM Leftovers == Spec => []NothingLeftBehind
<1>1. TypeInv => NothingLeftBehind
  BY DEF TypeInv, Stage, Browsing, NothingLeftBehind
<1> QED
  BY TypeInit, TypeStep, <1>1, PTL DEF Spec
-----------------------------------------------------------------------------
(* Which scenarios have run to their end, as long as nothing was raised.   *)
Count ==
  /\ pc \in {"begin", "spawn", "wait_port", "check_names"} =>
       finished = {} /\ raised = "none"
  /\ pc \in {"announce", "launch", "attach", "act"} =>
       finished = 1 .. (i - 1) /\ raised = "none"
  /\ pc \in {"teardown", "reap", "end", "gap"} /\ raised = "none" => finished = 1 .. i
  /\ pc = "gap" => raised = "none"
  /\ pc \in {"stop", "wait_proxy", "evaluate"} /\ raised = "none" =>
       finished = 1 .. Len(names)
  /\ PassIsComplete

LEMMA CountInit == Init => Count
  BY NoneAssumption DEF Init, Count, PassIsComplete

LEMMA CountStep == TypeInv /\ Count /\ [Next]_vars => Count'
<1> SUFFICES ASSUME TypeInv, Count, [Next]_vars
             PROVE  Count'
  OBVIOUS
<1> USE DEF Count, PassIsComplete
<1>u. /\ Len(names) \in Nat /\ i \in Nat
      /\ names = << >> => Len(names) = 0
      /\ names # << >> => Len(names) > 0
  BY NamesType DEF TypeInv, TypeOK
<1>n. None \notin {0, 1, 2}
  BY NoneAssumption
<1>e. exit_code # None => pc = "exited"
  BY DEF TypeInv, Stage
<1>1. CASE Begin \/ BeginRaise
  BY <1>1, <1>n, <1>e DEF Begin, BeginRaise, Exit, Goto, setup
<1>2. CASE Spawn \/ SpawnRaise
  BY <1>2, <1>n, <1>e DEF Spawn, SpawnRaise, Exit, Goto, setup
<1>3. CASE WaitForPort
  BY <1>3, <1>n, <1>e DEF WaitForPort, Raise, Goto, setup
<1>4. CASE CheckNames
  <2>1. i = 1 /\ pc = "check_names" /\ names' = names /\ exit_code' = exit_code
    BY <1>4 DEF CheckNames, AnnounceScenario, Goto, Raise, setup, TypeInv, Stage
  <2>2. exit_code = None /\ finished' = finished /\ i' = i
    BY <1>4, <1>e DEF CheckNames, AnnounceScenario, Goto, Raise
  <2>3. CASE raised' = "none"
    <3>1. pc' = IF names = << >> THEN "stop" ELSE "announce"
      BY <1>4, <2>3 DEF CheckNames, AnnounceScenario, Goto, Raise
    <3>2. finished = {} /\ finished' = {} /\ i' = 1
      BY <2>1, <2>2
    <3>3. CASE names = << >>
      <4>1. pc' = "stop" /\ Len(names) = 0
        BY <1>u, <3>1, <3>3
      <4>2. 1 .. Len(names') = {}
        BY <2>1, <4>1
      <4> QED
        BY <1>n, <2>1, <2>2, <3>2, <4>1, <4>2
    <3>4. CASE names # << >>
      <4>1. pc' = "announce" /\ 1 .. (i' - 1) = {}
        BY <3>1, <3>2, <3>4
      <4> QED
        BY <1>n, <2>1, <2>2, <2>3, <3>2, <4>1
    <3> QED
      BY <3>3, <3>4
  <2>4. CASE raised' # "none"
    <3>1. pc' = "stop"
      BY <1>4, <2>4 DEF CheckNames, AnnounceScenario, Goto, Raise
    <3> QED
      BY <1>n, <2>1, <2>2, <2>4, <3>1
  <2> QED
    BY <2>3, <2>4
<1>5. CASE Announce \/ Launch \/ Attach
  BY <1>5, <1>n, <1>e DEF Announce, AnnounceScenario, Launch, Attach, Goto, Raise, setup
<1>6. CASE LaunchRaise \/ AttachRaise \/ ActRaise
  BY <1>6, <1>n, <1>e DEF LaunchRaise, AttachRaise, ActRaise, Raise, setup
<1>7. CASE Act
  <2>1. i \in 1 .. Len(names)
    BY <1>7 DEF Act, TypeInv, Stage, InScenario
  <2>2. (1 .. (i - 1)) \cup {i} = 1 .. i
    BY <2>1, <1>u
  <2> QED
    BY <1>7, <1>n, <1>e, <2>2 DEF Act, setup
<1>8. CASE Teardown \/ Reap \/ EndScenario
  BY <1>8, <1>n, <1>e DEF Teardown, Reap, EndScenario, AnnounceScenario, Goto, Raise, setup
<1>9. CASE Gap
  <2>1. i \in 1 .. Len(names)
    BY <1>9 DEF Gap, TypeInv, Stage, InScenario
  <2>2. i < Len(names) => (i + 1) - 1 = i
    BY <1>u
  <2>3. ~(i < Len(names)) => i = Len(names)
    BY <2>1, <1>u
  <2> QED
    BY <1>9, <1>n, <1>e, <2>2, <2>3 DEF Gap, NextScenario, setup
<1>10. CASE Stop \/ Stopped \/ Kill
  BY <1>10, <1>n, <1>e DEF Stop, Stopped, Kill, Goto, setup
<1>11. CASE Evaluate
  <2>1. /\ UNCHANGED <<names, i, raised, finished>>
        /\ pc = "evaluate" /\ pc' = "exited"
    BY <1>11 DEF Evaluate, Exit, setup
  <2>2. exit_code' = 0 => raised = "none"
    BY <1>11 DEF Evaluate, Exit, TypeInv, TypeOK
  <2> QED
    BY <2>1, <2>2
<1>12. CASE Mitmdump \/ ProxyDies \/ BrowserExits \/ \E dest \in Destination, large \in BOOLEAN : Request(dest, large)
  <2>1. UNCHANGED <<setup, main>>
    BY <1>12 DEF Mitmdump, Listen, Running, Stream, BreakOff, ReadScenario, Record, Forward,
       Done, Abort, ProxyDies, BrowserExits, Request
  <2> QED
    BY <2>1 DEF setup, main
<1>13. CASE UNCHANGED vars
  BY <1>13 DEF vars, setup, main
<1> QED
  BY <1>1, <1>2, <1>3, <1>4, <1>5, <1>6, <1>7, <1>8, <1>9, <1>10, <1>11, <1>12, <1>13
     DEF Next, Main

(* Exit code 0: every scenario asked for ran to its end, whatever died.    *)
THEOREM NothingPassedOver == Spec => []PassIsComplete
<1>1. TypeInv /\ Count /\ [Next]_vars => (TypeInv /\ Count)'
  BY TypeStep, CountStep
<1>2. Count => PassIsComplete
  BY DEF Count
<1> QED
  BY TypeInit, CountInit, <1>1, <1>2, PTL DEF Spec
-----------------------------------------------------------------------------
(* Only a large request is streamed, and what leaves unseen is large or    *)
(* went to a leftover proxy; mitmdump then never gets its port.            *)
Way ==
  /\ \A n \in 1 .. Len(requests) :
       /\ requests[n].large => "large" \in faults
       /\ requests[n].at = "streamed" => requests[n].large
       /\ requests[n].at = "leaked" => requests[n].large \/ "port" \in faults
  /\ "port" \in faults =>
       /\ proxy \in {"none", "starting", "aborting", "gone"}
       /\ hook = None /\ flows_file = earlier

LEMMA WayInit == Init => Way
<1> SUFFICES ASSUME Init PROVE Way
  OBVIOUS
<1>1. Len(requests) = 0
  BY DEF Init
<1> QED
  BY <1>1 DEF Init, Way

LEMMA WayStep == TypeInv /\ Way /\ [Next]_vars => Way'
<1> SUFFICES ASSUME TypeInv, Way, [Next]_vars
             PROVE  Way'
  OBVIOUS
<1>r. requests \in Seq(RequestType) /\ Len(requests) \in Nat
  BY DEF TypeInv, TypeOK, RequestType
<1>f. faults' = faults /\ earlier' = earlier
  BY SetupKept DEF setup
<1>1. CASE UNCHANGED <<requests, capture>>
  BY <1>1, <1>f DEF Way, capture
<1>2. CASE Kill \/ Done \/ Abort \/ ProxyDies
  <2>1. ProxyGone /\ (flows_file' = flows_file \/ proxy = "terminating")
    BY <1>2 DEF Kill, Done, Abort, ProxyDies
  <2>2. /\ Len(requests') = Len(requests) /\ proxy' = "gone" /\ hook' = None
        /\ \A m \in 1 .. Len(requests) :
             /\ requests'[m].large = requests[m].large
             /\ requests'[m].at # "streamed"
             /\ requests'[m].at = "leaked" => requests[m].at \in {"streamed", "leaked"}
    <3>1. \A m \in 1 .. Len(requests) : requests[m] \in RequestType
      BY <1>r
    <3> QED
      BY <2>1, <3>1, GoneType DEF TypeInv, RequestType
  <2> QED
    BY <2>1, <2>2, <1>f DEF Way
<1>3. CASE Spawn \/ Stop
  <2>1. /\ UNCHANGED <<requests, hook, flows_file>>
        /\ proxy' \in {proxy, "starting"} \/ (proxy = "starting" /\ proxy' = "aborting")
           \/ (proxy \notin {"starting", "gone"} /\ pc = "stop")
    BY <1>3 DEF Spawn, Stop, Exit, Goto
  <2>2. pc = "stop" => proxy # "none" /\ proxy # "aborting"
    BY DEF TypeInv, Stage
  <2> QED
    BY <1>f, <2>1, <2>2 DEF Way
<1>4. CASE Listen \/ Running \/ ReadScenario
  BY <1>4, <1>f DEF Listen, Running, ReadScenario, Way
<1>5. CASE Record
  <2>1. "port" \notin faults
    BY <1>5 DEF Record, Way
  <2>2. /\ Len(requests') = Len(requests)
        /\ \A n \in 1 .. Len(requests) :
             /\ requests'[n].large = requests[n].large
             /\ requests'[n].at \in {"recorded", "forwarded"} \/ requests'[n] = requests[n]
    BY <1>5, Recording
  <2> QED
    BY <2>1, <2>2, <1>f DEF Way
<1>6. CASE Stream \/ BreakOff \/ Forward
  <2>1. UNCHANGED capture
    BY <1>6, Passing DEF TypeInv
  <2>2. /\ Len(requests') = Len(requests)
        /\ \A n \in 1 .. Len(requests) : requests'[n].large = requests[n].large
        /\ \E m \in 1 .. Len(requests) :
             /\ \A n \in 1 .. Len(requests) : n # m => requests'[n] = requests[n]
             /\ \/ requests'[m].at = "streamed" /\ requests[m].large
                \/ requests'[m].at = "leaked" /\ requests[m].at = "streamed"
                \/ requests'[m].at = "forwarded"
    BY <1>6, Passing DEF TypeInv
  <2> QED
    BY <2>1, <2>2, <1>f DEF Way, capture
<1>7. CASE \E dest \in Destination, large \in BOOLEAN : Request(dest, large)
  <2>1. PICK dest \in Destination, large \in BOOLEAN : Request(dest, large)
    BY <1>7
  <2>2. PICK at \in Receivers :
          requests' = Append(requests, [scenario |-> names[i], dest |-> dest,
                                        large |-> large, at |-> at])
    BY <2>1 DEF Request
  <2>3. /\ at \in {"proxy", "lost"} \/ (at = "leaked" /\ "port" \in faults)
        /\ large => "large" \in faults
        /\ UNCHANGED capture
    BY <2>1 DEF Request, Receivers
  <2> DEFINE r == [scenario |-> names[i], dest |-> dest, large |-> large, at |-> at]
  <2>4. r.large = large /\ r.at = at
    OBVIOUS
  <2> HIDE DEF r
  <2>5. /\ Len(requests') = Len(requests) + 1
        /\ \A n \in 1 .. Len(requests) : requests'[n] = requests[n]
        /\ requests'[Len(requests) + 1] = r
    BY <2>2, <1>r DEF r
  <2> QED
    BY <2>3, <2>4, <2>5, <1>r, <1>f DEF Way, capture
<1>8. CASE \/ Begin \/ BeginRaise \/ SpawnRaise \/ WaitForPort \/ CheckNames \/ Announce
           \/ Launch \/ LaunchRaise \/ Attach \/ AttachRaise \/ Act \/ ActRaise \/ Teardown
           \/ Reap \/ EndScenario \/ Gap \/ Stopped \/ Evaluate \/ BrowserExits
           \/ UNCHANGED vars
  BY <1>8, <1>1 DEF Begin, BeginRaise, SpawnRaise, WaitForPort, CheckNames, Announce, Launch,
     LaunchRaise, Attach, AttachRaise, Act, ActRaise, Teardown, Reap, EndScenario, Gap,
     NextScenario, Stopped, Evaluate, BrowserExits, vars
<1> QED
  BY <1>2, <1>3, <1>4, <1>5, <1>6, <1>7, <1>8 DEF Next, Main, Mitmdump
-----------------------------------------------------------------------------
(* The dump on disk holds no flow the addon has not captured or found      *)
(* there, and none is missing for a request that has got past the addon's  *)
(* hook, unless dumps failed; it is then this run's alone.                 *)
InFile(n) == \E f \in UNION flows_file : f.id = n

Kept ==
  /\ UNION flows_file \subseteq flows \cup UNION earlier
  /\ \A f \in flows : f.id # 0
  /\ "disk" \notin faults => \A n \in 1 .. Len(requests) :
       requests[n].at \in {"recorded", "forwarded"} =>
         InFile(n) /\ UNION flows_file \subseteq flows

LEMMA KeptInit == Init => Kept
<1> SUFFICES ASSUME Init PROVE Kept
  OBVIOUS
<1>1. Len(requests) = 0 /\ UNION flows_file = UNION earlier /\ flows = {}
  BY DEF Init
<1> QED
  BY <1>1 DEF Kept

(* A flow of an earlier run is no request of this one.                     *)
LEMMA Stale == TypeInv => \A f \in UNION earlier : f.id = 0
  BY EarlierAssumption DEF TypeInv, TypeOK

(* A dump replaces the file, and never loses a request of this run.        *)
LEMMA FileStep ==
  ASSUME TypeInv, Kept, flows \subseteq flows',
         flows_file' = flows_file \/ flows_file' = {flows'}
  PROVE  /\ earlier' = earlier => UNION flows_file' \subseteq flows' \cup UNION earlier'
         /\ UNION flows_file \subseteq flows => UNION flows_file' \subseteq flows'
         /\ \A n \in 1 .. Len(requests) : InFile(n) => InFile(n)'
<1>1. flows_file' = {flows'} => UNION flows_file' = flows'
  OBVIOUS
<1>2. ASSUME NEW n \in 1 .. Len(requests), InFile(n), flows_file' = {flows'}
      PROVE  InFile(n)'
  <2>1. PICK f \in UNION flows_file : f.id = n
    BY <1>2 DEF InFile
  <2>2. n # 0
    BY DEF TypeInv, TypeOK
  <2>3. f \in flows
    BY <2>1, <2>2, Stale DEF Kept
  <2> QED
    BY <1>1, <1>2, <2>1, <2>3 DEF InFile
<1>3. ASSUME NEW n \in 1 .. Len(requests), InFile(n), flows_file' = flows_file
      PROVE  InFile(n)'
  BY <1>3 DEF InFile
<1>4. UNION flows_file' = UNION flows_file \/ UNION flows_file' = flows'
  BY <1>1
<1> QED
  BY <1>2, <1>3, <1>4 DEF Kept

LEMMA KeptStep == TypeInv /\ Kept /\ [Next]_vars => Kept'
<1> SUFFICES ASSUME TypeInv, Kept, [Next]_vars
             PROVE  Kept'
  OBVIOUS
<1>r. requests \in Seq(RequestType) /\ Len(requests) \in Nat
  BY DEF TypeInv, TypeOK, RequestType
<1>f. faults' = faults /\ earlier' = earlier
  BY SetupKept DEF setup
<1>1. CASE UNCHANGED <<flows, flows_file, requests>>
  BY <1>1, <1>f DEF Kept, InFile
<1>2. CASE ProxyGone /\ flows' = flows /\ (flows_file' = flows_file \/ flows_file' = {flows})
  <2>1. /\ Len(requests') = Len(requests)
        /\ \A n \in 1 .. Len(requests) :
             requests'[n].at \in {"recorded", "forwarded"} => requests[n].at = requests'[n].at
    <3>1. \A m \in 1 .. Len(requests) : requests[m] \in RequestType
      BY <1>r
    <3> QED
      BY <1>2, <1>r, <3>1, GoneType DEF TypeInv, RequestType
  <2> QED
    BY <1>2, <1>f, <2>1, FileStep DEF Kept
<1>3. CASE Running
  <2>1. flows' = flows /\ requests' = requests /\ (flows_file' = flows_file \/ flows_file' = {flows'})
    BY <1>3 DEF Running, Dump
  <2> QED
    BY <2>1, <1>f, FileStep DEF Kept
<1>4. CASE Record
  <2>1. /\ flows' = flows \cup {hook}
        /\ flows_file' = flows_file \/ flows_file' = {flows'}
        /\ "disk" \notin faults => flows_file' = {flows'}
    BY <1>4 DEF Record, Dump
  <2>2. PICK m \in 1 .. Len(requests) :
          /\ m = hook.id /\ Len(requests') = Len(requests)
          /\ \A n \in 1 .. Len(requests) : n # m => requests'[n] = requests[n]
    BY <1>4, Recording
  <2>3. hook.id # 0
    BY <2>2, <1>r
  <2>4. "disk" \notin faults => UNION flows_file' = flows'
    BY <2>1
  <2>7. "disk" \notin faults => InFile(m)'
    BY <2>1, <2>2, <2>4 DEF InFile
  <2>5. ASSUME "disk" \notin faults, NEW n \in 1 .. Len(requests),
               requests'[n].at \in {"recorded", "forwarded"}
        PROVE  InFile(n)' /\ UNION flows_file' \subseteq flows'
    <3>1. CASE n = m
      BY <2>4, <2>5, <2>7, <3>1
    <3>2. CASE n # m
      BY <2>1, <2>2, <2>4, <2>5, <3>2, FileStep DEF Kept
    <3> QED
      BY <3>1, <3>2
  <2>6. UNION flows_file' \subseteq flows' \cup UNION earlier' /\ \A f \in flows' : f.id # 0
    BY <2>1, <2>3, <1>f, FileStep DEF Kept
  <2> QED
    BY <2>2, <2>5, <2>6, <1>f DEF Kept
<1>5. CASE Stream \/ BreakOff \/ Forward
  <2>1. UNCHANGED <<flows, flows_file>>
    BY <1>5, Passing DEF TypeInv, capture
  <2>2. /\ Len(requests') = Len(requests)
        /\ \A n \in 1 .. Len(requests) : requests'[n].at \in {"recorded", "forwarded"} =>
             requests[n].at \in {"recorded", "forwarded"}
    BY <1>5, Passing DEF TypeInv
  <2> QED
    BY <2>1, <2>2, <1>f DEF Kept, InFile
<1>6. CASE \E dest \in Destination, large \in BOOLEAN : Request(dest, large)
  <2>1. PICK dest \in Destination, large \in BOOLEAN : Request(dest, large)
    BY <1>6
  <2>2. PICK at \in {"proxy", "leaked", "lost"} :
          requests' = Append(requests, [scenario |-> names[i], dest |-> dest,
                                        large |-> large, at |-> at])
    BY <2>1 DEF Request, Receivers
  <2>3. PICK r : requests' = Append(requests, r) /\ r.at \in {"proxy", "leaked", "lost"}
    BY <2>2
  <2>4. flows' = flows /\ flows_file' = flows_file
    BY <2>1 DEF Request, capture
  <2>5. /\ Len(requests') = Len(requests) + 1
        /\ \A n \in 1 .. Len(requests) : requests'[n] = requests[n]
        /\ requests'[Len(requests) + 1] = r
    BY <2>3, <1>r
  <2> QED
    BY <2>3, <2>4, <2>5, <1>r, <1>f DEF Kept, InFile
<1>7. CASE Kill \/ Done \/ Abort \/ ProxyDies
  BY <1>7, <1>2 DEF Kill, Done, Dump, Abort, ProxyDies
<1>8. CASE \/ Begin \/ BeginRaise \/ Spawn \/ SpawnRaise \/ WaitForPort \/ CheckNames \/ Announce
           \/ Launch \/ LaunchRaise \/ Attach \/ AttachRaise \/ Act \/ ActRaise \/ Teardown
           \/ Reap \/ EndScenario \/ Gap \/ Stop \/ Stopped \/ Evaluate \/ Listen
           \/ ReadScenario \/ BrowserExits \/ UNCHANGED vars
  BY <1>8, <1>1 DEF Begin, BeginRaise, Spawn, SpawnRaise, WaitForPort, CheckNames, Announce,
     Launch, LaunchRaise, Attach, AttachRaise, Act, ActRaise, Teardown, Reap, EndScenario, Gap,
     NextScenario, Stop, Stopped, Evaluate, Listen, ReadScenario, BrowserExits, vars, capture
<1> QED
  BY <1>3, <1>4, <1>5, <1>6, <1>7, <1>8 DEF Next, Main, Mitmdump

(* Whatever mitmdump let out is in the flows file, even if it dies, as     *)
(* long as dumps succeed; of a body that it streams, once it is complete.  *)
THEOREM NoEvidenceLost == Spec => []EvidenceKept
<1>1. TypeInv /\ Way /\ Kept /\ [Next]_vars => (TypeInv /\ Way /\ Kept)'
  BY TypeStep, WayStep, KeptStep
<1>2. Way /\ Kept => EvidenceKept
  <2> SUFFICES ASSUME Way, Kept, "disk" \notin faults, "port" \notin faults, NEW n \in Left,
                      ~requests[n].large \/ requests[n].at = "forwarded"
               PROVE  InFile(n) /\ \A f \in UNION flows_file : f.id # 0
    BY DEF EvidenceKept, InFile
  <2>1. n \in 1 .. Len(requests) /\ requests[n].at = "forwarded"
    BY DEF Left, Way
  <2> QED
    BY <2>1 DEF Kept
<1> QED
  BY TypeInit, WayInit, KeptInit, <1>1, <1>2, PTL DEF Spec
-----------------------------------------------------------------------------
(* From here on nothing gets past the capture.                             *)

Before  == {"begin", "spawn", "wait_port", "check_names"}
Over    == {"stop", "wait_proxy", "evaluate", "exited"}

(* Where mitmdump is, by where main is.                                    *)
Alive ==
  /\ pc \in {"check_names"} \cup InScenario => proxy \in {"listening", "running"}
  /\ proxy \in {"terminating", "aborting"} => pc = "wait_proxy"
  /\ proxy = "gone" => pc \in Over

(* No request is on its way when a scenario is announced, nor at the end.  *)
Settled ==
  /\ pc \in Before \cup {"announce", "launch"} => AtProxy = {}
  /\ pc \in Over /\ raised = "none" => AtProxy = {}

Own(f) ==
  /\ f.id \in 1 .. Len(requests)
  /\ f.dest = requests[f.id].dest
  /\ f.scenario \in {requests[f.id].scenario, BETWEEN, UNATTRIBUTED}

(* A flow is stamped with its request's own scenario or with a sentinel.   *)
Attributed ==
  /\ \A n \in AtProxy : control_file \in {requests[n].scenario, BETWEEN, UNATTRIBUTED}
  /\ hook # None => hook.id \in AtProxy /\ Own(hook)
  /\ \A f \in flows : Own(f)

(* Unless the driver raised, a request past the hook is in the file.       *)
Accounted ==
  raised = "none" =>
    \A n \in 1 .. Len(requests) : n \notin AtProxy => InFile(n)

VerdictInv == Alive /\ Settled /\ Attributed /\ Accounted /\ VerdictSound

LEMMA VerdictInit == Init => VerdictInv
<1> SUFFICES ASSUME Init PROVE VerdictInv
  OBVIOUS
<1>1. Len(requests) = 0 /\ AtProxy = {} /\ flows = {} /\ hook = None
      /\ proxy = "none" /\ pc = "begin" /\ exit_code = None
  BY DEF Init, AtProxy
<1> QED
  BY <1>1, NoneAssumption DEF VerdictInv, Alive, Settled, Attributed, Accounted, VerdictSound,
     InScenario, Over

(* What an exit code says of the flows file.                               *)
LEMMA ExitCodes ==
  ASSUME Evaluate
  PROVE  /\ exit_code' = 0 => flows_file # {} /\ Violations(UNION flows_file) = {}
         /\ exit_code' = 1 => raised = "other" \/ Violations(UNION flows_file) # {}
<1>e. exit_code' = IF raised = "unavailable" THEN 2
                   ELSE IF raised = "other" THEN 1
                   ELSE IF flows_file = {} THEN 2
                   ELSE IF Violations(UNION flows_file) # {} THEN 1 ELSE 0
  BY DEF Evaluate, Exit
<1> DEFINE V == Violations(UNION flows_file)
<1>1. CASE raised = "unavailable"
  <2>1. exit_code' = 2
    BY <1>e, <1>1, Zenon
  <2> QED
    BY <2>1
<1>2. CASE raised = "other"
  <2>1. exit_code' = 1
    BY <1>e, <1>2
  <2> QED
    BY <1>2, <2>1
<1>3. CASE raised \notin {"unavailable", "other"} /\ flows_file = {}
  <2>1. exit_code' = 2
    BY <1>e, <1>3
  <2> QED
    BY <2>1
<1> HIDE DEF V
<1>4. CASE raised \notin {"unavailable", "other"} /\ flows_file # {} /\ V # {}
  <2>1. exit_code' = 1
    BY <1>e, <1>4 DEF V
  <2> QED
    BY <1>4, <2>1 DEF V
<1>5. CASE raised \notin {"unavailable", "other"} /\ flows_file # {} /\ V = {}
  <2>1. exit_code' = 0
    BY <1>e, <1>5, Zenon DEF V
  <2>2. exit_code' # 1
    BY <2>1
  <2> QED
    BY <1>5, <2>1, <2>2, Zenon DEF V
<1> QED
  BY <1>1, <1>2, <1>3, <1>4, <1>5

(* The rules of the allowlist excuse no sentinel, so a run that evaluates  *)
(* to 0 has nothing to answer for.                                         *)
LEMMA EvaluateSound ==
  ASSUME TypeInv, Kept, VerdictInv, Evaluate
  PROVE  VerdictSound'
<1> SUFFICES ASSUME exit_code' = 0, NEW n \in 1 .. Len(requests)
             PROVE  Explained(requests[n].scenario, requests[n].dest)
  BY DEF VerdictSound, Evaluate
<1>0. raised \in {"none", "unavailable", "other"}
  BY DEF TypeInv, TypeOK
<1>e. exit_code' = IF raised = "unavailable" THEN 2
                   ELSE IF raised = "other" THEN 1
                   ELSE IF flows_file = {} THEN 2
                   ELSE IF Violations(UNION flows_file) # {} THEN 1 ELSE 0
  BY DEF Evaluate, Exit
<1>v. CASE Violations(UNION flows_file) # {}
  BY <1>0, <1>e, <1>v
<1>1. raised = "none" /\ pc = "evaluate"
  BY <1>0, <1>e DEF Evaluate
<1>2. n \notin AtProxy
  BY <1>1 DEF VerdictInv, Settled, Over
<1>3. PICK f \in UNION flows_file : f.id = n
  BY <1>1, <1>2 DEF VerdictInv, Accounted, InFile
<1>4. CASE Violations(UNION flows_file) = {}
  <2>1. Explained(f.scenario, f.dest) /\ f.scenario \in DOMAIN Allowed
    BY <1>3, <1>4 DEF Violations, Explained
  <2>2. f \notin UNION earlier
    BY <1>3, Stale DEF TypeInv, TypeOK
  <2>3. Own(f)
    BY <1>3, <2>2 DEF Kept, VerdictInv, Attributed
  <2> QED
    BY <1>3, <2>1, <2>3, AllowedAssumption DEF Own
<1> QED
  BY <1>v, <1>4

(* What main does without touching a request.                              *)
LEMMA MainKeeps ==
  ASSUME VerdictInv, UNCHANGED <<hook, flows, flows_file, requests>>
  PROVE  /\ AtProxy' = AtProxy
         /\ control_file' \in {control_file, BETWEEN, UNATTRIBUTED} \/ AtProxy = {}
              => Attributed'
         /\ (raised' = "none" => raised = "none") => Accounted'
  BY DEF VerdictInv, AtProxy, Attributed, Accounted, Own, InFile

LEMMA VerdictStep ==
  TypeInv /\ Way /\ Kept /\ Reliable /\ VerdictInv /\ [Next]_vars => VerdictInv'
<1> SUFFICES ASSUME TypeInv, Way, Kept, Reliable, VerdictInv, [Next]_vars
             PROVE  VerdictInv'
  OBVIOUS
<1>f. /\ "proxy" \notin faults /\ "slow" \notin faults /\ "disk" \notin faults
      /\ "port" \notin faults /\ "large" \notin faults
  BY DEF Reliable
<1>r. requests \in Seq(RequestType) /\ Len(requests) \in Nat
  BY DEF TypeInv, TypeOK, RequestType
<1>n. None \notin {0, 1, 2}
  BY NoneAssumption
<1>a. Alive /\ Settled /\ Attributed /\ Accounted /\ VerdictSound
  BY DEF VerdictInv
<1>p. proxy \in {"none", "starting", "listening", "running", "terminating", "aborting", "gone"}
  BY DEF TypeInv, TypeOK
(* A step of main that leaves the requests alone.                          *)
<1>m. ASSUME UNCHANGED <<hook, flows, flows_file, requests>>,
             Alive', AtProxy' = AtProxy => Settled',
             control_file' \in {control_file, BETWEEN, UNATTRIBUTED} \/ AtProxy = {},
             raised' = "none" => raised = "none",
             exit_code' = 0 => exit_code = 0
      PROVE  VerdictInv'
  BY <1>m, <1>a, MainKeeps DEF VerdictInv, VerdictSound
<1>1. CASE Begin \/ BeginRaise
  BY <1>1, <1>f, <1>m, <1>a, <1>n DEF Begin, BeginRaise, Exit, Goto, capture, TypeInv, Stage, Alive, Settled,
     InScenario, Before, Over
<1>2. CASE Spawn \/ SpawnRaise
  BY <1>2, <1>m, <1>a, <1>n DEF Spawn, SpawnRaise, Exit, Goto, capture, TypeInv, Stage, Alive, Settled,
     InScenario, Before, Over
<1>3. CASE WaitForPort
  BY <1>3, <1>m, <1>a, <1>f DEF WaitForPort, PortOpen, Raise, Goto, capture, Alive, Settled,
     InScenario, Before, Over
<1>4. CASE CheckNames
  BY <1>4, <1>f, <1>m, <1>a DEF CheckNames, AnnounceScenario, Raise, Goto, capture, Alive, Settled,
     InScenario, Before, Over
<1>5. CASE Announce \/ Launch \/ Attach
  BY <1>5, <1>f, <1>m, <1>a DEF Announce, AnnounceScenario, Launch, Attach, Goto, capture, Alive, Settled,
     InScenario, Before, Over
<1>6. CASE LaunchRaise \/ AttachRaise \/ ActRaise
  BY <1>6, <1>m, <1>a DEF LaunchRaise, AttachRaise, ActRaise, Raise, capture, Alive, Settled,
     InScenario, Before, Over
<1>7. CASE Act \/ Teardown \/ Reap \/ EndScenario
  BY <1>7, <1>f, <1>m, <1>a DEF Act, Teardown, Reap, EndScenario, AnnounceScenario, Goto, capture, Alive, Settled,
     InScenario, Before, Over
<1>8. CASE Gap
  <2>1. AtProxy = {}
    BY <1>8, <1>f DEF Gap
  <2> QED
    BY <1>8, <2>1, <1>m, <1>a DEF Gap, NextScenario, capture, Alive, Settled,
       InScenario, Before, Over
<1>9. CASE Stop \/ Stopped
  BY <1>9, <1>m, <1>a, <1>p DEF Stop, Stopped, Goto, capture, Alive, Settled,
     InScenario, Before, Over
<1>10. CASE Evaluate
  <2>1. Alive' /\ (AtProxy' = AtProxy => Settled')
    BY <1>10, <1>a DEF Evaluate, Exit, capture, Alive, Settled, InScenario, Before, Over
  <2>2. VerdictSound'
    BY <1>10, EvaluateSound
  <2> QED
    BY <1>10, <1>a, <2>1, <2>2, MainKeeps DEF Evaluate, Exit, capture, VerdictInv
<1>11. CASE BrowserExits \/ Listen
  BY <1>11, <1>m, <1>a DEF BrowserExits, Listen, main, capture, Alive, Settled,
     InScenario, Before, Over
(* mitmdump ends only once nothing more can come.                          *)
<1>12. CASE Kill \/ Done \/ Abort
  <2>0. /\ ProxyGone /\ pc = "wait_proxy" /\ pc' \in {"wait_proxy", "evaluate"}
        /\ UNCHANGED <<raised, exit_code, control_file, flows>>
        /\ flows_file' = flows_file \/ flows_file' = {flows'}
    BY <1>12, <1>a DEF Kill, Done, Abort, Dump, Goto, main, Alive
  <2>1. \A n \in 1 .. Len(requests) : InFile(n) => InFile(n)'
    BY <2>0, FileStep
  <2>2. /\ Len(requests') = Len(requests) /\ hook' = None /\ proxy' = "gone"
        /\ \A m \in 1 .. Len(requests) :
             /\ requests'[m].scenario = requests[m].scenario
             /\ requests'[m].dest = requests[m].dest
             /\ requests'[m].at \notin {"proxy", "streamed"}
             /\ m \in AtProxy <=> requests[m].at \in {"proxy", "streamed"}
    BY <2>0, <1>r, GoneType DEF TypeInv, AtProxy
  <2>3. AtProxy' = {}
    BY <2>2 DEF AtProxy
  <2>4. raised = "none" => AtProxy = {}
    BY <2>0, <1>a DEF Settled, Over
  <2>5. Alive' /\ Settled'
    BY <2>0, <2>2, <2>3 DEF Alive, Settled, InScenario, Before, Over
  <2>6. Attributed'
    BY <2>0, <2>2, <2>3, <1>a DEF Attributed, Own
  <2>7. Accounted'
    BY <2>0, <2>1, <2>2, <2>4, <1>a DEF Accounted
  <2>8. VerdictSound'
    BY <2>0, <2>2, <1>a DEF VerdictSound
  <2> QED
    BY <2>5, <2>6, <2>7, <2>8 DEF VerdictInv
<1>13. CASE Running
  <2>1. /\ UNCHANGED <<main, control_file, hook, flows, requests>>
        /\ flows_file' = flows_file \/ flows_file' = {flows'}
        /\ proxy = "listening" /\ proxy' = "running"
    BY <1>13 DEF Running, Dump
  <2>2. AtProxy' = AtProxy
    BY <2>1 DEF AtProxy
  <2>3. \A n \in 1 .. Len(requests) : InFile(n) => InFile(n)'
    BY <2>1, FileStep
  <2>4. Accounted'
    BY <2>1, <2>2, <2>3, <1>a DEF main, Accounted
  <2> QED
    BY <2>1, <2>2, <2>4, <1>a DEF main, VerdictInv, Alive, Settled, Attributed, Own, VerdictSound
<1>14. CASE \E dest \in Destination, large \in BOOLEAN : Request(dest, large)
  <2>1. PICK dest \in Destination, large \in BOOLEAN : Request(dest, large)
    BY <1>14
  <2>2. pc \in Browsing /\ pc \in InScenario /\ names[i] = control_file /\ exit_code = None
    BY <2>1 DEF Request, TypeInv, Stage, Browsing, Announced, InScenario
  <2>3. Receivers = {"proxy"}
    BY <2>2, <1>a DEF Alive, Receivers
  <2>4. PICK r : /\ requests' = Append(requests, r)
                 /\ r = [scenario |-> control_file, dest |-> dest, large |-> large, at |-> "proxy"]
    BY <2>1, <2>2, <2>3 DEF Request
  <2>5. /\ Len(requests') = Len(requests) + 1
        /\ \A n \in 1 .. Len(requests) : requests'[n] = requests[n]
        /\ requests'[Len(requests) + 1] = r
    BY <2>4, <1>r
  <2>6. AtProxy' = AtProxy \cup {Len(requests) + 1}
    BY <2>4, <2>5, <1>r DEF AtProxy
  <2>7. UNCHANGED <<main, control_file, capture>>
    BY <2>1 DEF Request
  <2>8. Alive' /\ Settled'
    BY <2>2, <2>7, <1>a DEF main, capture, Alive, Settled, Browsing, Before, Over, InScenario
  <2>9. Attributed'
    <3>1. \A f : Own(f) => Own(f)'
      BY <2>5, <1>r DEF Own
    <3>2. \A n \in AtProxy : n \in 1 .. Len(requests)
      BY DEF AtProxy
    <3>3. \A n \in AtProxy' : control_file \in {requests'[n].scenario, BETWEEN, UNATTRIBUTED}
      BY <2>4, <2>5, <2>6, <3>2, <1>a DEF Attributed
    <3> QED
      BY <2>6, <2>7, <3>1, <3>3, <1>a DEF capture, Attributed
  <2>10. Accounted'
    BY <2>5, <2>6, <2>7, <1>a, <1>r DEF main, capture, Accounted, InFile
  <2>11. VerdictSound'
    BY <2>2, <2>7, <1>n DEF main, VerdictSound
  <2> QED
    BY <2>8, <2>9, <2>10, <2>11 DEF VerdictInv
<1>15. CASE ReadScenario
  <2>1. UNCHANGED <<main, control_file, proxy, flows, flows_file, requests>>
    BY <1>15 DEF ReadScenario
  <2>2. PICK m \in AtProxy :
          hook' = [id |-> m, dest |-> requests[m].dest,
                   scenario |-> IF control_file = None THEN UNATTRIBUTED ELSE control_file]
    BY <1>15 DEF ReadScenario
  <2>3. m \in 1 .. Len(requests) /\ AtProxy' = AtProxy
    BY <2>1 DEF AtProxy
  <2>4. control_file \in {requests[m].scenario, BETWEEN, UNATTRIBUTED}
    BY <1>a DEF Attributed
  <2>5. Attributed'
    BY <2>1, <2>2, <2>3, <2>4, <1>a DEF Attributed, Own
  <2> QED
    BY <2>1, <2>3, <2>5, <1>a DEF main, VerdictInv, Alive, Settled, Accounted, InFile, VerdictSound
<1>16. CASE Record
  <2>1. PICK m \in AtProxy :
          /\ m = hook.id /\ Own(hook) /\ hook' = None
          /\ flows' = flows \cup {hook}
          /\ flows_file' = {flows'}
          /\ UNCHANGED <<main, control_file, proxy>>
    BY <1>16, <1>a, <1>f DEF Record, Dump, Attributed
  <2>2. m \in 1 .. Len(requests)
    BY DEF AtProxy
  <2>3. /\ Len(requests') = Len(requests)
        /\ requests'[m].at \in {"recorded", "forwarded"}
        /\ \A n \in 1 .. Len(requests) : n # m => requests'[n] = requests[n]
        /\ \A n \in 1 .. Len(requests) : /\ requests'[n].scenario = requests[n].scenario
                                         /\ requests'[n].dest = requests[n].dest
    BY <1>16, <2>1, Recording
  <2>4. AtProxy' = AtProxy \ {m}
    BY <2>3 DEF AtProxy
  <2>5. InFile(m)' /\ \A n \in 1 .. Len(requests) : InFile(n) => InFile(n)'
    <3>1. UNION flows_file' = flows \cup {hook}
      BY <2>1
    <3> QED
      BY <2>1, <3>1, FileStep DEF InFile
  <2>6. Alive' /\ Settled'
    BY <2>1, <2>4, <1>a DEF main, Alive, Settled
  <2>7. Attributed'
    <3>1. \A f : Own(f) => Own(f)'
      BY <2>3 DEF Own
    <3>2. \A n \in AtProxy : n \in 1 .. Len(requests)
      BY DEF AtProxy
    <3> QED
      BY <2>1, <2>3, <2>4, <3>1, <3>2, <1>a DEF Attributed
  <2>8. Accounted'
    BY <2>1, <2>3, <2>4, <2>5, <1>a DEF main, Accounted
  <2>9. VerdictSound'
    BY <2>1, <2>3, <1>a DEF main, VerdictSound
  <2> QED
    BY <2>6, <2>7, <2>8, <2>9 DEF VerdictInv
<1>17. CASE Stream \/ BreakOff \/ Forward
  <2>1. UNCHANGED <<main, control_file, capture>>
    BY <1>17, Passing DEF TypeInv
  <2>2. /\ Len(requests') = Len(requests)
        /\ \A n \in 1 .. Len(requests) :
             /\ requests'[n].scenario = requests[n].scenario
             /\ requests'[n].dest = requests[n].dest
             /\ requests'[n].at \in {"proxy", "streamed"} <=> requests[n].at \in {"proxy", "streamed"}
    BY <1>17, <1>f, Passing DEF TypeInv, Way
  <2>4. AtProxy' = AtProxy
    BY <2>2 DEF AtProxy
  <2>5. Attributed'
    <3>1. \A f : Own(f) => Own(f)'
      BY <2>2 DEF Own
    <3>2. \A n \in AtProxy : n \in 1 .. Len(requests)
      BY DEF AtProxy
    <3> QED
      BY <2>1, <2>2, <2>4, <3>1, <3>2, <1>a DEF capture, Attributed
  <2>6. Accounted' /\ VerdictSound'
    BY <2>1, <2>2, <2>4, <1>a DEF main, capture, Accounted, InFile, VerdictSound
  <2> QED
    BY <2>1, <2>4, <2>5, <2>6, <1>a DEF main, capture, VerdictInv, Alive, Settled
<1>18. CASE ProxyDies
  BY <1>18, <1>f DEF ProxyDies
<1>19. CASE UNCHANGED vars
  BY <1>19, <1>m, <1>a DEF vars, main, capture, Alive, Settled
<1> QED
  BY <1>1, <1>2, <1>3, <1>4, <1>5, <1>6, <1>7, <1>8, <1>9, <1>10, <1>11, <1>12, <1>13, <1>14,
     <1>15, <1>16, <1>17, <1>18, <1>19 DEF Next, Main, Mitmdump

(* Exit code 0 clears every request the browser made, for any allowlist    *)
(* and any number of requests, if nothing gets past the capture.           *)
THEOREM VerdictIsTrue == Spec => []VerdictTrue
<1> DEFINE Inv == TypeInv /\ Way /\ Kept /\ (Reliable => VerdictInv)
<1>1. Inv /\ [Next]_vars => Inv'
  <2>1. [Next]_vars => (Reliable' <=> Reliable)
    BY SetupKept DEF setup, Reliable
  <2> QED
    BY <2>1, TypeStep, WayStep, KeptStep, VerdictStep
<1>2. Init => Inv
  BY TypeInit, WayInit, KeptInit, VerdictInit
<1>3. Inv => VerdictTrue
  BY DEF VerdictInv, VerdictTrue
<1> QED
  BY <1>1, <1>2, <1>3, PTL DEF Spec
-----------------------------------------------------------------------------
(* Of what VerdictIsTrue assumes, what left the machine needs only that    *)
(* the gap suffices, the dump is written and nothing is streamed: when     *)
(* mitmdump goes, nothing is on its way any more, and a flow in the file   *)
(* has its own stamp still.  With a leftover proxy there is no file.       *)
SentInv ==
  /\ pc \in Before \cup {"announce", "launch"} => AtProxy = {}
  /\ Attributed
  /\ SentIsExplained

LEMMA SentInit == Init => SentInv
<1> SUFFICES ASSUME Init PROVE SentInv
  OBVIOUS
<1>1. Len(requests) = 0 /\ AtProxy = {} /\ flows = {} /\ hook = None
  BY DEF Init, AtProxy
<1> QED
  BY <1>1 DEF SentInv, Attributed, SentIsExplained, Left

(* A run that evaluates to 0 has an explained flow for all that was sent.  *)
LEMMA EvaluateSent ==
  ASSUME TypeInv, Way, Kept, SentInv, Evaluate
  PROVE  SentIsExplained'
<1> SUFFICES ASSUME exit_code' = 0, Steady, NEW n \in Left
             PROVE  Explained(requests[n].scenario, requests[n].dest)
  BY DEF SentIsExplained, Evaluate, Steady, setup, Left
<1>1. flows_file # {} /\ Violations(UNION flows_file) = {}
  BY ExitCodes
<1>2. "port" \notin faults
  BY <1>1 DEF Steady, Way
<1>3. n \in 1 .. Len(requests) /\ requests[n].at = "forwarded"
  BY <1>2 DEF Left, Way, Steady
<1>4. PICK f \in UNION flows_file : f.id = n
  BY <1>3 DEF Kept, InFile, Steady
<1>5. Explained(f.scenario, f.dest) /\ f.scenario \in DOMAIN Allowed
  BY <1>1, <1>4 DEF Violations, Explained
<1>6. Own(f)
  BY <1>3, <1>4 DEF Kept, SentInv, Attributed, Steady
<1> QED
  BY <1>4, <1>5, <1>6, AllowedAssumption DEF Own

(* Steps that leave the requests and the verdict alone.                    *)
LEMMA SentKept ==
  ASSUME SentInv, UNCHANGED <<hook, flows, requests>>, UNCHANGED <<faults, earlier>>,
         control_file' \in {control_file, BETWEEN, UNATTRIBUTED} \/ AtProxy = {},
         pc' \in Before \cup {"announce", "launch"} =>
           pc \in Before \cup {"announce", "launch"} \/ AtProxy = {},
         exit_code' = 0 => exit_code = 0
  PROVE  SentInv'
<1>1. AtProxy' = AtProxy
  BY DEF AtProxy
<1>2. Attributed'
  BY <1>1 DEF SentInv, Attributed, Own
<1> QED
  BY <1>1, <1>2 DEF SentInv, SentIsExplained, Steady, Left

(* A request that is sent, or that mitmdump takes with it, keeps its stamp. *)
LEMMA SentMoves ==
  ASSUME TypeInv, SentInv, UNCHANGED <<faults, earlier>>, UNCHANGED <<exit_code, control_file, flows>>,
         Len(requests') = Len(requests), pc' \in Before \cup {"announce", "launch"} => pc' = pc,
         \A n \in 1 .. Len(requests) :
           /\ requests'[n].scenario = requests[n].scenario
           /\ requests'[n].dest = requests[n].dest
           /\ n \in AtProxy' => n \in AtProxy
           /\ exit_code = 0 /\ n \in Left' => n \in Left,
         hook' = None \/ (hook' = hook /\ AtProxy' = AtProxy)
  PROVE  SentInv'
<1>1. AtProxy' \subseteq AtProxy
  BY DEF AtProxy
<1>2. \A f : Own(f) => Own(f)'
  BY DEF Own
<1>3. \A n \in AtProxy : n \in 1 .. Len(requests)
  BY DEF AtProxy
<1>4. Attributed'
  BY <1>1, <1>2, <1>3 DEF SentInv, Attributed
<1>5. SentIsExplained'
  BY DEF SentInv, SentIsExplained, Steady, Left
<1> QED
  BY <1>1, <1>4, <1>5 DEF SentInv

LEMMA SentStep ==
  TypeInv /\ Way /\ Kept /\ Steady /\ SentInv /\ [Next]_vars => SentInv'
<1> SUFFICES ASSUME TypeInv, Way, Kept, Steady, SentInv, [Next]_vars
             PROVE  SentInv'
  OBVIOUS
<1>f. /\ "slow" \notin faults /\ "disk" \notin faults /\ "large" \notin faults
      /\ UNCHANGED <<faults, earlier>>
  BY SetupKept DEF Steady, setup
<1>r. requests \in Seq(RequestType) /\ Len(requests) \in Nat
  BY DEF TypeInv, TypeOK, RequestType
<1>n. None # 0 /\ (exit_code # None => pc = "exited")
  BY NoneAssumption DEF TypeInv, Stage
<1>1. CASE Begin \/ BeginRaise \/ Spawn \/ SpawnRaise
  BY <1>1, <1>f, <1>n, SentKept DEF Begin, BeginRaise, Spawn, SpawnRaise, Exit, Goto, capture, Before
<1>2. CASE WaitForPort \/ CheckNames
  <2>1. AtProxy = {}
    BY <1>2 DEF WaitForPort, CheckNames, SentInv, Before
  <2> QED
    BY <1>2, <1>f, <2>1, SentKept DEF WaitForPort, CheckNames, AnnounceScenario, Goto, Raise, capture
<1>3. CASE Announce
  <2>1. AtProxy = {}
    BY <1>3 DEF Announce, SentInv
  <2> QED
    BY <1>3, <1>f, <2>1, SentKept DEF Announce, AnnounceScenario, Goto, capture
<1>4. CASE Launch \/ LaunchRaise \/ Attach \/ AttachRaise \/ Act \/ ActRaise
  BY <1>4, <1>f, SentKept DEF Launch, LaunchRaise, Attach, AttachRaise, Act, ActRaise, Goto,
     Raise, capture, Before
<1>5. CASE Teardown \/ Reap \/ EndScenario \/ Stop \/ Stopped
  BY <1>5, <1>f, SentKept DEF Teardown, Reap, EndScenario, AnnounceScenario, Stop, Stopped,
     Goto, capture, Before
<1>6. CASE Gap
  <2>1. AtProxy = {}
    BY <1>6, <1>f DEF Gap
  <2> QED
    BY <1>6, <1>f, <2>1, SentKept DEF Gap, NextScenario, capture
<1>7. CASE Evaluate
  <2>1. SentIsExplained'
    BY <1>7, EvaluateSent
  <2>2. UNCHANGED <<hook, flows, requests, control_file>> /\ pc' = "exited"
    BY <1>7 DEF Evaluate, Exit, capture
  <2>3. AtProxy' = AtProxy
    BY <2>2 DEF AtProxy
  <2>4. Attributed'
    BY <2>2, <2>3 DEF SentInv, Attributed, Own
  <2> QED
    BY <2>1, <2>2, <2>4 DEF SentInv, Before
<1>8. CASE Kill \/ Done \/ Abort \/ ProxyDies
  <2>1. /\ ProxyGone /\ UNCHANGED <<exit_code, control_file, flows>>
        /\ pc' = pc \/ pc' = "evaluate"
    BY <1>8 DEF Kill, Done, Abort, ProxyDies, Goto, main, capture
  <2>2. /\ Len(requests') = Len(requests) /\ hook' = None
        /\ \A m \in 1 .. Len(requests) :
             /\ requests'[m].scenario = requests[m].scenario
             /\ requests'[m].dest = requests[m].dest
             /\ m \notin AtProxy'
             /\ m \in Left' => m \in Left
    BY <2>1, <1>r, GoneType DEF TypeInv, AtProxy, Left
  <2> QED
    BY <2>1, <2>2, <1>f, SentMoves DEF Before
<1>9. CASE Listen \/ Running \/ BrowserExits
  BY <1>9, <1>f, SentKept DEF Listen, Running, BrowserExits, main, capture
<1>10. CASE \E dest \in Destination, large \in BOOLEAN : Request(dest, large)
  <2>1. PICK dest \in Destination, large \in BOOLEAN : Request(dest, large)
    BY <1>10
  <2>2. pc \in Browsing /\ names[i] = control_file /\ exit_code = None
    BY <2>1 DEF Request, TypeInv, Stage, Browsing, Announced
  <2>0. PICK at \in Receivers :
          requests' = Append(requests, [scenario |-> names[i], dest |-> dest,
                                        large |-> large, at |-> at])
    BY <2>1 DEF Request
  <2>3. PICK r : /\ requests' = Append(requests, r)
                 /\ r.scenario = control_file /\ r.dest = dest
    BY <2>0, <2>2
  <2>4. /\ Len(requests') = Len(requests) + 1
        /\ \A n \in 1 .. Len(requests) : requests'[n] = requests[n]
        /\ requests'[Len(requests) + 1] = r
    BY <2>3, <1>r
  <2>5. UNCHANGED <<main, control_file, capture>>
    BY <2>1 DEF Request
  <2>6. AtProxy \subseteq AtProxy' /\ AtProxy' \subseteq AtProxy \cup {Len(requests) + 1}
    BY <2>4, <1>r DEF AtProxy
  <2>7. Attributed'
    <3>1. \A f : Own(f) => Own(f)'
      BY <2>4, <1>r DEF Own
    <3>2. \A n \in AtProxy : n \in 1 .. Len(requests)
      BY DEF AtProxy
    <3>3. \A n \in AtProxy' : control_file \in {requests'[n].scenario, BETWEEN, UNATTRIBUTED}
      BY <2>3, <2>4, <2>6, <3>2 DEF SentInv, Attributed
    <3> QED
      BY <2>5, <2>6, <3>1, <3>3 DEF capture, SentInv, Attributed
  <2> QED
    BY <2>2, <2>5, <2>7, <1>n DEF main, SentInv, SentIsExplained, Browsing, Before
<1>11. CASE ReadScenario
  <2>1. UNCHANGED <<main, control_file, flows, requests>>
    BY <1>11 DEF ReadScenario
  <2>2. PICK m \in AtProxy :
          hook' = [id |-> m, dest |-> requests[m].dest,
                   scenario |-> IF control_file = None THEN UNATTRIBUTED ELSE control_file]
    BY <1>11 DEF ReadScenario
  <2>3. m \in 1 .. Len(requests) /\ AtProxy' = AtProxy
    BY <2>1 DEF AtProxy
  <2>4. control_file \in {requests[m].scenario, BETWEEN, UNATTRIBUTED}
    BY DEF SentInv, Attributed
  <2>5. Attributed'
    BY <2>1, <2>2, <2>3, <2>4 DEF SentInv, Attributed, Own
  <2> QED
    BY <2>1, <2>3, <2>5, <1>f DEF main, SentInv, SentIsExplained, Steady, Left
<1>12. CASE Record
  <2>1. PICK m \in AtProxy :
          /\ m = hook.id /\ Own(hook) /\ hook' = None
          /\ flows' = flows \cup {hook}
          /\ UNCHANGED <<main, control_file>>
    BY <1>12 DEF Record, SentInv, Attributed
  <2>2. ~requests[m].large /\ requests[m].at # "streamed"
    BY <1>f DEF Way, AtProxy
  <2>3. /\ Len(requests') = Len(requests)
        /\ requests'[m].at = "recorded"
        /\ \A n \in 1 .. Len(requests) : n # m => requests'[n] = requests[n]
        /\ \A n \in 1 .. Len(requests) : /\ requests'[n].scenario = requests[n].scenario
                                         /\ requests'[n].dest = requests[n].dest
    BY <1>12, <2>1, <2>2, Recording
  <2>4. AtProxy' = AtProxy \ {m}
    BY <2>3 DEF AtProxy
  <2>5. Attributed'
    <3>1. \A f : Own(f) => Own(f)'
      BY <2>3 DEF Own
    <3>2. \A n \in AtProxy : n \in 1 .. Len(requests)
      BY DEF AtProxy
    <3> QED
      BY <2>1, <2>3, <2>4, <3>1, <3>2 DEF SentInv, Attributed
  <2>6. SentIsExplained'
    BY <2>1, <2>3, <1>f DEF main, SentInv, SentIsExplained, Steady, Left
  <2> QED
    BY <2>1, <2>4, <2>5, <2>6 DEF main, SentInv
<1>13. CASE Stream \/ BreakOff \/ Forward
  <2>1. UNCHANGED <<main, control_file, capture>>
    BY <1>13, Passing DEF TypeInv
  <2>2. /\ Len(requests') = Len(requests)
        /\ \A n \in 1 .. Len(requests) :
             /\ requests'[n].scenario = requests[n].scenario
             /\ requests'[n].dest = requests[n].dest
             /\ requests'[n].at \in {"proxy", "streamed"} <=> requests[n].at \in {"proxy", "streamed"}
    BY <1>13, <1>f, Passing DEF TypeInv, Way
  <2>3. AtProxy' = AtProxy
    BY <2>2 DEF AtProxy
  <2>4. exit_code = 0 => \A n \in 1 .. Len(requests) : n \in Left' => n \in Left
    <3>1. exit_code = None
      BY <1>13, <1>f, <1>n DEF Stream, BreakOff, Forward, TypeInv, Stage, Way, AtProxy
    <3> QED
      BY <3>1, <1>n
  <2> QED
    BY <2>1, <2>2, <2>3, <2>4, <1>f, SentMoves DEF main, capture
<1>14. CASE UNCHANGED vars
  BY <1>14, <1>f, SentKept DEF vars, main, capture
<1> QED
  BY <1>1, <1>2, <1>3, <1>4, <1>5, <1>6, <1>7, <1>8, <1>9, <1>10, <1>11, <1>12, <1>13, <1>14
     DEF Next, Main, Mitmdump

(* Exit code 0 clears whatever left the machine, for any allowlist, also   *)
(* when mitmdump died under way: the requests VerdictSound then misses     *)
(* never got out.  And with a leftover proxy on the port, which does let   *)
(* them out, there is no exit code 0 unless --output had a flows file.     *)
THEOREM SentRequestsCleared == Spec => []SentIsExplained
<1> DEFINE Inv == TypeInv /\ Way /\ Kept /\ (Steady => SentInv)
<1>1. Inv /\ [Next]_vars => Inv'
  <2>1. [Next]_vars => (Steady' <=> Steady)
    BY SetupKept DEF setup, Steady
  <2> QED
    BY <2>1, TypeStep, WayStep, KeptStep, SentStep
<1>2. Init => Inv
  BY TypeInit, WayInit, KeptInit, SentInit
<1>3. Inv => SentIsExplained
  BY DEF SentInv, SentIsExplained
<1> QED
  BY <1>1, <1>2, <1>3, PTL DEF Spec
-----------------------------------------------------------------------------
(* Exit code 1 is ambiguous because Python gives it to an exception main   *)
(* lets through (a program or a file fails, Playwright raises, the browser *)
(* is gone), and because an earlier run's flows file may be judged.        *)
Undisturbed ==
  faults \cap {"raise", "browser", "disk"} = {} /\ Violations(UNION earlier) = {}

CalmInv ==
  /\ raised # "other"
  /\ pc \in {"attach", "act"} => browser = "up"
  /\ OneMeansUnexplained

(* A dead mitmdump works on no flow, and the flows file is final.          *)
NoHook == proxy \in {"none", "gone"} => hook = None

LEMMA NoHookStep == TypeInv /\ NoHook /\ [Next]_vars => NoHook'
<1> SUFFICES ASSUME TypeInv, NoHook, [Next]_vars PROVE NoHook'
  OBVIOUS
<1> USE DEF NoHook
<1>1. CASE Spawn \/ Listen \/ Running \/ Record \/ ReadScenario
  BY <1>1 DEF Spawn, Exit, Goto, Listen, Running, Record, ReadScenario
<1>2. CASE Kill \/ Done \/ Abort \/ ProxyDies
  BY <1>2 DEF Kill, Done, Abort, ProxyDies, ProxyGone
<1>3. CASE Stop
  BY <1>3 DEF Stop
<1>4. CASE UNCHANGED capture
  BY <1>4 DEF capture
<1> QED
  BY <1>1, <1>2, <1>3, <1>4
     DEF Next, Main, Mitmdump, Begin, BeginRaise, SpawnRaise, WaitForPort, CheckNames, Announce, Launch, LaunchRaise,
         Attach, AttachRaise, Act, ActRaise, Teardown, Reap, EndScenario, Gap, NextScenario,
         Stopped, Evaluate, Stream, BreakOff, Forward, Request, BrowserExits, vars

(* After the verdict nobody writes the flows file.                         *)
LEMMA FileIsFinal ==
  ASSUME TypeInv, NoHook, [Next]_vars, exit_code # None
  PROVE  UNCHANGED <<exit_code, flows, flows_file>>
<1>1. pc = "exited" /\ proxy \in {"none", "gone"} /\ hook = None
  BY DEF TypeInv, Stage, NoHook
<1>2. ~Main
  BY <1>1 DEF Main, Begin, BeginRaise, Spawn, SpawnRaise, WaitForPort, CheckNames, Announce, Launch, LaunchRaise,
     Attach, AttachRaise, Act, ActRaise, Teardown, Reap, EndScenario, Gap, Stop, Stopped,
     Kill, Evaluate
<1>3. ~Running /\ ~Record /\ ~Done
  BY <1>1 DEF Running, Record, Done
<1> QED
  BY <1>2, <1>3 DEF Next, Mitmdump, Listen, Stream, BreakOff, ReadScenario, Forward, Abort,
     ProxyDies, Request, BrowserExits, vars, main, capture

LEMMA CalmStep ==
  TypeInv /\ Kept /\ NoHook /\ Undisturbed /\ CalmInv /\ [Next]_vars => CalmInv'
<1> SUFFICES ASSUME TypeInv, Kept, NoHook, Undisturbed, CalmInv, [Next]_vars
             PROVE  CalmInv'
  OBVIOUS
<1>f. "raise" \notin faults /\ "browser" \notin faults /\ "disk" \notin faults
  BY DEF Undisturbed
<1>e. exit_code # None => pc = "exited"
  BY DEF TypeInv, Stage
<1>o. ASSUME exit_code' = exit_code \/ exit_code' # 1 PROVE OneMeansUnexplained'
  <2>1. CASE exit_code' = 1
    <3>1. exit_code = 1 /\ UNCHANGED <<flows, flows_file>>
      BY <1>o, <2>1, FileIsFinal, NoneAssumption
    <3> QED
      BY <3>1 DEF CalmInv, OneMeansUnexplained, Violations
  <2> QED
    BY <2>1 DEF OneMeansUnexplained
<1>k. ASSUME exit_code' = exit_code \/ exit_code' # 1,
             raised' = raised \/ raised' # "other",
             pc' \in {"attach", "act"} => browser' = "up"
      PROVE  CalmInv'
  BY <1>k, <1>o DEF CalmInv
<1>1. CASE Begin \/ BeginRaise \/ Spawn \/ SpawnRaise
  BY <1>1, <1>f, <1>k DEF Begin, BeginRaise, Spawn, SpawnRaise, Exit, Goto
<1>2. CASE WaitForPort \/ CheckNames
  BY <1>2, <1>f, <1>k DEF WaitForPort, CheckNames, AnnounceScenario, Goto, Raise
<1>3. CASE Announce \/ Launch \/ Attach
  BY <1>3, <1>f, <1>k DEF Announce, AnnounceScenario, Launch, Attach, Goto
<1>4. CASE LaunchRaise \/ AttachRaise \/ ActRaise
  <2>1. ~LaunchRaise
    BY <1>f DEF LaunchRaise
  <2>2. browser = "up" \/ ~(AttachRaise \/ ActRaise)
    BY DEF AttachRaise, ActRaise, CalmInv
  <2> QED
    BY <1>4, <1>f, <2>1, <2>2 DEF AttachRaise, ActRaise
<1>5. CASE Act \/ Teardown \/ Reap \/ EndScenario \/ Gap
  BY <1>5, <1>f, <1>k DEF Act, Teardown, Reap, EndScenario, AnnounceScenario, Gap, NextScenario,
     Goto
<1>6. CASE Stop \/ Stopped \/ Kill
  BY <1>6, <1>k DEF Stop, Stopped, Kill, Goto
<1>7. CASE Evaluate
  <2>1. raised' = raised /\ pc' = "exited" /\ UNCHANGED <<flows, flows_file>>
    BY <1>7 DEF Evaluate, Exit, capture
  <2>2. exit_code' = 1 => Violations(UNION flows_file) # {}
    BY <1>7, ExitCodes DEF CalmInv
  <2>3. Violations(UNION flows_file) # {} => Violations(flows \cap UNION flows_file) # {}
    <3>1. \A f \in UNION flows_file : f \in UNION earlier => Explained(f.scenario, f.dest)
      BY DEF Undisturbed, Violations
    <3> QED
      BY <3>1 DEF Kept, Violations
  <2> QED
    BY <2>1, <2>2, <2>3 DEF CalmInv, OneMeansUnexplained, Violations
<1>8. CASE Mitmdump \/ ProxyDies \/ (\E dest \in Destination, large \in BOOLEAN : Request(dest, large))
  <2>1. UNCHANGED <<pc, raised, exit_code, browser>>
    BY <1>8 DEF Mitmdump, Listen, Running, Stream, BreakOff, ReadScenario, Record, Forward,
       Done, Abort, ProxyDies, Request, main
  <2> QED
    BY <2>1, <1>k DEF CalmInv
<1>9. CASE BrowserExits
  BY <1>9, <1>f DEF BrowserExits
<1>10. CASE UNCHANGED vars
  BY <1>10, <1>k DEF vars, main, CalmInv
<1> QED
  BY <1>1, <1>2, <1>3, <1>4, <1>5, <1>6, <1>7, <1>8, <1>9, <1>10 DEF Next, Main

(* If no program, file or scenario fails it and no browser dies, exit code *)
(* 1 means that this run captured a request nobody explained, whatever     *)
(* mitmdump does, unless an earlier run's flows file has one to judge.     *)
THEOREM OneIsUnexplained == Spec => [](Undisturbed => OneMeansUnexplained)
<1> DEFINE Inv == TypeInv /\ Kept /\ NoHook /\ (Undisturbed => CalmInv)
<1>1. Init => Inv
  BY TypeInit, KeptInit, NoneAssumption DEF Init, NoHook, CalmInv, OneMeansUnexplained
<1>2. Inv /\ [Next]_vars => Inv'
  <2>1. [Next]_vars => (Undisturbed' <=> Undisturbed)
    BY SetupKept DEF setup, Undisturbed, Violations
  <2> QED
    BY <2>1, TypeStep, KeptStep, NoHookStep, CalmStep
<1>3. Inv => (Undisturbed => OneMeansUnexplained)
  BY DEF CalmInv
<1> QED
  BY <1>1, <1>2, <1>3, PTL DEF Spec
=============================================================================
