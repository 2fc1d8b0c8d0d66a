--------------------------- MODULE PermWalkProofs ---------------------------
(***************************************************************************)
(* Theorems about PermWalk, for every number of polls, of answers of the   *)
(* operator and of changes of the permissions.                             *)
(*                                                                         *)
(* What the walkthrough wants to know lies in tccd's records and in the    *)
(* agent's memory; what it can see is a log.  The invariant follows a      *)
(* refresh through its stages: at each it says what the agent must have    *)
(* logged, or made tccd record, unless a wait ended too early ("late") or  *)
(* the permissions were changed meanwhile ("changed").                     *)
(***************************************************************************)
EXTENDS PermWalk, TLAPS

InRefresh == pc \in {"connect", "retry", "hold", "kick", "await", "settle"}

(* where a stage of the refresh may return to                              *)
BackInv ==
  /\ pc \in {"connect", "retry", "hold"} => back # "wait"
  /\ pc \in {"connect", "retry", "hold"} /\ back = "asked" => step = "sc"
  /\ pc \in {"kick", "await", "settle"} => back # "asked"
  /\ pc \in {"kick", "await", "settle"} /\ back = "wait" => step = "ax"

(* a session is only held in "hold"                                        *)
ConnInv == pc # "hold" => conn \notin {"pending", "open"}

(* how far the agent came tells what tccd has recorded of it               *)
ListedInv ==
  /\ agent \in {"checked"} \cup Listening => "ax" \in listed
  /\ agent = "captured" => "sc" \in listed

(* the operator is asked, or a refresh between two questions runs          *)
Asking ==
  \/ pc \in {"wait", "quiet", "polled", "dialog", "ask", "recheck"}
  \/ InRefresh /\ back \in {"polled", "recheck"}

AskedInv == Asking /\ "late" \notin doubt => step \in listed

Logged(p) == log[p] <=> p \in tcc

(* the session that is held, and the restart that follows it, bring the    *)
(* log of Screen Recording and of Accessibility up to date                 *)
LogInv ==
  /\ pc = "hold" /\ conn = "open" /\ agent \in {"inited", "captured"}
       /\ "changed" \notin doubt => Logged("sc")
  /\ pc \in {"kick", "await", "settle"} /\ back = "report" /\ doubt = {}
       => Logged("sc")
  /\ pc \in {"await", "settle"} /\ agent \in {"checked"} \cup Listening
       /\ "changed" \notin doubt => Logged("ax")

WalkInv ==
  /\ TypeOK
  /\ BackInv /\ ConnInv /\ ListedInv /\ AskedInv /\ LogInv /\ ReportTrue

-----------------------------------------------------------------------------
(* Types *)

LEMMA WalkType ==
  ASSUME TypeOK, BackInv, Walk \/ Ask \/ FullDiskAccess
  PROVE  TypeOK'
<1>1. UNCHANGED <<gui, envVars, changes>>
  BY DEF Walk, Ask, FullDiskAccess, Check, Banner, Begin, Connect, ConnectFails,
         NotReachable, HangUp, Kick, Await, Settle, Wait, QuietPoll, QuietOver,
         Dialog, Again, Skip, Recheck, Report
<1>2. /\ pc' \in PC /\ step' \in Perms
      /\ back' \in {"wait", "asked", "polled", "recheck", "report"}
  <2>1. CASE Check \/ Banner \/ Begin
    BY <2>1 DEF TypeOK, PC, Perms, Check, Banner, Begin, Onward, Go
  <2>2. CASE Wait \/ QuietPoll \/ QuietOver \/ Recheck
    BY <2>2 DEF TypeOK, PC, Perms, Wait, QuietPoll, QuietOver, Recheck, Onward,
                Go, Refresh
  <2>3. CASE Dialog \/ Ask \/ FullDiskAccess \/ Report
    BY <2>3 DEF TypeOK, PC, Perms, Dialog, Ask, Again, Skip, FullDiskAccess,
                Report, Onward, Go, Refresh
  <2>4. CASE Connect \/ ConnectFails \/ NotReachable \/ HangUp \/ Kick \/ Await
               \/ Settle
    BY <2>4
       DEF TypeOK, BackInv, PC, Connect, ConnectFails, NotReachable, HangUp, Kick, Await,
           Settle, Go, AfterSession
  <2>5. QED
    BY <2>1, <2>2, <2>3, <2>4 DEF Walk
<1>3. i' \in 0..Polls
  <2>1. i \in 0..Polls
    BY DEF TypeOK
  <2>2. CASE QuietPoll
    <3>1. i' = i \/ (i' = i + 1 /\ i < Polls)
      BY <2>2 DEF QuietPoll, Onward
    <3>2. QED
      BY <2>1, <3>1, WalkAssumption
  <2>3. CASE ~QuietPoll
    <3>1. i' = i \/ i' = 0
      BY <2>3
         DEF Walk, Ask, FullDiskAccess, Check, Banner, Begin, Connect,
             ConnectFails, NotReachable, HangUp, Kick, Await, Settle, Wait,
             QuietOver, Dialog, Again, Skip, Recheck, Report, Onward, Go
    <3>2. QED
      BY <2>1, <3>1, WalkAssumption
  <2>4. QED
    BY <2>2, <2>3
<1>4. answers' \in 0..MaxAnswers
  <2>1. answers' = answers \/ (answers' = answers + 1 /\ answers < MaxAnswers)
    BY DEF Walk, Ask, FullDiskAccess, Check, Banner, Begin, Connect,
           ConnectFails, NotReachable, HangUp, Kick, Await, Settle, Wait,
           QuietPoll, QuietOver, Dialog, Again, Skip, Recheck, Report
  <2>2. QED
    BY <2>1, WalkAssumption DEF TypeOK
<1>5. /\ agent' \in {"down", "starting", "checked"} \cup Listening
      /\ axWatch' \in BOOLEAN /\ scWatch' \in {"off", "new", "denied"}
      /\ conn' \in {"none", "pending", "open", "left", "closed"}
  BY DEF TypeOK, Walk, Ask, FullDiskAccess, Check, Banner, Begin, Connect,
         ConnectFails, NotReachable, HangUp, Kick, Await, Settle, Wait,
         QuietPoll, QuietOver, Dialog, Again, Skip, Recheck, Report, AgentIs,
         agentVars
<1>6. doubt' \subseteq {"late", "changed"}
  BY DEF TypeOK, Walk, Ask, FullDiskAccess, Check, Banner, Begin, Connect,
         ConnectFails, NotReachable, HangUp, Kick, Await, Settle, Wait,
         QuietPoll, QuietOver, Dialog, Again, Skip, Recheck, Report, Late
<1>7. QED
  BY <1>1, <1>2, <1>3, <1>4, <1>5, <1>6 DEF TypeOK, envVars

LEMMA AgentType ==
  ASSUME TypeOK, Agent
  PROVE  TypeOK'
<1>1. UNCHANGED <<gui, walkVars, tcc, answers, changes, doubt>>
  BY DEF Agent, Launch, Startup, StartWatching, AxGranted, ScPoll, Accept,
         KvmInit, Capture, EndSession, envVars
<1>2. /\ log' \in [Perms -> BOOLEAN]
      /\ listed \subseteq listed' /\ listed' \subseteq Perms
  <2>1. \/ log' = log
        \/ log' = [log EXCEPT !["ax"] = "ax" \in tcc]
        \/ log' = [log EXCEPT !["sc"] = "sc" \in tcc]
    BY DEF Agent, Launch, Startup, StartWatching, AxGranted, ScPoll, Accept,
           KvmInit, Capture, EndSession, envVars
  <2>2. log' \in [Perms -> BOOLEAN]
    <3>1. ASSUME NEW p \in Perms, NEW b \in BOOLEAN
          PROVE  [log EXCEPT ![p] = b] \in [Perms -> BOOLEAN]
      BY DEF TypeOK
    <3>2. ("ax" \in tcc) \in BOOLEAN /\ ("sc" \in tcc) \in BOOLEAN
      BY SMT
    <3>3. "ax" \in Perms /\ "sc" \in Perms
      BY DEF Perms
    <3>4. QED
      BY <2>1, <3>1, <3>2, <3>3, Zenon DEF TypeOK
  <2>3. \/ listed' = listed \/ listed' = listed \cup {"ax"}
        \/ listed' = listed \cup {"sc"}
    BY DEF Agent, Launch, Startup, StartWatching, AxGranted, ScPoll, Accept,
           KvmInit, Capture, EndSession, envVars
  <2>4. QED
    BY <2>2, <2>3 DEF TypeOK, Perms
<1>3. /\ agent' \in {"down", "starting", "checked"} \cup Listening
      /\ axWatch' \in BOOLEAN /\ scWatch' \in {"off", "new", "denied"}
      /\ conn' \in {"none", "pending", "open", "left", "closed"}
  BY DEF TypeOK, Agent, Launch, Startup, StartWatching, AxGranted, ScPoll,
         Accept, KvmInit, Capture, EndSession, AgentIs, Listening, InSession
<1>4. QED
  BY <1>1, <1>2, <1>3 DEF TypeOK, walkVars

LEMMA ToggleType ==
  ASSUME TypeOK, NEW p \in Perms, Toggle(p)
  PROVE  TypeOK'
<1>1. /\ UNCHANGED <<gui, walkVars, agentVars, listed, log, conn, answers>>
      /\ changes' \in 0..MaxChanges /\ tcc' \subseteq listed
      /\ doubt' \subseteq {"late", "changed"}
  BY WalkAssumption DEF Toggle, TypeOK
<1>2. QED
  BY <1>1 DEF TypeOK, walkVars, agentVars

-----------------------------------------------------------------------------
(* The walkthrough between refreshes: it only looks at the log.            *)

LEMMA QuestionStep ==
  ASSUME WalkInv,
         Check \/ Banner \/ Begin \/ Wait \/ QuietPoll \/ QuietOver \/ Dialog \/ Ask
           \/ Recheck \/ FullDiskAccess \/ Report
  PROVE  WalkInv'
<1>1. TypeOK'
  BY WalkType DEF WalkInv, Walk
<1>2. /\ UNCHANGED <<agentVars, envVars, conn>>
      /\ pc \notin {"hold", "connect", "retry", "kick", "await", "settle"}
      /\ pc' \notin {"hold", "await", "settle", "report"}
  BY DEF Check, Banner, Begin, Wait, QuietPoll, QuietOver, Dialog, Ask, Again, Skip,
         Recheck, FullDiskAccess, Report, Onward, Go, Refresh
<1>3. BackInv'
  BY DEF WalkInv, TypeOK, Perms, BackInv, Check, Banner, Begin, Wait, QuietPoll,
         QuietOver, Dialog, Ask, Again, Skip, Recheck, FullDiskAccess, Report,
         Onward, Go, Refresh
<1>4. ConnInv' /\ ListedInv'
  BY <1>2 DEF WalkInv, ConnInv, ListedInv, agentVars, envVars
<1>5. AskedInv'
  <2>1. CASE Begin
    BY <2>1 DEF Begin, AskedInv, Asking, InRefresh
  <2>2. CASE Wait \/ QuietPoll \/ QuietOver \/ Dialog \/ Ask \/ Recheck
    BY <2>2
       DEF WalkInv, AskedInv, Asking, InRefresh, Wait, QuietPoll, QuietOver,
           Dialog, Ask, Again, Skip, Recheck, Onward, Go, Refresh, envVars
  <2>3. CASE Check \/ Banner \/ FullDiskAccess \/ Report
    BY <2>3
       DEF AskedInv, Asking, InRefresh, Check, Banner, FullDiskAccess, Report,
           Onward, Go, Refresh
  <2>4. QED
    BY <2>1, <2>2, <2>3
<1>6. LogInv'
  <2>1. pc' = "kick" => back' = "wait"
    BY DEF Check, Banner, Begin, Wait, QuietPoll, QuietOver, Dialog, Ask, Again,
           Skip, Recheck, FullDiskAccess, Report, Onward, Go, Refresh
  <2>2. QED
    BY <1>2, <2>1 DEF LogInv
<1>7. QED
  BY <1>1, <1>2, <1>3, <1>4, <1>5, <1>6 DEF WalkInv, ReportTrue

-----------------------------------------------------------------------------
(* A refresh, stage by stage *)

LEMMA ConnectStep ==
  ASSUME WalkInv, Connect \/ ConnectFails \/ NotReachable
  PROVE  WalkInv'
<1>1. TypeOK'
  BY WalkType DEF WalkInv, Walk
<1>2. /\ UNCHANGED <<envVars, step, back>> /\ pc \in {"connect", "retry"}
      /\ pc' \in {"hold", "retry", "wait", "kick"}
      /\ pc' = "hold" => conn' = "pending"
      /\ pc' \in {"wait", "kick"} => "late" \in doubt' /\ agent' = agent /\ conn' = conn
      /\ pc' = "wait" <=> back = "asked" /\ pc' \notin {"hold", "retry"}
      /\ agent' = agent \/ agent' = "starting"
      /\ pc' = "retry" => conn' = "none"
      /\ doubt \subseteq doubt'
  BY DEF Connect, ConnectFails, NotReachable, Go, AgentIs, Late, AfterSession,
         agentVars, walkVars
<1>3. BackInv'
  BY <1>2 DEF WalkInv, BackInv, TypeOK
<1>4. ConnInv' /\ ListedInv'
  BY <1>2 DEF WalkInv, ConnInv, ListedInv, envVars, Listening, InSession
<1>5. AskedInv'
  BY <1>2 DEF WalkInv, AskedInv, Asking, InRefresh, envVars
<1>6. LogInv' /\ ReportTrue'
  BY <1>2 DEF LogInv, ReportTrue
<1>7. QED
  BY <1>1, <1>3, <1>4, <1>5, <1>6 DEF WalkInv

LEMMA HangUpStep ==
  ASSUME WalkInv, HangUp
  PROVE  WalkInv'
<1>1. TypeOK'
  BY WalkType DEF WalkInv, Walk
<1>2. /\ UNCHANGED <<envVars, agentVars, step, back>> /\ pc = "hold"
      /\ pc' = IF back = "asked" THEN "wait" ELSE "kick"
      /\ conn' \notin {"pending", "open"}
      /\ "late" \notin doubt' => conn = "open" /\ agent = "captured"
      /\ doubt \subseteq doubt'
  BY DEF HangUp, Go, AfterSession, Late
<1>3. BackInv' /\ ConnInv' /\ ListedInv'
  BY <1>2
     DEF WalkInv, BackInv, ConnInv, ListedInv, envVars, agentVars
<1>4. AskedInv'
  BY <1>2
     DEF WalkInv, BackInv, ListedInv, AskedInv, Asking, InRefresh, envVars
<1>5. LogInv' /\ ReportTrue'
  BY <1>2 DEF WalkInv, LogInv, Logged, ReportTrue, envVars
<1>6. QED
  BY <1>1, <1>3, <1>4, <1>5 DEF WalkInv

LEMMA RestartStep ==
  ASSUME WalkInv, Kick \/ Await
  PROVE  WalkInv'
<1>1. TypeOK'
  BY WalkType DEF WalkInv, Walk
<1>2. /\ UNCHANGED <<envVars, step, back>> /\ pc \in {"kick", "await"}
      /\ pc' \in {"await", "settle"} /\ conn' \in {conn, "none"}
      /\ agent' = "starting" \/ (agent' = agent /\ pc = "await")
      /\ doubt \subseteq doubt'
  BY DEF Kick, Await, Go, Late, AgentIs, agentVars
<1>3. BackInv' /\ ConnInv' /\ ListedInv' /\ AskedInv'
  BY <1>2
     DEF WalkInv, BackInv, ConnInv, ListedInv, AskedInv, Asking, InRefresh, envVars,
         Listening, InSession
<1>4. LogInv' /\ ReportTrue'
  BY <1>2
     DEF WalkInv, LogInv, Logged, ReportTrue, envVars, Listening, InSession
<1>5. QED
  BY <1>1, <1>3, <1>4 DEF WalkInv

LEMMA SettleStep ==
  ASSUME WalkInv, Settle
  PROVE  WalkInv'
<1>1. TypeOK'
  BY WalkType DEF WalkInv, Walk
<1>2. /\ UNCHANGED <<envVars, agentVars, conn, step, back>> /\ pc = "settle"
      /\ pc' = back /\ doubt \subseteq doubt'
      /\ "late" \notin doubt' => agent \notin {"down", "starting"}
  BY DEF Settle, Go, Late
<1>3. /\ back \in {"wait", "polled", "recheck", "report"}
      /\ back = "wait" => step = "ax"
      /\ "late" \notin doubt' => agent \in {"checked"} \cup Listening
  BY <1>2 DEF WalkInv, BackInv, TypeOK
<1>4. BackInv' /\ ConnInv' /\ ListedInv' /\ LogInv'
  BY <1>2, <1>3
     DEF WalkInv, BackInv, ConnInv, ListedInv, LogInv, envVars, agentVars
<1>5. AskedInv'
  BY <1>2, <1>3
     DEF WalkInv, ListedInv, AskedInv, Asking, InRefresh, envVars
<1>6. ReportTrue'
  BY <1>2, <1>3 DEF WalkInv, TypeOK, LogInv, Logged, ReportTrue, Perms, envVars
<1>7. QED
  BY <1>1, <1>4, <1>5, <1>6 DEF WalkInv

-----------------------------------------------------------------------------
(* The agent: what it logs is what tccd tells it.                          *)

LEMMA AgentStep ==
  ASSUME WalkInv, Agent
  PROVE  WalkInv'
<1>1. TypeOK'
  BY AgentType DEF WalkInv
<1>2. /\ UNCHANGED <<walkVars, tcc, doubt>> /\ listed \subseteq listed'
  BY DEF Agent, Launch, Startup, StartWatching, AxGranted, ScPoll, Accept,
         KvmInit, Capture, EndSession, envVars
<1>3. log \in [Perms -> BOOLEAN] /\ {"ax", "sc"} = Perms
  BY DEF WalkInv, TypeOK, Perms
<1>4. \A p \in Perms : log'[p] = log[p] \/ (log'[p] <=> p \in tcc)
  BY <1>3
     DEF Agent, Launch, Startup, StartWatching, AxGranted, ScPoll, Accept,
         KvmInit, Capture, EndSession, envVars
<1>5. \A p \in Perms : Logged(p) => Logged(p)'
  BY <1>2, <1>3, <1>4 DEF Logged
<1>6. BackInv' /\ AskedInv'
  BY <1>2 DEF WalkInv, BackInv, AskedInv, Asking, InRefresh, walkVars
<1>7. ConnInv'
  BY DEF WalkInv, ConnInv, Agent, Launch, Startup, StartWatching, AxGranted,
         ScPoll, Accept, KvmInit, Capture, EndSession, AgentIs, walkVars
<1>8. ListedInv'
  BY DEF WalkInv, ListedInv, Agent, Launch, Startup, StartWatching, AxGranted,
         ScPoll, Accept, KvmInit, Capture, EndSession, AgentIs, Listening,
         InSession, envVars
<1>9. LogInv'
  <2>1. /\ agent' \in {"inited", "captured"} /\ conn' = "open"
        => Logged("sc")' \/ (agent \in {"inited", "captured"} /\ conn = "open")
    BY <1>3
       DEF Logged, Agent, Launch, Startup, StartWatching, AxGranted, ScPoll,
           Accept, KvmInit, Capture, EndSession, AgentIs
  <2>2. agent' \in {"checked"} \cup Listening
        => Logged("ax")' \/ agent \in {"checked"} \cup Listening
    BY <1>3
       DEF Logged, Agent, Launch, Startup, StartWatching, AxGranted, ScPoll,
           Accept, KvmInit, Capture, EndSession, AgentIs, Listening, InSession
  <2>3. QED
    BY <1>2, <1>3, <1>5, <2>1, <2>2 DEF WalkInv, LogInv, walkVars
<1>10. ReportTrue'
  BY <1>2, <1>5 DEF WalkInv, ReportTrue, Logged, walkVars
<1>11. QED
  BY <1>1, <1>6, <1>7, <1>8, <1>9, <1>10 DEF WalkInv

LEMMA ToggleStep ==
  ASSUME WalkInv, NEW p \in Perms, Toggle(p)
  PROVE  WalkInv'
<1>1. TypeOK'
  BY ToggleType DEF WalkInv
<1>2. /\ UNCHANGED <<walkVars, agentVars, listed, conn>>
      /\ doubt' = doubt \cup {"changed"}
  BY DEF Toggle
<1>3. BackInv' /\ ConnInv' /\ ListedInv' /\ AskedInv'
  BY <1>2
     DEF WalkInv, BackInv, ConnInv, ListedInv, AskedInv, Asking, InRefresh,
         walkVars, agentVars
<1>4. LogInv' /\ ReportTrue'
  BY <1>2 DEF LogInv, ReportTrue
<1>5. QED
  BY <1>1, <1>3, <1>4 DEF WalkInv

LEMMA WalkInvHolds == Spec => []WalkInv
<1>1. Init => WalkInv
  <2>1. SUFFICES ASSUME Init
                 PROVE  WalkInv
    OBVIOUS
  <2>2. TypeOK
    <3>1. 0 \in 0..Polls /\ 0 \in 0..MaxAnswers /\ 0 \in 0..MaxChanges
      BY WalkAssumption
    <3>2. tcc \subseteq Perms /\ listed \subseteq Perms /\ tcc \subseteq listed
      BY <2>1 DEF Init
    <3>3. QED
      BY <2>1, <3>1, <3>2 DEF Init, TypeOK, PC, Perms
  <2>3. QED
    BY <2>1, <2>2
       DEF Init, WalkInv, BackInv, ConnInv, ListedInv, AskedInv, Asking,
           InRefresh, LogInv, ReportTrue, Listening, InSession
<1>2. WalkInv /\ [Next]_vars => WalkInv'
  <2>1. CASE UNCHANGED vars
    BY <2>1
       DEF vars, walkVars, agentVars, envVars, WalkInv, TypeOK, BackInv,
           ConnInv, ListedInv, AskedInv, Asking, InRefresh, LogInv, Logged,
           ReportTrue
  <2>2. QED
    BY <2>1, QuestionStep, ConnectStep, HangUpStep, RestartStep, SettleStep,
       AgentStep, ToggleStep
       DEF Next, Walk
<1>3. QED
  BY <1>1, <1>2, PTL DEF Spec

-----------------------------------------------------------------------------

(* The walkthrough's state keeps its type, and no permission is held
   without a record of it. *)
THEOREM WalkTypeOK == Spec => []TypeOK
BY WalkInvHolds, PTL DEF WalkInv

(* When the operator is asked for a permission, tccd has a record of the
   agent, so the pane has it in its list, unless a wait ended too early
   (perm_wait, after the restart or the session that made it). *)
THEOREM WalkAskable == Spec => []Askable
<1>1. WalkInv => Askable
  BY DEF WalkInv, AskedInv, Asking, Askable
<1>2. QED
  BY <1>1, WalkInvHolds, PTL

(* The report at the end is what the agent has, although it is read from a
   log that may be older than the permissions (perm_refresh_agent_status,
   kvm_request_permissions). *)
THEOREM WalkReportTrue == Spec => []ReportTrue
BY WalkInvHolds, PTL DEF WalkInv
=============================================================================
