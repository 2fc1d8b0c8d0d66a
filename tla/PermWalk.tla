------------------------------ MODULE PermWalk ------------------------------
(***************************************************************************)
(* meshagent -requestperms, the walkthrough that the installer runs in the *)
(* console user's session, and the KVM agent that it has ask for           *)
(* Accessibility ("ax") and Screen Recording ("sc").  The walkthrough may  *)
(* not test the permissions itself: it restarts the agent and opens        *)
(* sessions with it, and reads what the agent wrote to its log.  A program *)
(* can be allowed in a Privacy pane only when tccd has a record of it,     *)
(* which asking or capturing creates.                                      *)
(*                                                                         *)
(* Waits have a limit and the agent may be slower than that.  Full Disk    *)
(* Access is a question that changes nothing here.                         *)
(***************************************************************************)
EXTENDS Naturals

CONSTANTS
  Polls,       \* quiet polls before the dialog: 60
  RefreshAt,   \* the poll that refreshes first: 45
  MaxAnswers,  \* bound: answers of the operator that go round again
  MaxChanges   \* bound: permissions given or taken

ASSUME WalkAssumption ==
  /\ Polls \in Nat \ {0} /\ RefreshAt \in 0 .. Polls - 1
  /\ MaxAnswers \in Nat /\ MaxChanges \in Nat

VARIABLES
  gui,      \* perm_use_gui: no terminal, dialogs ask
  pc,       \* where the walkthrough is
  step,     \* the permission it is at
  back,     \* where a refresh returns to
  i,        \* quiet polls so far
  log,      \* the last value the agent has logged of each permission
  tcc,      \* permissions that the agent has
  listed,   \* permissions of which tccd has a record of the agent
  agent,    \* "down"; "starting"; "checked": AXIsProcessTrusted logged;
            \* "up": listening; "session"; "inited": in kvm_init; "captured"
  conn,     \* the walkthrough's connection: "none", "pending", "open", "left"
            \* (before it was accepted), "closed" (unnoticed by the agent)
  axWatch,  \* ax_poll_thread runs
  scWatch,  \* sc_poll_thread: "off", or the last value it has logged
  answers, changes,  \* counters for the bounds
  doubt     \* history, since the walkthrough turned to this permission or
            \* began its report: "late" (a wait ended too early), "changed"

walkVars == <<pc, step, back, i>>
agentVars == <<agent, axWatch, scWatch>>
envVars == <<tcc, listed, log>>
vars == <<gui, walkVars, agentVars, envVars, conn, answers, changes, doubt>>

Perms == {"ax", "sc"}
InSession == {"session", "inited", "captured"}
Listening == {"up"} \cup InSession

(* the log may be of an agent that ran before permissions were changed     *)
Init ==
  /\ gui \in BOOLEAN
  /\ pc = "check" /\ step = "ax" /\ back = "wait" /\ i = 0
  /\ log \in [Perms -> BOOLEAN] /\ tcc \in SUBSET Perms
  /\ listed = tcc \cup {p \in Perms : log[p]}
  /\ agent = "starting" /\ conn = "none" /\ axWatch = FALSE /\ scWatch = "off"
  /\ answers = 0 /\ changes = 0 /\ doubt = {}

-----------------------------------------------------------------------------
(* The walkthrough                                                         *)

Go(to) == pc' = to /\ UNCHANGED <<step, back, i>>
Late(cond) == doubt' = IF cond THEN doubt \cup {"late"} ELSE doubt

(* the agent's processes end: its threads, and a session with it           *)
AgentIs(state) ==
  /\ agent' = state /\ axWatch' = FALSE /\ scWatch' = "off"
  /\ conn' = "none"

(* after a permission: the next, or the question about Full Disk Access    *)
Onward ==
  /\ step' = "sc" /\ pc' = IF step = "ax" THEN "check" ELSE "fda"
  /\ UNCHANGED <<back, i>>

Check ==
  /\ pc = "check"
  /\ IF log[step] THEN Onward
     ELSE Go(IF gui THEN "banner" ELSE "begin")
  /\ UNCHANGED <<gui, agentVars, envVars, conn, answers, changes, doubt>>

(* perm_say: Continue, or given up after ten minutes                       *)
Banner ==
  /\ pc = "banner" /\ Go("begin")
  /\ UNCHANGED <<gui, agentVars, envVars, conn, answers, changes, doubt>>

(* mutant: Screen Recording is asked for without a session                 *)
BeginWithoutSession ==
  /\ pc = "begin"
  /\ pc' = IF step = "ax" THEN "kick" ELSE "wait"
  /\ back' = "wait" /\ doubt' = {}
  /\ UNCHANGED <<gui, step, i, agentVars, envVars, conn, answers, changes>>

(* Accessibility: restart the agent; Screen Recording: a session with it   *)
Begin ==
  /\ pc = "begin"
  /\ pc' = IF step = "ax" THEN "kick" ELSE "connect"
  /\ back' = IF step = "ax" THEN "wait" ELSE "asked"
  /\ doubt' = {}
  /\ UNCHANGED <<gui, step, i, agentVars, envVars, conn, answers, changes>>

(* perm_fake_kvm_session: the connection that succeeds is the session; an  *)
(* agent that does not listen is restarted and tried again for a while     *)
Connect ==
  /\ pc \in {"connect", "retry"} /\ agent \in Listening
  /\ conn' = "pending" /\ Go("hold")
  /\ UNCHANGED <<gui, agentVars, envVars, answers, changes, doubt>>
ConnectFails ==
  /\ pc = "connect" /\ agent \notin Listening
  /\ AgentIs("starting") /\ Go("retry")
  /\ UNCHANGED <<gui, envVars, answers, changes, doubt>>
AfterSession == IF back = "asked" THEN "wait" ELSE "kick"
NotReachable ==
  /\ pc = "retry" /\ agent \notin Listening
  /\ Go(AfterSession) /\ Late(TRUE)
  /\ UNCHANGED <<gui, agentVars, envVars, conn, answers, changes>>

(* mutant: the refresh does without the restart                            *)
HangUpOnly ==
  /\ pc = "hold" /\ Go(IF back = "asked" THEN "wait" ELSE "settle")
  /\ conn' = IF conn = "open" THEN "closed" ELSE IF conn = "pending" THEN "left"
             ELSE conn
  /\ Late(conn # "open" \/ agent # "captured")
  /\ UNCHANGED <<gui, agentVars, envVars, answers, changes>>

(* six seconds later                                                       *)
HangUp ==
  /\ pc = "hold" /\ Go(AfterSession)
  /\ conn' = IF conn = "open" THEN "closed" ELSE IF conn = "pending" THEN "left"
             ELSE conn
  /\ Late(conn # "open" \/ agent # "captured")
  /\ UNCHANGED <<gui, agentVars, envVars, answers, changes>>

(* launchctl kickstart -k                                                  *)
Kick ==
  /\ pc = "kick" /\ Go("await")
  /\ AgentIs("starting")
  /\ UNCHANGED <<gui, envVars, answers, changes, doubt>>

(* perm_wait_for_agent: launchd has a process of it, or 45 seconds pass    *)
Await ==
  /\ pc = "await" /\ Go("settle") /\ Late(agent = "down")
  /\ UNCHANGED <<gui, agentVars, envVars, conn, answers, changes>>

Settle ==
  /\ pc = "settle" /\ Go(back) /\ Late(agent \in {"down", "starting"})
  /\ UNCHANGED <<gui, agentVars, envVars, conn, answers, changes>>

(* perm_refresh_agent_status, to return to b                               *)
Refresh(b) == pc' = "connect" /\ back' = b /\ UNCHANGED step

-----------------------------------------------------------------------------
(* perm_wait                                                               *)

Wait ==
  /\ pc = "wait"
  /\ IF log[step] THEN Onward
     ELSE /\ pc' = (IF gui THEN "quiet" ELSE "ask") /\ i' = 0
          /\ UNCHANGED <<step, back>>
  /\ UNCHANGED <<gui, agentVars, envVars, conn, answers, changes, doubt>>

(* mutant: the polls are not counted                                       *)
QuietPollForever ==
  /\ pc \in {"quiet", "polled"}
  /\ IF pc = "quiet" /\ i = RefreshAt THEN Refresh("polled") /\ UNCHANGED i
     ELSE IF log[step] THEN Onward
     ELSE i' = i + 1 /\ pc' = "quiet" /\ UNCHANGED <<step, back>>
  /\ UNCHANGED <<gui, agentVars, envVars, conn, answers, changes, doubt>>

QuietPoll ==
  /\ pc \in {"quiet", "polled"} /\ i < Polls
  /\ IF pc = "quiet" /\ i = RefreshAt THEN Refresh("polled") /\ UNCHANGED i
     ELSE IF log[step] THEN Onward
     ELSE i' = i + 1 /\ pc' = "quiet" /\ UNCHANGED <<step, back>>
  /\ UNCHANGED <<gui, agentVars, envVars, conn, answers, changes, doubt>>

QuietOver ==
  /\ pc = "quiet" /\ i = Polls /\ Go("dialog")
  /\ UNCHANGED <<gui, agentVars, envVars, conn, answers, changes, doubt>>

(* Open System Settings, Re-check                                          *)
Again ==
  /\ answers < MaxAnswers /\ answers' = answers + 1
  /\ \/ Go("wait")
     \/ Refresh("recheck") /\ UNCHANGED i
  /\ UNCHANGED <<gui, agentVars, envVars, conn, changes, doubt>>
Skip ==
  /\ Onward
  /\ UNCHANGED <<gui, agentVars, envVars, conn, answers, changes, doubt>>

(* mutant: the dialog waits for an answer                                  *)
DialogStays == pc = "dialog" /\ Again
(* Skip, or given up after ten minutes                                     *)
Dialog == pc = "dialog" /\ (Again \/ Skip)

(* the terminal: nobody has to answer; end of file skips                   *)
Ask == pc = "ask" /\ (Again \/ Skip)

Recheck ==
  /\ pc = "recheck"
  /\ IF log[step] THEN Onward ELSE Go("wait")
  /\ UNCHANGED <<gui, agentVars, envVars, conn, answers, changes, doubt>>

-----------------------------------------------------------------------------
(* Full Disk Access: in the terminal, the answer may not come              *)
FullDiskAccess ==
  /\ pc = "fda" /\ Refresh("report") /\ UNCHANGED i
  /\ doubt' = {}
  /\ UNCHANGED <<gui, agentVars, envVars, conn, answers, changes>>

(* what the log holds now is what the operator is told                     *)
Report ==
  /\ pc = "report" /\ Go("done")
  /\ UNCHANGED <<gui, agentVars, envVars, conn, answers, changes, doubt>>

Walk ==
  \/ Check \/ Banner \/ Begin \/ Connect \/ ConnectFails \/ NotReachable
  \/ HangUp \/ Kick \/ Await \/ Settle \/ Wait \/ QuietPoll \/ QuietOver
  \/ Dialog \/ Recheck \/ Report

-----------------------------------------------------------------------------
(* The agent                                                               *)

Launch ==
  /\ agent = "down" /\ agent' = "starting"
  /\ UNCHANGED <<gui, walkVars, axWatch, scWatch, envVars, conn, answers,
                 changes, doubt>>

(* main: log, and raise Apple's dialog                                     *)
Startup ==
  /\ agent = "starting" /\ agent' = "checked"
  /\ log' = [log EXCEPT !["ax"] = "ax" \in tcc]
  /\ listed' = listed \cup {"ax"}
  /\ UNCHANGED <<gui, walkVars, axWatch, scWatch, tcc, conn, answers, changes,
                 doubt>>

(* kvmagent_ax_poll_start tests again; then kvm_server_mainloop listens    *)
StartWatching ==
  /\ agent = "checked" /\ agent' = "up"
  /\ axWatch' = ("ax" \notin tcc) /\ scWatch' = "new"
  /\ UNCHANGED <<gui, walkVars, envVars, conn, answers, changes, doubt>>

(* ax_poll_thread: exit(2), to be started again                            *)
AxGranted ==
  /\ axWatch /\ "ax" \in tcc
  /\ AgentIs("down")
  /\ UNCHANGED <<gui, walkVars, envVars, answers, changes, doubt>>

(* sc_poll_thread: log a change; a grant is the last                       *)
ScPoll ==
  /\ scWatch \in {"new", "denied"}
  /\ \/ "sc" \in tcc /\ scWatch' = "off"
     \/ "sc" \notin tcc /\ scWatch = "new" /\ scWatch' = "denied"
  /\ log' = [log EXCEPT !["sc"] = "sc" \in tcc]
  /\ UNCHANGED <<gui, walkVars, agent, axWatch, tcc, listed, conn, answers,
                 changes, doubt>>

(* the connection is accepted, or evicts the one before                    *)
Accept ==
  /\ agent \in Listening /\ conn \in {"pending", "left"}
  /\ agent' = "session" /\ conn' = IF conn = "left" THEN "closed" ELSE "open"
  /\ UNCHANGED <<gui, walkVars, axWatch, scWatch, envVars, answers, changes,
                 doubt>>

(* kvm_init logs, and the first frame captures                             *)
KvmInit ==
  /\ agent = "session" /\ agent' = "inited"
  /\ log' = [log EXCEPT !["sc"] = "sc" \in tcc]
  /\ UNCHANGED <<gui, walkVars, axWatch, scWatch, tcc, listed, conn, answers,
                 changes, doubt>>
Capture ==
  /\ agent = "inited" /\ agent' = "captured"
  /\ listed' = listed \cup {"sc"}
  /\ UNCHANGED <<gui, walkVars, axWatch, scWatch, tcc, log, conn, answers,
                 changes, doubt>>

(* the end of the session is noticed by a read, or kills by a write        *)
EndSession ==
  /\ agent \in InSession /\ conn = "closed"
  /\ \/ agent' = "up" /\ conn' = "none" /\ UNCHANGED <<axWatch, scWatch>>
     \/ AgentIs("down")
  /\ UNCHANGED <<gui, walkVars, envVars, answers, changes, doubt>>

Agent ==
  \/ Launch \/ Startup \/ StartWatching \/ AxGranted \/ ScPoll \/ Accept
  \/ KvmInit \/ Capture \/ EndSession

(* The operator allows what is listed, or takes it back                    *)
Toggle(p) ==
  /\ changes < MaxChanges /\ changes' = changes + 1
  /\ p \in listed
  /\ tcc' = IF p \in tcc THEN tcc \ {p} ELSE tcc \cup {p}
  /\ doubt' = doubt \cup {"changed"}
  /\ UNCHANGED <<gui, walkVars, agentVars, listed, log, conn, answers>>

Next == Walk \/ Ask \/ FullDiskAccess \/ Agent \/ \E p \in Perms : Toggle(p)

Spec == Init /\ [][Next]_vars

(* The walkthrough runs, and a dialog gives up; of the agent nothing is    *)
(* assumed.                                                                *)
FairSpec == Spec /\ WF_vars(Walk) /\ WF_vars(gui /\ FullDiskAccess)

-----------------------------------------------------------------------------
PC == {"check", "banner", "begin", "connect", "retry", "hold", "kick", "await",
       "settle", "wait", "quiet", "polled", "dialog", "ask", "recheck", "fda",
       "report", "done"}

TypeOK ==
  /\ gui \in BOOLEAN /\ pc \in PC /\ step \in Perms /\ i \in 0 .. Polls
  /\ back \in {"wait", "asked", "polled", "recheck", "report"}
  /\ log \in [Perms -> BOOLEAN] /\ tcc \subseteq listed /\ listed \subseteq Perms
  /\ agent \in {"down", "starting", "checked"} \cup Listening
  /\ conn \in {"none", "pending", "open", "left", "closed"}
  /\ axWatch \in BOOLEAN /\ scWatch \in {"off", "new", "denied"}
  /\ answers \in 0 .. MaxAnswers /\ changes \in 0 .. MaxChanges
  /\ doubt \subseteq {"late", "changed"}

(* When the operator is asked for a permission, the pane or the dialog     *)
(* that gives it has the agent in it, provided no wait ended too early.    *)
Askable ==
  pc \in {"quiet", "dialog", "ask"} /\ "late" \notin doubt => step \in listed

(* What the operator is told at the end is what the agent has, although it *)
(* is read from a log that may be older than the permissions.              *)
ReportTrue ==
  pc = "report" /\ doubt = {} => \A p \in Perms : log[p] <=> p \in tcc

(* Without a terminal the walkthrough comes to an end, whatever the agent  *)
(* does and whether anybody answers.                                       *)
WalkEnds == gui => <>(pc = "done")
=============================================================================
