---------------------------- MODULE ChildSession -----------------------------
(***************************************************************************)
(* The bridge between one child Pi session and its run's controller:       *)
(* extension/child-mode.ts on the child's side, the Unix socket transport  *)
(* between them, and the controller's handling of a child's message in     *)
(* controller/process-entry.ts.                                            *)
(*                                                                         *)
(* A report of a hook or a tool waits in the child's message queue and is  *)
(* sent over the child's one connection.  The server may close that        *)
(* connection at any time (it does after 30 seconds without data, also     *)
(* while it is still handling a request), and the controller may crash.    *)
(* The child then connects once more and sends the report again under a    *)
(* new request id; what fails a second time locks the child out.           *)
(*                                                                         *)
(* External: Pi, which calls the hooks.  It runs the tools of a turn       *)
(* concurrently and sends agent_settled when they have all returned.       *)
(***************************************************************************)
EXTENDS Naturals, Sequences, ControllerState

CONSTANTS
  Actions,      \* the reports that the tools granted to this role can make
  MaxReports,   \* bound: prompts, tool calls and progress reports stop there
  MaxSessions,  \* bound: Pi sessions of this agent, the restored ones included
  MaxDrops,     \* bound: connections closed by the server
  MaxCrashes    \* bound: crashes of the controller

ToolReport == {"heartbeat", "operation-completed", "agent-blocked",
               "candidate-ready", "review-submitted"}

Submission == {"candidate-ready", "review-submitted"}

ASSUME ActionsAssumption == Actions \subseteq ToolReport

ASSUME BoundsAssumption ==
  /\ MaxReports \in Nat /\ MaxSessions \in Nat
  /\ MaxDrops \in Nat /\ MaxCrashes \in Nat

VARIABLES
  session,        \* the Pi session
  authenticated,  \* authenticated, of the bridge
  connected,      \* the bridge has a client
  link,           \* the connection of that client is up
  turn,           \* whether an agent turn is running
  failure,        \* operationFailureReason is set
  terminal,       \* terminalStatusReported
  outbox,         \* reports waiting in messageQueue
  call,           \* the request under way, with the report it carries
  made,           \* number of reports made so far, which numbers them
  base,           \* reports made before this session
  sessions, drops, crashes,  \* counters for the bounds
  up,             \* a controller is serving the socket
  work,           \* requests in the executor's chain
  status,         \* the agent's status in the repository
  submitted,      \* the agent's submission was accepted by its story
  log,            \* the reports handled by the executor, in order
  unrecorded      \* history: the end of an operation could not be committed,
                  \* and no commit has changed the agent's status since

bridge  == <<session, authenticated, connected, link, turn, failure, terminal,
             outbox, call, made, base>>
bounds  == <<sessions, drops, crashes>>
served  == <<up, work, status, submitted, log, unrecorded>>
vars    == <<bridge, bounds, served>>

Session == {"none", "opening", "open", "closing", "shutting", "ended"}

\* A heartbeat stands for operation-progress too: both prove life, no more.
ReportType == MessageType \cup {"heartbeat"}

Report == [n : Nat, type : ReportType, by : {"hook", "tool", "settle"}]

NewReport(type, by) == [n |-> made + 1, type |-> type, by |-> by]

\* What a request is for: the session's start, a report's first attempt or its
\* second, the session's shutdown.
Purpose == {"none", "open", "first", "retry", "last"}

\* How far it has come: sent means written by the child, taken read by the
\* server.
CallStep == {"none", "connect", "hello", "sent", "taken"}

Call == [for : Purpose, step : CallStep, report : Report]

NoCall == [for |-> "none", step |-> "none",
           report |-> [n |-> 0, type |-> "heartbeat", by |-> "hook"]]

Request == [report : Report, live : BOOLEAN,
            outcome : {"none", "accepted", "refused", "failed"}]

Init ==
  /\ session = "none" /\ turn = "idle"
  /\ authenticated = FALSE /\ connected = FALSE /\ link = FALSE
  /\ failure = FALSE /\ terminal = FALSE
  /\ outbox = <<>> /\ call = NoCall
  /\ made = 0 /\ base = 0
  /\ sessions = 0 /\ drops = 0 /\ crashes = 0
  /\ up = TRUE /\ work = <<>> /\ log = <<>>
  /\ status = "launching" /\ submitted = FALSE /\ unrecorded = FALSE

-----------------------------------------------------------------------------
(* Connections.                                                            *)

\* The answers to what was received so far go nowhere.
Cut(requests) == [i \in DOMAIN requests |-> [requests[i] EXCEPT !.live = FALSE]]

\* session_start fails: the bridge drops its client and asks Pi to shut down.
OpenFails ==
  /\ session' = "closing"
  /\ connected' = FALSE /\ link' = FALSE
  /\ call' = NoCall
  /\ UNCHANGED <<authenticated, turn, failure, terminal, outbox, made, base>>

\* What a report's outcome means for the one who made it.  A tool that is told
\* nothing went wrong reports success to the model, also when the report was
\* dropped; one whose report failed reports that as progress.
Resolved(report, result, rest) ==
  LET fine == result \in {"recorded", "dropped"} IN
  /\ IF report.by = "tool" /\ ~fine
     THEN /\ outbox' = Append(rest, NewReport("heartbeat", "hook"))
          /\ made' = made + 1
     ELSE outbox' = rest /\ UNCHANGED made
  /\ failure' = CASE report.by = "tool"            -> ~fine
                  [] report.by = "settle" /\ fine  -> FALSE
                  [] OTHER                         -> failure
  /\ terminal' = CASE report.by = "tool" /\ fine ->
                        terminal \/ report.type \in {"operation-completed",
                                                     "agent-blocked"}
                   [] report.by = "settle" /\ fine -> FALSE
                   [] OTHER                        -> terminal
  /\ session' = IF report.by = "tool" /\ fine /\ report.type \in Submission
                     /\ session = "open"
                THEN "closing" ELSE session

\* The second attempt failed: nothing of this child is delivered any more.
LockedOut ==
  /\ authenticated' = FALSE /\ connected' = FALSE /\ link' = FALSE
  /\ call' = NoCall
  /\ Resolved(call.report, "failed", outbox)
  /\ UNCHANGED <<turn, base>>

\* session_shutdown has sent its message, or could not.
ShutDown ==
  /\ session' = "ended"
  /\ connected' = FALSE /\ link' = FALSE
  /\ call' = NoCall
  /\ UNCHANGED <<authenticated, turn, failure, terminal, outbox, made, base>>

Connect ==
  /\ call.step = "connect"
  /\ \/ /\ up
        /\ connected' = TRUE /\ link' = TRUE
        /\ call' = [call EXCEPT !.step = "hello"]
        /\ UNCHANGED <<session, authenticated, turn, failure, terminal, outbox,
                       made, base>>
     \/ ~up /\ call.for = "open" /\ OpenFails
     \/ ~up /\ call.for = "retry" /\ LockedOut
  /\ UNCHANGED <<bounds, served>>

\* child.hello is answered from the snapshot, not through the executor; the
\* message follows.
Hello ==
  /\ call.step = "hello" /\ link
  /\ call' = [call EXCEPT !.step = "sent"]
  /\ UNCHANGED <<session, authenticated, connected, link, turn, failure,
                 terminal, outbox, made, base, bounds, served>>

\* Mutant: a report whose connection was closed is not sent again.
LostForGood ==
  /\ call.step \in {"hello", "sent", "taken"} /\ ~link
  /\ \/ call.for = "open" /\ OpenFails
     \/ /\ call.for \in {"first", "retry"}
        /\ call' = NoCall
        /\ Resolved(call.report, "failed", outbox)
        /\ UNCHANGED <<authenticated, connected, link, turn, base>>
     \/ call.for = "last" /\ ShutDown
  /\ UNCHANGED <<bounds, served>>

\* The child finds its connection closed, before or after it wrote a request.
Lost ==
  /\ call.step \in {"hello", "sent", "taken"} /\ ~link
  /\ \/ call.for = "open" /\ OpenFails
     \/ /\ call.for = "first"
        /\ connected' = FALSE
        /\ call' = [call EXCEPT !.for = "retry", !.step = "connect"]
        /\ UNCHANGED <<session, authenticated, link, turn, failure, terminal,
                       outbox, made, base>>
     \/ call.for = "retry" /\ LockedOut
     \/ call.for = "last" /\ ShutDown
  /\ UNCHANGED <<bounds, served>>

\* The server closes the connection: its idle timeout.
Drop ==
  /\ link /\ drops < MaxDrops
  /\ link' = FALSE
  /\ work' = Cut(work)
  /\ drops' = drops + 1
  /\ UNCHANGED <<session, authenticated, connected, turn, failure, terminal,
                 outbox, call, made, base, sessions, crashes, up, status,
                 submitted, log, unrecorded>>

\* The controller dies: what it committed stays, what it had begun or only
\* received is gone.
Crash ==
  /\ up /\ crashes < MaxCrashes
  /\ up' = FALSE /\ link' = FALSE
  /\ work' = <<>>
  /\ crashes' = crashes + 1
  /\ UNCHANGED <<session, authenticated, connected, turn, failure, terminal,
                 outbox, call, made, base, sessions, drops, status, submitted,
                 log, unrecorded>>

Restart ==
  /\ ~up /\ up' = TRUE
  /\ UNCHANGED <<bridge, bounds, work, status, submitted, log, unrecorded>>

-----------------------------------------------------------------------------
(* The controller.                                                         *)

\* Mutant: a message does not wait for the one that came before it.
TakeFirst ==
  /\ call.step = "sent" /\ link
  /\ call' = [call EXCEPT !.step = "taken"]
  /\ work' = <<[report |-> call.report, live |-> TRUE,
                outcome |-> "none"]>> \o work
  /\ UNCHANGED <<session, authenticated, connected, link, turn, failure,
                 terminal, outbox, made, base, bounds, up, status, submitted,
                 log, unrecorded>>

\* The server reads the request and puts its message in the executor's chain.
Take ==
  /\ call.step = "sent" /\ link
  /\ call' = [call EXCEPT !.step = "taken"]
  /\ work' = Append(work, [report |-> call.report, live |-> TRUE,
                           outcome |-> "none"])
  /\ UNCHANGED <<session, authenticated, connected, link, turn, failure,
                 terminal, outbox, made, base, bounds, up, status, submitted,
                 log, unrecorded>>

\* Mutant: an agent that was closed at rest may start its session again.
UnchangedAtRest(type) ==
  \/ type \in SignalMessage
  \/ type = "session-started" /\ status \in {"idle", "closed"}
  \/ type = "agent-blocked" /\ status = "blocked"

\* applyAgentMessage leaves the agent as it is.
Unchanged(type) ==
  \/ type \in SignalMessage
  \/ type = "session-started" /\ status = "idle"
  \/ type = "agent-blocked" /\ status = "blocked"

Accepted(type) ==
  \/ Unchanged(type)
  \/ IF type = "heartbeat"
     THEN status \notin {"planned", "completed", "failed", "closed"}
     ELSE MessageAccepted(status, type)

\* What the message makes of the agent, if it is recorded.
StatusAfter(type) ==
  IF Unchanged(type) \/ type = "heartbeat"
    THEN status ELSE ApplyAgentMessage(status, type)

\* What is accepted is committed, unless it changes nothing that matters.
Durable(type) == ~Unchanged(type) \/ type \in SignalMessage

\* Reports that end an operation.
Ends == {"operation-completed", "operation-failed", "agent-blocked"}

\* Applies and commits the first message in the chain.  The commit may fail,
\* because the controller's lease has lapsed or was taken over, because the
\* writers' leases contradict the snapshot, or in the database: then nothing
\* is recorded, and the error is answered.
Commit ==
  /\ work # <<>> /\ Head(work).outcome = "none"
  /\ LET type == Head(work).report.type
         decided(outcome) == work' = [work EXCEPT ![1].outcome = outcome]
     IN \/ /\ Accepted(type) /\ decided("accepted")
           /\ status' = StatusAfter(type)
           /\ unrecorded' = (unrecorded /\ status' = status)
        \/ /\ ~Accepted(type) /\ decided("refused")
           /\ UNCHANGED <<status, unrecorded>>
        \/ /\ Accepted(type) /\ Durable(type) /\ decided("failed")
           /\ unrecorded' = (unrecorded \/ (status = "working" /\ type \in Ends))
           /\ UNCHANGED status
  /\ log' = Append(log, Head(work).report.n)
  /\ UNCHANGED <<bridge, bounds, up, submitted>>

\* The lifecycle and the tick after the commit.  They accept a submission only
\* of an agent that is idle or working, and close an agent that submitted when
\* its session shuts down; any of them may fail, the tick also after the
\* lifecycle has taken effect, and then the message is answered with an error.
Lifecycle(type, result) ==
  \/ /\ type \in Submission /\ status \in {"idle", "working"}
     /\ submitted' = TRUE /\ UNCHANGED status
  \/ /\ type = "session-shutdown"
     /\ submitted /\ status \in {"idle", "working", "failed"}
     /\ status' = "closed" /\ UNCHANGED submitted
  \/ /\ type \in Submission => result = "refused"
     /\ UNCHANGED <<status, submitted>>

\* What the child does with an answer.
Answered(result) ==
  \/ /\ call.for = "open" /\ result = "recorded"
     /\ session' = "open" /\ authenticated' = TRUE
     /\ call' = NoCall
     /\ UNCHANGED <<connected, link, turn, failure, terminal, outbox, made,
                    base>>
  \/ call.for = "open" /\ result = "refused" /\ OpenFails
  \/ /\ call.for = "first" \/ (call.for = "retry" /\ result = "recorded")
     /\ call' = NoCall
     /\ Resolved(call.report, result, outbox)
     /\ UNCHANGED <<authenticated, connected, link, turn, base>>
  \/ call.for = "retry" /\ result = "refused" /\ LockedOut
  \/ call.for = "last" /\ ShutDown

\* Mutant: a refusal is not answered.
FinishSilently ==
  /\ work # <<>> /\ Head(work).outcome # "none"
  /\ IF Head(work).outcome # "accepted"
     THEN UNCHANGED <<status, submitted, bridge>>
     ELSE /\ Lifecycle(Head(work).report.type, "recorded")
          /\ IF Head(work).live THEN Answered("recorded")
             ELSE UNCHANGED bridge
  /\ work' = Tail(work)
  /\ UNCHANGED <<bounds, up, log, unrecorded>>

\* The first message in the chain is done and, if the connection it came on is
\* still up, answered.
Finish ==
  /\ work # <<>> /\ Head(work).outcome # "none"
  /\ \E result \in {"recorded", "refused"} :
       /\ IF Head(work).outcome = "accepted"
          THEN Lifecycle(Head(work).report.type, result)
          ELSE result = "refused" /\ UNCHANGED <<status, submitted>>
       /\ IF Head(work).live THEN Answered(result) ELSE UNCHANGED bridge
  /\ work' = Tail(work)
  /\ UNCHANGED <<bounds, up, log, unrecorded>>

-----------------------------------------------------------------------------
(* The child's session.                                                    *)

\* session_start, of the first process or of a restored one.
Open ==
  /\ session \in {"none", "ended"} /\ sessions < MaxSessions
  /\ session' = "opening"
  /\ authenticated' = FALSE /\ connected' = FALSE /\ link' = FALSE
  /\ turn' = "idle" /\ failure' = FALSE /\ terminal' = FALSE
  /\ outbox' = <<>>
  /\ call' = [for |-> "open", step |-> "connect",
              report |-> NewReport("session-started", "hook")]
  /\ made' = made + 1 /\ base' = made
  /\ sessions' = sessions + 1
  /\ UNCHANGED <<drops, crashes, served>>

\* The configuration is invalid when the socket is missing: only while nobody
\* serves it, and not always then, because a crash leaves the socket behind.
MayBeInvalid == ~up

\* Without a valid configuration the bridge is not installed: the lockdown asks
\* Pi to shut down as soon as the session starts.
Lockdown ==
  /\ session \in {"none", "ended"} /\ sessions < MaxSessions
  /\ MayBeInvalid
  /\ session' = "closing"
  /\ sessions' = sessions + 1
  /\ UNCHANGED <<authenticated, connected, link, turn, failure, terminal,
                 outbox, call, made, base, drops, crashes, served>>

\* The message queue reaches its next report.
Send ==
  /\ call = NoCall /\ outbox # <<>>
  /\ session \in {"open", "closing", "shutting"}
  /\ IF authenticated
     THEN /\ call' = [for |-> "first", step |-> "sent", report |-> Head(outbox)]
          /\ outbox' = Tail(outbox)
          /\ UNCHANGED <<session, failure, terminal, made>>
     ELSE Resolved(Head(outbox), "dropped", Tail(outbox)) /\ UNCHANGED call
  /\ UNCHANGED <<authenticated, connected, link, turn, base, bounds, served>>

\* reportMessage: the report joins the message queue.
Reports(type, by) ==
  /\ outbox' = Append(outbox, NewReport(type, by))
  /\ made' = made + 1

\* before_agent_start and agent_start.
Prompt ==
  /\ session = "open" /\ turn = "idle" /\ made < MaxReports
  /\ IF authenticated
     THEN /\ turn' = "running"
          /\ failure' = FALSE /\ terminal' = FALSE
          /\ Reports("operation-started", "hook")
          /\ UNCHANGED session
     ELSE session' = "closing"
          /\ UNCHANGED <<turn, failure, terminal, outbox, made>>
  /\ UNCHANGED <<authenticated, connected, link, call, base, bounds, served>>

\* turn_start and tool_execution_start.
Progress ==
  /\ turn = "running" /\ made < MaxReports
  /\ Reports("heartbeat", "hook")
  /\ UNCHANGED <<session, authenticated, connected, link, turn, failure,
                 terminal, call, base, bounds, served>>

\* tool_execution_end of any other tool.  tool_call blocks the tools of a child
\* that is not authenticated, which ends them with an error.
ToolEnds ==
  /\ turn = "running"
  /\ \/ /\ authenticated /\ failure' = FALSE
        /\ UNCHANGED <<outbox, made>>
     \/ /\ made < MaxReports /\ failure' = TRUE
        /\ Reports("heartbeat", "hook")
  /\ UNCHANGED <<session, authenticated, connected, link, turn, terminal, call,
                 base, bounds, served>>

\* agentworks_report_status, agentworks_submit_work and agentworks_submit_review.
Tool ==
  /\ turn = "running" /\ session = "open" /\ authenticated
  /\ made < MaxReports
  /\ \E type \in Actions : Reports(type, "tool")
  /\ UNCHANGED <<session, authenticated, connected, link, turn, failure,
                 terminal, call, base, bounds, served>>

ToolsReturned ==
  /\ \A i \in DOMAIN outbox : outbox[i].by # "tool"
  /\ call.report.by # "tool"

\* Mutant: only a turn that went well is reported to have ended.
SettleIfFine ==
  /\ turn = "running" /\ ToolsReturned
  /\ turn' = "idle"
  /\ IF terminal \/ failure
     THEN failure' = FALSE /\ terminal' = FALSE /\ UNCHANGED <<outbox, made>>
     ELSE /\ Reports("operation-completed", "settle")
          /\ UNCHANGED <<failure, terminal>>
  /\ UNCHANGED <<session, authenticated, connected, link, call, base, bounds,
                 served>>

\* Mutant: the end of a turn is reported under a type the codec does not know.
SettleUnknown ==
  /\ turn = "running" /\ ToolsReturned
  /\ turn' = "idle"
  /\ Reports("agent-settled", "settle")
  /\ UNCHANGED <<session, authenticated, connected, link, failure, terminal,
                 call, base, bounds, served>>

\* agent_settled.
Settle ==
  /\ turn = "running" /\ ToolsReturned
  /\ turn' = "idle"
  /\ IF terminal
     THEN failure' = FALSE /\ terminal' = FALSE /\ UNCHANGED <<outbox, made>>
     ELSE /\ Reports(IF failure THEN "operation-failed"
                     ELSE "operation-completed", "settle")
          /\ UNCHANGED <<failure, terminal>>
  /\ UNCHANGED <<session, authenticated, connected, link, call, base, bounds,
                 served>>

\* Pi shuts down when the session is idle, because it was asked to or because
\* its user quits: session_shutdown waits for the message queue.
Quit ==
  /\ session \in {"open", "closing"} /\ turn = "idle"
  /\ session' = "shutting"
  /\ UNCHANGED <<authenticated, connected, link, turn, failure, terminal,
                 outbox, call, made, base, bounds, served>>

\* Mutant: a session does not end without a client to say so.
GoodbyeToClient ==
  /\ session = "shutting" /\ call = NoCall /\ outbox = <<>> /\ connected
  /\ authenticated' = FALSE /\ failure' = FALSE /\ terminal' = FALSE
  /\ call' = [for |-> "last", step |-> "sent",
              report |-> NewReport("session-shutdown", "hook")]
  /\ made' = made + 1
  /\ UNCHANGED <<session, connected, link, turn, outbox, base, bounds, served>>

\* Then it sends the last message, if it still has a client.
Goodbye ==
  /\ session = "shutting" /\ call = NoCall /\ outbox = <<>>
  /\ authenticated' = FALSE /\ failure' = FALSE /\ terminal' = FALSE
  /\ IF connected
     THEN /\ call' = [for |-> "last", step |-> "sent",
                      report |-> NewReport("session-shutdown", "hook")]
          /\ made' = made + 1
          /\ UNCHANGED session
     ELSE session' = "ended" /\ UNCHANGED <<call, made>>
  /\ UNCHANGED <<connected, link, turn, outbox, base, bounds, served>>

\* The process dies.  The server may still read what it wrote.
Kill ==
  /\ session \notin {"none", "ended"}
  /\ session' = "ended"
  /\ authenticated' = FALSE /\ connected' = FALSE /\ link' = FALSE
  /\ turn' = "idle" /\ failure' = FALSE /\ terminal' = FALSE
  /\ outbox' = <<>> /\ call' = NoCall
  /\ \/ work' = Cut(work)
     \/ /\ call.step = "sent" /\ link
        /\ work' = Append(Cut(work), [report |-> call.report, live |-> FALSE,
                                      outcome |-> "none"])
  /\ UNCHANGED <<made, base, bounds, up, status, submitted, log, unrecorded>>

-----------------------------------------------------------------------------
Child == Open \/ Lockdown \/ Connect \/ Hello \/ Lost \/ Send \/ Prompt \/ Progress
           \/ ToolEnds \/ Tool \/ Settle \/ Quit \/ Goodbye \/ Kill

Controller == Take \/ Commit \/ Finish \/ Drop \/ Crash \/ Restart

Next == Child \/ Controller

Spec == Init /\ [][Next]_vars

\* A connection delivers or is closed, the executor's chain moves on, and Pi
\* lets a turn end and shuts down when asked.  Nothing obliges the controller
\* to come back after a crash, Pi to start a turn, or the user to quit.
Fairness ==
  /\ WF_vars(Connect) /\ WF_vars(Hello) /\ WF_vars(Lost) /\ WF_vars(Send)
  /\ WF_vars(Settle) /\ WF_vars(session = "closing" /\ Quit)
  /\ WF_vars(Goodbye)
  /\ WF_vars(Take) /\ WF_vars(Commit) /\ WF_vars(Finish)

FairSpec == Spec /\ Fairness

-----------------------------------------------------------------------------
TypeOK ==
  /\ session \in Session /\ turn \in {"idle", "running"}
  /\ authenticated \in BOOLEAN /\ connected \in BOOLEAN /\ link \in BOOLEAN
  /\ failure \in BOOLEAN /\ terminal \in BOOLEAN
  /\ outbox \in Seq(Report) /\ call \in Call
  /\ made \in Nat /\ base \in Nat
  /\ sessions \in Nat /\ drops \in Nat /\ crashes \in Nat
  /\ up \in BOOLEAN /\ work \in Seq(Request)
  /\ status \in AgentStatus /\ submitted \in BOOLEAN
  /\ log \in Seq(Nat) /\ unrecorded \in BOOLEAN

\* Reports are handled in the order in which they were made, whatever was sent
\* twice, lost or left over from an earlier connection or session: a repeated
\* report is handled before any later one (the message queue of child-mode.ts
\* and the executor's chain of process-entry.ts).
ReportsInOrder ==
  \A i, j \in DOMAIN log : i < j => log[i] <= log[j]

\* As long as a child is authenticated, every report of its session that has
\* left its queue was handled by the executor, recorded or answered with an
\* error: connections that close and controllers that crash lose none, or the
\* child is locked out (reportMessage, child-mode.ts).
NoReportLost ==
  authenticated =>
    \A n \in (base + 1)..made :
      \/ \E i \in DOMAIN outbox : outbox[i].n = n
      \/ call.report.n = n
      \/ \E i \in DOMAIN log : log[i] = n

\* An agent the controller has closed belongs to a session that is over: a
\* restored session of it is not let in, even when it arrives while the last
\* message of the session before is still being handled.
ClosedIsOver ==
  status = "closed" => ~authenticated /\ session # "open"

\* An authenticated child that is at rest is not held to be working: every
\* operation the controller saw start it also saw end, however the turn ended,
\* whatever its tools reported and whatever was sent twice, unless it was the
\* end itself that the controller could not commit.  Nothing else that fails to
\* be recorded leaves an agent at work for ever (agent_start, agent_settled and
\* terminalStatusReported in child-mode.ts, apply in agent-message-controller.ts).
RestIsSeen ==
  authenticated /\ turn = "idle" /\ outbox = <<>> /\ call = NoCall
    => status # "working" \/ unrecorded

\* Every report is settled in the end, delivered, refused or given up: the
\* message queue never hangs on a lost request or answer.
ReportsSettle == []<>(outbox = <<>> /\ call = NoCall)

\* A child whose submission was accepted, or that may not start a turn, ends.
ClosingEnds == session = "closing" ~> session = "ended"

\* An answer that refuses a report leaves the child authenticated: "Retrying an
\* invalid state transition cannot recover it and must not revoke this child's
\* capability" (the comment in reportMessage, child-mode.ts).
RefusalKeepsCapability ==
  [][ authenticated /\ work # <<>> /\ Head(work).live
      /\ Head(work).outcome = "refused" /\ work' = Tail(work)
        => authenticated' ]_vars
=============================================================================
