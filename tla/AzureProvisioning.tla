------------------------- MODULE AzureProvisioning -------------------------
(***************************************************************************)
(* The Azure service in one run: the wire server's address, asked for over *)
(* DHCP; the protocol version and the provisioning file; then the goal     *)
(* state, which is fetched once, the health reports that carry its         *)
(* incarnation, and the certificates.  The fabric may move on to another   *)
(* incarnation meanwhile, and every request may get no answer.             *)
(***************************************************************************)
EXTENDS Naturals

CONSTANTS
  Fabrics,       \* a subset of Fabric
  DhcpTries,     \* repetitions of the search for the address, 75 in the code
  BindAttempts,  \* max_bind_attempts
  Timeout,       \* ticks until a DHCP reply is no longer waited for
  RetryCount,    \* CONF.retry_count
  MaxChanges     \* bound: changes of the goal state

VARIABLES
  pc,
  fabric,        \* the options, what the wire server has, the expected state, and
                 \* what an earlier run has reported
  incarnation,   \* of the fabric's goal state
  searches,      \* of the address that are left
  attempts,      \* to bind the DHCP client's port
  clock,         \* since the DHCP request
  endpoint,      \* "none", "dhcp" or "fallback"
  version,       \* the header with the protocol version is set
  goal,          \* [incarnation, state], as fetched, or NoGoal
  tries,         \* repetitions of the request
  shown,         \* the last health report the fabric has got
  ok, reboot,    \* of the main stage
  unheard        \* no report of the outcome was answered

vars == <<pc, fabric, incarnation, searches, attempts, clock, endpoint, version, goal, tries, shown,
          ok, reboot, unheard>>

NoGoal == [incarnation |-> 0, state |-> "none"]
Health == {"none", "Provisioning", "Failed", "Ready"}
Fabric ==
  [version : BOOLEAN, file : BOOLEAN, started : BOOLEAN, completed : BOOLEAN,
   state : {"Started", "Stopped"}, shown : Health]

Init ==
  /\ pc = "idle" /\ fabric \in Fabrics /\ incarnation = 1
  /\ searches = 0 /\ attempts = 0 /\ clock = 0 /\ endpoint = "none" /\ version = FALSE
  /\ goal = NoGoal /\ tries = 0 /\ shown = [state |-> fabric.shown, incarnation |-> 0]
  /\ ok = TRUE /\ reboot = FALSE /\ unheard = FALSE

dhcpVars == <<searches, attempts, clock, endpoint>>
runVars == <<goal, shown, ok, reboot, unheard>>

-----------------------------------------------------------------------------
(* load *)

Load ==
  /\ pc = "idle"
  /\ pc' = "bind" /\ searches' = DhcpTries /\ attempts' = 1
  /\ UNCHANGED <<fabric, incarnation, clock, endpoint, version, tries, runVars>>

Found(address) == pc' = "version" /\ endpoint' = address

\* Mutant: the searches are not counted.
Mut_NotFound ==
  /\ pc' = "bind" /\ attempts' = 1
  /\ UNCHANGED <<searches, clock, endpoint>>

\* No answer, or one without the address: the search is repeated, in the end the
\* well-known address is taken.
NotFound ==
  /\ clock' = 0
  /\ IF searches = 0 THEN Found("fallback") /\ UNCHANGED <<searches, attempts>>
     ELSE pc' = "bind" /\ searches' = searches - 1 /\ attempts' = 1 /\ UNCHANGED endpoint

\* Another DHCP client may have the port.
Bind ==
  /\ pc = "bind"
  /\ pc' = "receive" /\ clock' = 0
  /\ UNCHANGED <<fabric, incarnation, searches, attempts, endpoint, version, tries, runVars>>

BindAgain ==
  /\ pc = "bind" /\ attempts < BindAttempts
  /\ attempts' = attempts + 1
  /\ UNCHANGED <<pc, fabric, incarnation, searches, clock, endpoint, version, tries, runVars>>

BindFails ==
  /\ pc = "bind" /\ NotFound
  /\ UNCHANGED <<fabric, incarnation, version, tries, runVars>>

\* A reply to this request, with the address.
Reply ==
  /\ pc = "receive" /\ clock < Timeout
  /\ Found("dhcp") /\ clock' = 0
  /\ UNCHANGED <<fabric, incarnation, searches, attempts, version, tries, runVars>>

\* A reply to somebody else's request.
OtherReply ==
  /\ pc = "receive" /\ clock < Timeout
  /\ clock' = clock + 1
  /\ UNCHANGED <<pc, fabric, incarnation, searches, attempts, endpoint, version, tries, runVars>>

\* A reply without the address or that cannot be parsed, or none in time.
NoReply ==
  /\ pc = "receive" /\ NotFound
  /\ UNCHANGED <<fabric, incarnation, version, tries, runVars>>

CheckVersion ==
  /\ pc = "version" /\ tries' = 0
  /\ IF fabric.version THEN pc' = "file" /\ version' = TRUE
     ELSE pc' = "not loaded" /\ UNCHANGED version
  /\ UNCHANGED <<fabric, incarnation, dhcpVars, runVars>>

ReadFile ==
  /\ pc = "file"
  /\ pc' = IF fabric.file THEN "loaded" ELSE "not loaded"
  /\ UNCHANGED <<fabric, incarnation, dhcpVars, version, tries, runVars>>

-----------------------------------------------------------------------------
(* The run: what configure_host does with the service once it is loaded. *)

Step(here, next) == pc = here /\ pc' = next

Provision ==
  /\ pc = "loaded"
  /\ pc' = IF fabric.started THEN "start" ELSE "id"
  /\ UNCHANGED <<fabric, incarnation, dhcpVars, version, tries, runVars>>

\* The steps that need the goal state, and where an exception in one of them leads.
NeedsGoal == {"start", "id", "certs", "thumbprint", "failing", "completing"}
Asking == {"version", "start", "id", "certs", "thumbprint", "env", "failing", "completing"}

Raised ==
  /\ tries' = 0
  /\ pc' = CASE pc = "version" -> "not loaded"
             [] pc \in {"start", "id"} -> "aborted"
             [] pc \in {"certs", "thumbprint", "env"} -> "main"
             [] pc \in {"failing", "completing"} -> "over"
  /\ ok' = (ok /\ pc \notin {"certs", "thumbprint", "env"})
  /\ unheard' = (unheard \/ pc \in {"failing", "completing"})
  /\ UNCHANGED <<fabric, incarnation, dhcpVars, version, reboot>>

\* The goal state is kept as it was fetched, before its expected state is looked at.
FetchGoal ==
  /\ pc \in NeedsGoal /\ goal = NoGoal
  /\ goal' = [incarnation |-> incarnation, state |-> fabric.state]
  /\ tries' = 0
  /\ UNCHANGED <<pc, fabric, incarnation, dhcpVars, version, shown, ok, reboot, unheard>>

NotStarted ==
  /\ pc \in NeedsGoal /\ goal # NoGoal /\ goal.state # "Started"
  /\ Raised
  /\ UNCHANGED <<goal, shown>>

Ready == goal # NoGoal /\ goal.state = "Started"

\* A request that gets no answer is repeated.
Unanswered ==
  /\ pc \in Asking
  /\ IF tries < RetryCount
       THEN tries' = tries + 1
            /\ UNCHANGED <<pc, fabric, incarnation, dhcpVars, version, ok, reboot, unheard>>
       ELSE Raised

\* The instance id needs no request when the goal state is there.
Requesting ==
  /\ pc \in Asking /\ ~(pc = "id" /\ goal # NoGoal)
  /\ (pc \in NeedsGoal /\ goal # NoGoal) => Ready

NoAnswer ==
  /\ Requesting /\ Unanswered
  /\ UNCHANGED <<goal, shown>>

InstanceId ==
  /\ Step("id", "main") /\ Ready
  /\ UNCHANGED <<fabric, incarnation, dhcpVars, version, tries, runVars>>

\* What the report of this step says.
Report ==
  [state |-> CASE pc = "start" -> "Provisioning" [] pc = "failing" -> "Failed"
               [] pc = "completing" -> "Ready",
   incarnation |-> goal.incarnation]
Reporting == pc \in {"start", "failing", "completing"} /\ Ready

Post ==
  /\ Reporting /\ shown' = Report /\ tries' = 0
  /\ pc' = IF pc = "start" THEN "id" ELSE "over"
  /\ UNCHANGED <<fabric, incarnation, dhcpVars, version, goal, ok, reboot, unheard>>

\* The fabric has got the report, the answer is lost, and the report is sent again.
PostLost ==
  /\ Reporting /\ shown' = Report /\ Unanswered
  /\ UNCHANGED goal

-----------------------------------------------------------------------------
(* The main stage. *)

Plugin ==
  /\ pc = "main" /\ pc' \in {"certs", "thumbprint"}
  /\ UNCHANGED <<fabric, incarnation, dhcpVars, version, tries, runVars>>

\* The certificates, if there are any, come encrypted for a transport certificate; then
\* the hosting environment says where they belong.
Certs ==
  /\ pc = "certs" /\ pc' \in {"main", "env"} /\ Ready /\ tries' = 0
  /\ UNCHANGED <<fabric, incarnation, dhcpVars, version, runVars>>

\* The transport certificate cannot be made, or the blob not be decoded.
CertsFail ==
  /\ pc = "certs" /\ Ready /\ Raised
  /\ UNCHANGED <<goal, shown>>

Environment ==
  /\ Step("env", "main") /\ tries' = 0
  /\ UNCHANGED <<fabric, incarnation, dhcpVars, version, runVars>>

Thumbprint ==
  /\ Step("thumbprint", "main") /\ Ready /\ tries' = 0
  /\ UNCHANGED <<fabric, incarnation, dhcpVars, version, runVars>>

PluginFails ==
  /\ pc = "main" /\ ok' = FALSE
  /\ UNCHANGED <<pc, fabric, incarnation, dhcpVars, version, tries, goal, shown, reboot, unheard>>

PluginReboots ==
  /\ pc = "main" /\ reboot' = TRUE /\ pc' = "outcome"
  /\ UNCHANGED <<fabric, incarnation, dhcpVars, version, tries, goal, shown, ok, unheard>>

StageOver ==
  /\ Step("main", "outcome")
  /\ UNCHANGED <<fabric, incarnation, dhcpVars, version, tries, runVars>>

\* Mutant: a run that reboots reports completion.
Mut_Outcome ==
  /\ pc = "outcome"
  /\ pc' = CASE fabric.completed /\ ~ok -> "failing"
             [] fabric.completed /\ ok -> "completing"
             [] OTHER -> "over"
  /\ UNCHANGED <<fabric, incarnation, dhcpVars, version, tries, runVars>>

\* A failure is reported whether or not the machine reboots, completion only without.
Outcome ==
  /\ pc = "outcome"
  /\ pc' = CASE fabric.completed /\ ~ok -> "failing"
             [] fabric.completed /\ ok /\ ~reboot -> "completing"
             [] OTHER -> "over"
  /\ UNCHANGED <<fabric, incarnation, dhcpVars, version, tries, runVars>>

Searching ==
  \/ Bind \/ BindAgain \/ BindFails \/ Reply \/ OtherReply \/ NoReply \/ CheckVersion \/ ReadFile
  \/ pc = "version" /\ NoAnswer

Running ==
  \/ Provision \/ FetchGoal \/ NotStarted \/ InstanceId \/ Post \/ PostLost
  \/ Plugin \/ Certs \/ CertsFail \/ Environment \/ Thumbprint
  \/ PluginFails \/ PluginReboots \/ StageOver \/ Outcome
  \/ pc # "version" /\ NoAnswer

\* The fabric has a new goal state.
Move ==
  /\ incarnation <= MaxChanges /\ incarnation' = incarnation + 1
  /\ \E s \in {"Started", "Stopped"} : fabric' = [fabric EXCEPT !.state = s]
  /\ UNCHANGED <<pc, dhcpVars, version, tries, runVars>>

-----------------------------------------------------------------------------
(* Properties *)

TypeOK ==
  /\ pc \in {"idle", "bind", "receive", "version", "file", "loaded", "not loaded", "start", "id",
             "main", "certs", "env", "thumbprint", "outcome", "failing", "completing", "over", "aborted"}
  /\ fabric \in Fabric /\ incarnation \in 1..MaxChanges + 1 /\ searches \in 0..DhcpTries
  /\ attempts \in 0..BindAttempts /\ clock \in 0..Timeout
  /\ endpoint \in {"none", "dhcp", "fallback"} /\ version \in BOOLEAN
  /\ goal.incarnation \in 0..MaxChanges + 1 /\ tries \in 0..RetryCount
  /\ shown \in [state : Health, incarnation : 0..MaxChanges + 1]
  /\ ok \in BOOLEAN /\ reboot \in BOOLEAN /\ unheard \in BOOLEAN

\* While plugins run the fabric shows a machine that is being provisioned, whatever an
\* earlier run reported; at the end it shows the outcome, and Ready only for a run whose
\* plugins have succeeded and that does not reboot.  Only when no answer came to the last
\* report may it show something else.
HealthReports ==
  /\ fabric.started /\ pc \in {"id", "main", "certs", "env", "thumbprint", "outcome"} =>
       shown = [state |-> "Provisioning", incarnation |-> goal.incarnation]
  /\ pc = "over" /\ fabric.completed /\ ~unheard =>
       /\ ~ok => shown.state = "Failed"
       /\ ok /\ ~reboot => shown.state = "Ready"
       /\ ok /\ reboot /\ fabric.started => shown.state = "Provisioning"
  /\ shown.state = "Ready" /\ shown.incarnation # 0 =>
       ok /\ ~reboot /\ shown.incarnation = goal.incarnation /\ goal.state = "Started"

=============================================================================
