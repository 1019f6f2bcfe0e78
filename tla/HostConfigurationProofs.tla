---------------------- MODULE HostConfigurationProofs ----------------------
(***************************************************************************)
(* Proofs about HostConfiguration, for any machines, failures and crashes: *)
(*   - the plugins run with a fresh logon in a machine whose service can   *)
(*     be started again, and the UAC remote restrictions are lifted in the *)
(*     bodies of the remote access plugins only;                           *)
(*   - listeners and certificate mappings are there once the plugins that  *)
(*     create them are done;                                               *)
(*   - a setting that is read at the boot gets the reboot it needs, and a  *)
(*     plugin whose result is recorded has set all it is there for;        *)
(*   - the variables have their types.                                     *)
(***************************************************************************)
EXTENDS HostConfiguration, WellFoundedInduction, TLAPS

-----------------------------------------------------------------------------
(* The service's account. *)

\* What the reset of the password has come to at each of its steps.
ResetInv ==
  /\ accountPc \in {"idle", "service", "credentials", "user", "spawn", "over", "gone"}
  /\ process \in {"parent", "child"}
  /\ accountPc = "service" /\ process = "parent" => resets = 0 /\ Account!Startable
  /\ accountPc = "service" /\ process = "child" =>
       resets = 1 /\ account = "local" /\ own /\ credentials = password
  /\ accountPc = "credentials" => resets = 1 /\ process = "parent" /\ account = "local"
  /\ accountPc = "user" =>
       resets = 1 /\ process = "parent" /\ account = "local" /\ credentials = password
  /\ accountPc = "spawn" =>
       resets = 1 /\ process = "parent" /\ account = "local" /\ own /\ credentials = password
  /\ accountPc = "over" =>
       Account!Startable /\ (account = "local" => process = IF own THEN "child" ELSE "parent")
  /\ resets \in {0, 1}

\* The plugins run when it is over.
AccountInv == ResetInv /\ (turn \in {"settings", "remote"} => accountPc = "over")

LEMMA InitAccountInv == Init => AccountInv
BY DEF Init, Account!Init, AccountInv, ResetInv

\* One step of the reset.
LEMMA NextResetInv ==
  ASSUME ResetInv, Account!Next
  PROVE  ResetInv'
<1> USE DEF ResetInv, Account!Startable, Account!Goes, Account!NoReset
<1>1. CASE Account!Start
  BY <1>1 DEF Account!Start
<1>2. CASE Account!Keep
  BY <1>2 DEF Account!Keep
<1>3. CASE Account!SetPassword
  BY <1>3 DEF Account!SetPassword
<1>4. CASE Account!SetCredentials
  BY <1>4 DEF Account!SetCredentials
<1>5. CASE Account!OtherUser
  BY <1>5 DEF Account!OtherUser
<1>6. CASE Account!Logon
  BY <1>6 DEF Account!Logon
<1>7. CASE Account!Spawn
  BY <1>7 DEF Account!Spawn
<1>8. CASE Account!Raise
  BY <1>8 DEF Account!Raise
<1>9. QED
  BY <1>1, <1>2, <1>3, <1>4, <1>5, <1>6, <1>7, <1>8 DEF Account!Next

LEMMA NextAccountInv ==
  ASSUME AccountInv, [Next]_vars
  PROVE  AccountInv'
<1> USE DEF AccountInv
<1>1. CASE Boot
  <2>1. Account!Next
    BY <1>1 DEF Boot, Account!Next
  <2>2. QED
    BY <1>1, <2>1, NextResetInv DEF Boot
<1>2. CASE Reset
  BY <1>2, NextResetInv DEF Reset
<1>3. CASE ResetOver \/ Gone \/ Configure \/ ConfigureOver \/ Open \/ OpenOver
  <2>1. UNCHANGED accountVars
    BY <1>3 DEF ResetOver, Gone, Configure, ConfigureOver, Open, OpenOver
  <2>2. turn' \in {"settings", "remote"} => accountPc = "over"
    BY <1>3 DEF ResetOver, Gone, Configure, ConfigureOver, Open, OpenOver
  <2>3. QED
    BY <2>1, <2>2 DEF ResetInv, accountVars, Account!Startable
<1>4. CASE Reboot \/ Crash
  <2>1. Account!Halt /\ turn' = "off"
    BY <1>4 DEF Reboot, Crash, Down
  <2>2. QED
    BY <2>1 DEF Account!Halt, ResetInv
<1>5. CASE UNCHANGED vars
  BY <1>5 DEF vars, accountVars, ResetInv, Account!Startable
<1>6. QED
  BY <1>1, <1>2, <1>3, <1>4, <1>5 DEF Next, Own

\* While plugins run the service can be logged on again, and no process runs them with
\* the logon of the old password.
THEOREM LogonsAreFresh == Spec => []LogonIsFresh
<1>1. AccountInv => LogonIsFresh
  BY DEF AccountInv, ResetInv, LogonIsFresh, Account!OneReset
<1>2. QED
  BY <1>1, InitAccountInv, NextAccountInv, PTL DEF Spec

-----------------------------------------------------------------------------
(* The UAC remote restrictions. *)

\* The steps of the two bodies that run with the restrictions lifted.
Body == {"auth", "entry", "delete", "create", "rule", "mapping"}

\* They are off in the bodies on an old Windows, and what a body has to put back is what
\* the image had.
LiftInv ==
  /\ restrictions \in {"on", "off"} /\ remoteHost.restricted \in {"on", "off"}
  /\ restrictions = "on" => remoteHost.restricted = "on"
  /\ remotePc \in Body /\ remoteHost.legacy => restrictions = "off"
  /\ remotePc \notin Body \cup {"restore"} => ~lifted
  /\ lifted => remoteHost.restricted = "on"
  /\ ~left /\ ~lifted => restrictions = remoteHost.restricted

LEMMA InitLiftInv == Init => LiftInv
<1> SUFFICES ASSUME Init PROVE LiftInv
  OBVIOUS
<1>1. PICK m \in Machines : remoteHost = m.remote
  BY DEF Init
<1>2. remoteHost.restricted \in {"on", "off"}
  BY <1>1, HostConfigurationAssumption
<1>3. QED
  BY <1>2 DEF Init, Remote!Init, LiftInv, Body

\* Steps that leave the restrictions alone and do not enter or leave a body with them.
LEMMA QuietLiftInv ==
  ASSUME LiftInv, UNCHANGED <<restrictions, remoteHost, lifted, left>>,
         remotePc' \in Body => remotePc \in Body,
         remotePc \in Body \cup {"restore"} => remotePc' \in Body \cup {"restore"}
  PROVE  LiftInv'
BY DEF LiftInv

\* The end of a plugin outside a body: there is nothing to put back.
LEMMA OverLiftInv ==
  ASSUME LiftInv, UNCHANGED <<restrictions, remoteHost, left>>, ~lifted, ~lifted',
         remotePc' \notin Body
  PROVE  LiftInv'
BY DEF LiftInv

LEMMA NextLiftInv ==
  ASSUME LiftInv, Remote!Next
  PROVE  LiftInv'
<1> USE DEF Remote!Goes, Remote!system
<1>1. CASE Remote!Start
  BY <1>1, QuietLiftInv DEF Remote!Start, Body
<1>2. CASE Remote!Pass \/ Remote!Imported \/ Remote!NoService \/ Remote!NoClientCerts \/ Remote!Raises
  <2>1. remotePc \notin Body \cup {"restore"}
    BY <1>2 DEF Remote!Pass, Remote!Imported, Remote!NoService, Remote!NoClientCerts, Remote!Raises,
                Remote!Raise, Remote!Due, Body
  <2>2. UNCHANGED <<restrictions, remoteHost, left>>
    BY <1>2 DEF Remote!Pass, Remote!Imported, Remote!NoService, Remote!NoClientCerts, Remote!Raises
  <2>3. ~lifted' /\ remotePc' \in {"over", "next"}
    BY <1>2 DEF Remote!Pass, Remote!Imported, Remote!NoService, Remote!NoClientCerts, Remote!Raises,
                Remote!Over
  <2>4. ~lifted
    BY <2>1 DEF LiftInv
  <2>5. QED
    BY <2>2, <2>3, <2>4, OverLiftInv DEF Body
<1>3. CASE \/ Remote!Certificates \/ Remote!Import \/ Remote!CheckService \/ Remote!SetMode
           \/ Remote!StartService \/ Remote!ClientCerts
  <2>1. UNCHANGED <<restrictions, remoteHost, lifted, left>>
    BY <1>3 DEF Remote!Certificates, Remote!Import, Remote!CheckService, Remote!SetMode,
                Remote!StartService, Remote!ClientCerts
  <2>2. remotePc \notin Body \cup {"restore"} /\ remotePc' \notin Body
    BY <1>3 DEF Remote!Certificates, Remote!Import, Remote!CheckService, Remote!SetMode,
                Remote!StartService, Remote!ClientCerts, Remote!Due, Body
  <2>3. QED
    BY <2>1, <2>2, QuietLiftInv
<1>4. CASE Remote!Entries
  <2>1. remotePc = "entries" /\ remotePc' \in {"over", "next", "lift"}
    BY <1>4 DEF Remote!Entries, Remote!Over
  <2>2. UNCHANGED <<restrictions, remoteHost, left>>
    BY <1>4 DEF Remote!Entries
  <2>3. ~lifted
    BY <2>1 DEF LiftInv, Body
  <2>4. ~lifted'
    BY <1>4, <2>3 DEF Remote!Entries, Remote!Over
  <2>5. QED
    BY <2>1, <2>2, <2>3, <2>4, OverLiftInv DEF Body
<1>5. CASE Remote!Lift
  <2>1. remotePc = "lift" /\ remotePc' = "auth" /\ UNCHANGED <<remoteHost, left>> /\ ~lifted
    BY <1>5 DEF Remote!Lift, LiftInv, Body
  <2>2. lifted' <=> remoteHost.legacy /\ restrictions = "on"
    BY <1>5 DEF Remote!Lift, Remote!Restricted
  <2>3. restrictions' = IF lifted' THEN "off" ELSE restrictions
    BY <1>5 DEF Remote!Lift, Remote!SetRestrictions
  <2>4. QED
    BY <2>1, <2>2, <2>3 DEF LiftInv, Body
<1>6. CASE Remote!LiftRaises
  <2>1. /\ remotePc' = "restore" /\ lifted' /\ restrictions = "on"
        /\ UNCHANGED <<restrictions, remoteHost, left>>
    BY <1>6 DEF Remote!LiftRaises, Remote!Restricted
  <2>2. QED
    BY <2>1 DEF LiftInv, Body
<1>7. CASE \/ Remote!SetAuth \/ Remote!BodyOver \/ Remote!Certificate \/ Remote!DeleteListener
           \/ Remote!CreateListener \/ Remote!CreateRule \/ Remote!ImportClientCert
           \/ Remote!DeleteMapping \/ Remote!CreateMapping \/ Remote!BodyRaises
  <2>1. UNCHANGED <<restrictions, remoteHost, lifted, left>>
    BY <1>7 DEF Remote!SetAuth, Remote!BodyOver, Remote!Certificate, Remote!DeleteListener,
                Remote!CreateListener, Remote!CreateRule, Remote!ImportClientCert,
                Remote!DeleteMapping, Remote!CreateMapping, Remote!BodyRaises
  <2>2. remotePc \in Body /\ remotePc' \in Body \cup {"restore"}
    BY <1>7 DEF Remote!SetAuth, Remote!BodyOver, Remote!Certificate, Remote!DeleteListener,
                Remote!CreateListener, Remote!CreateRule, Remote!ImportClientCert,
                Remote!DeleteMapping, Remote!CreateMapping, Remote!BodyRaises, Remote!Raise, Body
  <2>3. QED
    BY <2>1, <2>2, QuietLiftInv
<1>8. CASE Remote!Restore
  <2>1. remotePc = "restore" /\ remotePc' \in {"over", "next"} /\ ~lifted'
    BY <1>8 DEF Remote!Restore, Remote!Over
  <2>2. UNCHANGED <<remoteHost, left>> /\ restrictions' = IF lifted THEN "on" ELSE restrictions
    BY <1>8 DEF Remote!Restore, Remote!SetRestrictions
  <2>3. QED
    BY <2>1, <2>2 DEF LiftInv, Body
<1>9. CASE Remote!RestoreRaises
  <2>1. remotePc' \in {"over", "next"} /\ ~lifted' /\ left' /\ UNCHANGED <<restrictions, remoteHost>>
    BY <1>9 DEF Remote!RestoreRaises, Remote!Over
  <2>2. QED
    BY <2>1 DEF LiftInv, Body
<1>10. QED
  BY <1>1, <1>2, <1>3, <1>4, <1>5, <1>6, <1>7, <1>8, <1>9 DEF Remote!Next

\* The composition: the other parts leave the remote access plugins alone.
LEMMA StepLiftInv ==
  ASSUME LiftInv, [Next]_vars
  PROVE  LiftInv'
<1>1. CASE Open
  BY <1>1, NextLiftInv DEF Open
<1>2. CASE ConfigureOver
  <2>1. Remote!Next
    BY <1>2 DEF ConfigureOver, Remote!Next
  <2>2. QED
    BY <2>1, NextLiftInv
<1>3. CASE \/ Boot \/ Reset \/ ResetOver \/ Gone \/ Configure \/ OpenOver \/ UNCHANGED vars
  <2>1. UNCHANGED remoteVars
    BY <1>3 DEF Boot, Reset, ResetOver, Gone, Configure, OpenOver, vars
  <2>2. QED
    BY <2>1, QuietLiftInv DEF remoteVars
<1>4. CASE Reboot \/ Crash
  <2>1. remotePc' = "idle" /\ ~lifted' /\ (left' <=> left \/ lifted) /\ UNCHANGED <<restrictions, remoteHost>>
    BY <1>4 DEF Reboot, Crash, Down, Remote!Halt, Remote!system
  <2>2. QED
    BY <2>1 DEF LiftInv, Body
<1>5. QED
  BY <1>1, <1>2, <1>3, <1>4 DEF Next, Own

\* A body never meets "Access is denied", and outside the bodies the restrictions are
\* what they were on the image, unless a crash or a failing restore left them off.
THEOREM RestrictionsComeBack == Spec => []LiftedOnlyInside
<1>1. LiftInv => LiftedOnlyInside
  BY DEF LiftInv, Body, LiftedOnlyInside, Remote!RestrictionsComeBack, Remote!NeverDenied,
         Remote!Denied, Remote!Restricted
<1>2. QED
  BY <1>1, InitLiftInv, StepLiftInv, PTL DEF Spec

-----------------------------------------------------------------------------
(* Loops over lists. *)

\* A set of numbers up to N that has a member has a largest one.
LEMMA LessIs ==
  ASSUME NEW x \in Nat, NEW y \in Nat, x < y
  PROVE  <<x, y>> \in OpToRel(<, Nat)
BY SMT DEF OpToRel

LEMMA LastOf ==
  ASSUME NEW N \in Nat, NEW T, T \subseteq 1 .. N, T # {}
  PROVE  \E n \in T : \A m \in T : m <= n
<1> DEFINE U == {N - n : n \in T}
<1>1. U \subseteq Nat
  <2>1. ASSUME NEW n \in T PROVE N - n \in Nat
    OBVIOUS
  <2>2. QED
    BY <2>1
<1>2. U # {}
  OBVIOUS
<1>3. PICK u \in U : \A v \in U : ~ (<<v, u>> \in OpToRel(<, Nat))
  <2> HIDE DEF U
  <2>1. QED
    BY <1>1, <1>2, WFMin, NatLessThanWellFounded
<1>4. ASSUME NEW v \in U PROVE v >= u
  <2>1. v \in Nat /\ u \in Nat
    BY <1>1
  <2>2. ~ (v < u)
    BY <2>1, <1>3, LessIs, Zenon
  <2>3. QED
    BY <2>1, <2>2
<1>5. PICK n \in T : u = N - n
  BY <1>3
<1>6. ASSUME NEW m \in T PROVE m <= n
  <2>1. N - m >= N - n
    BY <1>4, <1>5
  <2>2. m \in 1 .. N /\ n \in 1 .. N
    OBVIOUS
  <2>3. QED
    BY <2>1, <2>2
<1>7. QED
  BY <1>6

Wanted == [protocol : Remote!Protocols, cert : Remote!Certs]

LEMMA RemoteHostFacts ==
  ASSUME NEW h \in {m.remote : m \in Machines}
  PROVE  /\ h.server \in Seq(Remote!Certs) /\ h.client \in Seq(Remote!Certs)
         /\ h.listeners \in Seq(Wanted)
         /\ h.mode \in {"manual", "disabled", "auto"} /\ h.restricted \in {"on", "off"}
<1>1. PICK m \in Machines : h = m.remote
  OBVIOUS
<1>2. QED
  BY <1>1, HostConfigurationAssumption DEF Wanted

\* What a loop over a list has left of it: all of its entries, or those after some of them.
Rest(list) ==
  /\ Len(todo) <= Len(list)
  /\ \A i \in 1 .. Len(todo) : todo[i] = list[Len(list) - Len(todo) + i]

\* The entries that it has handled.
Handled(list) == 1 .. Len(list) - Len(todo)

LEMMA WholeRest ==
  ASSUME NEW S, NEW list \in Seq(S), todo' = list
  PROVE  todo' \in Seq(S) /\ Rest(list)' /\ Handled(list)' = {}
BY DEF Rest, Handled

LEMMA HeadOfRest ==
  ASSUME NEW S, NEW list \in Seq(S), todo \in Seq(S), todo # <<>>, Rest(list)
  PROVE  /\ Head(todo) \in S
         /\ Len(list) - Len(todo) + 1 \in 1 .. Len(list)
         /\ Head(todo) = list[Len(list) - Len(todo) + 1]
BY DEF Rest

LEMMA TailOfRest ==
  ASSUME NEW S, NEW list \in Seq(S), todo \in Seq(S), todo # <<>>, Rest(list), todo' = Tail(todo)
  PROVE  /\ todo' \in Seq(S) /\ Rest(list)'
         /\ Handled(list)' = Handled(list) \cup {Len(list) - Len(todo) + 1}
         /\ Len(list) - Len(todo) + 1 \notin Handled(list)
BY DEF Rest, Handled

LEMMA TailShrinks ==
  ASSUME NEW S, todo \in Seq(S), todo # <<>>
  PROVE  Tail(todo) # todo
OBVIOUS

LEMMA NoRest ==
  ASSUME NEW S, NEW list \in Seq(S), todo = <<>>
  PROVE  Handled(list) = 1 .. Len(list)
BY DEF Handled

-----------------------------------------------------------------------------
(* Types, and where the plugins are. *)

Serving == {"import"}
Listening == {"mode", "status", "entries", "delete", "create", "rule"}
Bodies == {"lift", "auth", "entry", "restore"}

\* The plugin under execution has not been done before, and is the one of the step.
StepInv ==
  /\ remotePc \in {"idle", "next", "over", "mapping"} \cup Serving \cup Listening \cup Bodies
  /\ plugin \in 1 .. 4
  /\ remotePc \in {"idle"} \cup Serving => plugin = 1
  /\ remotePc = "next" => plugin # 4
  /\ remotePc \in Listening => plugin = 2
  /\ remotePc = "mapping" => plugin = 3
  /\ remotePc \in Bodies => plugin \in {2, 3}
  /\ remotePc \notin {"idle", "next", "over"} => Remote!Order[plugin] \notin remoteDone
  /\ remoteDone \subseteq {"certificates", "listener", "certauth"}

\* The variables of the machine.
MachineInv ==
  /\ remoteHost \in {m.remote : m \in Machines}
  /\ mode \in {"manual", "disabled", "auto"} /\ restrictions \in {"on", "off"}
  /\ store \subseteq Remote!Certs
  /\ listener \in [Remote!Protocols -> Remote!Certs \cup {NoListener}]
  /\ ports \subseteq Remote!Protocols /\ mappings \subseteq Remote!Certs
  /\ auth \subseteq {"basic", "certificate"}

FlagInv ==
  running \in BOOLEAN /\ lifted \in BOOLEAN /\ raised \in BOOLEAN /\ left \in BOOLEAN

\* The loops of the three plugins.
Looping == {"lift", "auth", "entry", "delete", "create", "rule", "mapping"}
LoopInv ==
  /\ remotePc = "import" => todo \in Seq(Remote!Certs)
  /\ remotePc \in Looping /\ plugin = 2 => todo \in Seq(Wanted) /\ Rest(remoteHost.listeners)
  /\ remotePc \in Looping /\ plugin = 3 => todo \in Seq(Remote!Certs) /\ Rest(remoteHost.client)
  /\ remotePc \in {"delete", "create", "rule", "mapping"} => todo # <<>>

LEMMA OrderIs ==
  /\ Remote!Order[1] = "certificates" /\ Remote!Order[2] = "listener" /\ Remote!Order[3] = "certauth"
  /\ Len(Remote!Order) = 3
BY DEF Remote!Order

LEMMA CertIs ==
  ASSUME NEW e \in Wanted
  PROVE  Remote!CertOf(e) \in Remote!Certs
<1>1. NoCert \in Remote!Certs /\ Self \in Remote!Certs
  BY DEF Remote!Certs
<1>2. QED
  BY <1>1 DEF Remote!CertOf, Wanted

\* The end of a plugin, whatever its result.
LEMMA OverStepInv ==
  ASSUME StepInv, plugin # 4, NEW result, Remote!Over(result)
  PROVE  StepInv'
<1>1. plugin \in 1 .. 3 /\ plugin' = plugin + 1
  BY DEF StepInv, Remote!Over
<1>2. remotePc' = IF plugin = 3 THEN "over" ELSE "next"
  BY OrderIs DEF Remote!Over
<1>3. Remote!Order[plugin] \in {"certificates", "listener", "certauth"}
  BY <1>1, OrderIs
<1>4. remoteDone' \subseteq {"certificates", "listener", "certauth"}
  BY <1>3 DEF StepInv, Remote!Over
<1>5. QED
  BY <1>1, <1>2, <1>4 DEF StepInv, Serving, Listening, Bodies

\* A step within the same plugin.
LEMMA StayStepInv ==
  ASSUME StepInv, UNCHANGED <<plugin, remoteDone>>,
         remotePc' \in {"mapping"} \cup Serving \cup Listening \cup Bodies,
         remotePc' \in Serving => plugin = 1,
         remotePc' \in Listening => plugin = 2,
         remotePc' = "mapping" => plugin = 3,
         remotePc' \in Bodies => plugin \in {2, 3},
         remotePc = "next" => Remote!Order[plugin] \notin remoteDone,
         remotePc \notin {"idle", "over"}
  PROVE  StepInv'
<1>1. Remote!Order' = Remote!Order
  BY DEF Remote!Order
<1>2. QED
  BY <1>1 DEF StepInv, Serving, Listening, Bodies

LEMMA DueIs ==
  ASSUME StepInv, NEW p \in {"certificates", "listener", "certauth"}, Remote!Due(p)
  PROVE  /\ Remote!Order[plugin] \notin remoteDone /\ remotePc = "next"
         /\ plugin = CASE p = "certificates" -> 1 [] p = "listener" -> 2 [] p = "certauth" -> 3
<1>1. plugin \in {1, 2, 3} /\ Remote!Order[plugin] = p
  BY DEF StepInv, Remote!Due
<1>2. QED
  BY <1>1, OrderIs DEF Remote!Due

LEMMA ProtocolIs ==
  ASSUME NEW e \in Wanted
  PROVE  e.protocol \in Remote!Protocols
BY DEF Wanted

LEMMA NextStepInv ==
  ASSUME StepInv, Remote!Next
  PROVE  StepInv'
<1>1. CASE Remote!Start
  BY <1>1, OrderIs DEF Remote!Start, StepInv, Serving, Listening, Bodies
<1>2. CASE \/ Remote!Pass \/ Remote!Imported \/ Remote!NoService \/ Remote!NoClientCerts
           \/ Remote!Raises \/ Remote!Restore \/ Remote!RestoreRaises
  <2>1. \E result : Remote!Over(result)
    BY <1>2 DEF Remote!Pass, Remote!Imported, Remote!NoService, Remote!NoClientCerts,
                Remote!Raises, Remote!Restore, Remote!RestoreRaises
  <2>2. remotePc \in {"next", "import", "mode", "status", "entries", "lift", "restore"}
    BY <1>2 DEF Remote!Pass, Remote!Imported, Remote!NoService, Remote!NoClientCerts, Remote!Due,
                Remote!Raises, Remote!Restore, Remote!RestoreRaises, Remote!Raise
  <2>3. plugin # 4
    BY <2>2 DEF StepInv, Serving, Listening, Bodies
  <2>4. QED
    BY <2>1, <2>3, OverStepInv
<1>3. CASE Remote!Certificates \/ Remote!CheckService \/ Remote!ClientCerts
  <2>1. UNCHANGED <<plugin, remoteDone>> /\ remotePc = "next"
    BY <1>3 DEF Remote!Certificates, Remote!CheckService, Remote!ClientCerts, Remote!Goes, Remote!Due
  <2>2. \/ remotePc' = "import" /\ plugin = 1
        \/ remotePc' = "mode" /\ plugin = 2
        \/ remotePc' = "lift" /\ plugin = 3
    BY <1>3, DueIs DEF Remote!Certificates, Remote!CheckService, Remote!ClientCerts, Remote!Goes
  <2>3. Remote!Order[plugin] \notin remoteDone
    BY <1>3, DueIs DEF Remote!Certificates, Remote!CheckService, Remote!ClientCerts
  <2>4. QED
    BY <2>1, <2>2, <2>3, StayStepInv DEF Serving, Listening, Bodies
<1>4. CASE Remote!Import \/ Remote!SetMode \/ Remote!StartService
  <2>1. UNCHANGED <<plugin, remoteDone>>
    BY <1>4 DEF Remote!Import, Remote!SetMode, Remote!StartService, Remote!Goes
  <2>2. \/ remotePc \in Serving /\ remotePc' \in Serving
        \/ remotePc \in Listening /\ remotePc' \in Listening
    BY <1>4 DEF Remote!Import, Remote!SetMode, Remote!StartService, Remote!Goes, Serving, Listening
  <2>3. QED
    BY <2>1, <2>2, StayStepInv DEF StepInv, Serving, Listening, Bodies
<1>5. CASE Remote!Entries
  <2>1. remotePc = "entries" /\ plugin = 2
    BY <1>5 DEF Remote!Entries, StepInv, Listening
  <2>2. CASE Remote!Over("done")
    BY <2>1, <2>2, OverStepInv
  <2>3. CASE Remote!Goes("lift")
    BY <2>1, <2>3, StayStepInv DEF Remote!Goes, Serving, Listening, Bodies
  <2>4. QED
    BY <1>5, <2>2, <2>3 DEF Remote!Entries
<1>6. CASE Remote!Lift \/ Remote!LiftRaises \/ Remote!SetAuth \/ Remote!BodyOver
  <2>1. UNCHANGED <<plugin, remoteDone>> /\ remotePc \in Bodies /\ remotePc' \in Bodies
    BY <1>6 DEF Remote!Lift, Remote!LiftRaises, Remote!SetAuth, Remote!BodyOver, Remote!Goes,
                Remote!Raise, Bodies
  <2>2. QED
    BY <2>1, StayStepInv DEF StepInv, Serving, Listening, Bodies
<1>7. CASE \/ Remote!Certificate \/ Remote!DeleteListener \/ Remote!CreateListener
           \/ Remote!CreateRule
  <2>1. UNCHANGED <<plugin, remoteDone>>
    BY <1>7 DEF Remote!Certificate, Remote!DeleteListener, Remote!CreateListener, Remote!CreateRule,
                Remote!Goes
  <2>2. /\ remotePc \in {"entry", "delete", "create", "rule"}
        /\ remotePc' \in {"entry", "delete", "create", "rule"}
    BY <1>7 DEF Remote!Certificate, Remote!DeleteListener, Remote!CreateListener, Remote!CreateRule,
                Remote!Goes
  <2>3. remotePc = "entry" => Remote!Order[plugin] = "listener"
    BY <1>7 DEF Remote!Certificate, Remote!DeleteListener, Remote!CreateListener, Remote!CreateRule
  <2>4. plugin = 2
    BY <2>2, <2>3, OrderIs DEF StepInv, Listening, Bodies
  <2>5. QED
    BY <2>1, <2>2, <2>4, StayStepInv DEF Serving, Listening, Bodies
<1>8. CASE Remote!ImportClientCert \/ Remote!DeleteMapping \/ Remote!CreateMapping
  <2>1. UNCHANGED <<plugin, remoteDone>>
    BY <1>8 DEF Remote!ImportClientCert, Remote!DeleteMapping, Remote!CreateMapping, Remote!Goes
  <2>2. remotePc \in {"entry", "mapping"} /\ remotePc' \in {"entry", "mapping"}
    BY <1>8 DEF Remote!ImportClientCert, Remote!DeleteMapping, Remote!CreateMapping, Remote!Goes
  <2>3. remotePc = "entry" => Remote!Order[plugin] = "certauth"
    BY <1>8 DEF Remote!ImportClientCert, Remote!DeleteMapping, Remote!CreateMapping
  <2>4. plugin = 3
    BY <2>2, <2>3, OrderIs DEF StepInv, Bodies
  <2>5. QED
    BY <2>1, <2>2, <2>4, StayStepInv DEF Serving, Listening, Bodies
<1>9. CASE Remote!BodyRaises
  <2>1. UNCHANGED <<plugin, remoteDone>> /\ remotePc' = "restore"
    BY <1>9 DEF Remote!BodyRaises
  <2>2. remotePc \in {"auth", "entry", "delete", "create", "rule", "mapping"}
    BY <1>9 DEF Remote!BodyRaises, Remote!Raise
  <2>3. plugin \in {2, 3}
    BY <2>2 DEF StepInv, Listening, Bodies
  <2>4. QED
    BY <2>1, <2>2, <2>3, StayStepInv DEF Serving, Listening, Bodies
<1>10. QED
  BY <1>1, <1>2, <1>3, <1>4, <1>5, <1>6, <1>7, <1>8, <1>9 DEF Remote!Next

LEMMA NextMachineInv ==
  ASSUME StepInv, MachineInv, LoopInv, Remote!Next
  PROVE  MachineInv'
<1> USE DEF MachineInv, Remote!Goes
<1>1. CASE \/ Remote!Start \/ Remote!Pass \/ Remote!Imported \/ Remote!NoService
           \/ Remote!NoClientCerts \/ Remote!Raises \/ Remote!Certificates \/ Remote!CheckService
           \/ Remote!Entries \/ Remote!ClientCerts \/ Remote!LiftRaises \/ Remote!BodyOver
           \/ Remote!BodyRaises \/ Remote!RestoreRaises
  <2>1. UNCHANGED <<remoteHost, mode, restrictions, store, listener, ports, mappings, auth>>
    BY <1>1 DEF Remote!Start, Remote!Pass, Remote!Imported, Remote!NoService, Remote!system,
                Remote!NoClientCerts, Remote!Raises, Remote!Certificates, Remote!CheckService,
                Remote!Entries, Remote!ClientCerts, Remote!LiftRaises, Remote!BodyOver,
                Remote!BodyRaises, Remote!RestoreRaises
  <2>2. QED
    BY <2>1
<1>2. CASE \/ Remote!SetMode \/ Remote!StartService \/ Remote!Lift \/ Remote!Restore
           \/ Remote!SetAuth
  BY <1>2 DEF Remote!SetMode, Remote!StartService, Remote!Lift, Remote!Restore, Remote!SetAuth,
              Remote!SetRestrictions
<1>3. CASE Remote!Import
  BY <1>3 DEF Remote!Import, LoopInv
<1>4. CASE \/ Remote!Certificate \/ Remote!DeleteListener \/ Remote!CreateListener
           \/ Remote!CreateRule
  <2>1. remotePc \in {"entry", "delete", "create", "rule"} /\ plugin = 2 /\ todo # <<>>
    BY <1>4, OrderIs DEF Remote!Certificate, Remote!DeleteListener, Remote!CreateListener,
       Remote!CreateRule, StepInv, LoopInv, Listening, Bodies
  <2>2. Remote!Entry \in Wanted
    BY <2>1 DEF LoopInv, Looping, Remote!Entry
  <2>3. Remote!CertOf(Remote!Entry) \in Remote!Certs /\ Remote!Entry.protocol \in Remote!Protocols
    BY <2>2, CertIs DEF Wanted
  <2>4. Self \in Remote!Certs
    BY DEF Remote!Certs
  <2>5. QED
    BY <1>4, <2>3, <2>4 DEF Remote!Certificate, Remote!DeleteListener, Remote!CreateListener,
       Remote!CreateRule
<1>5. CASE Remote!ImportClientCert \/ Remote!DeleteMapping \/ Remote!CreateMapping
  <2>1. remotePc \in {"entry", "mapping"} /\ plugin = 3 /\ todo # <<>>
    BY <1>5, OrderIs DEF Remote!ImportClientCert, Remote!DeleteMapping, Remote!CreateMapping,
       StepInv, LoopInv, Bodies
  <2>2. Remote!Entry \in Remote!Certs
    BY <2>1 DEF LoopInv, Looping, Remote!Entry
  <2>3. QED
    BY <1>5, <2>2 DEF Remote!ImportClientCert, Remote!DeleteMapping, Remote!CreateMapping
<1>6. QED
  BY <1>1, <1>2, <1>3, <1>4, <1>5 DEF Remote!Next

LEMMA NextFlagInv ==
  ASSUME FlagInv, Remote!Next
  PROVE  FlagInv'
BY DEF FlagInv, Remote!Next, Remote!Goes, Remote!system, Remote!Over,
       Remote!Start, Remote!Pass, Remote!Imported, Remote!NoService,
       Remote!NoClientCerts, Remote!Raises, Remote!Certificates, Remote!CheckService,
       Remote!Entries, Remote!ClientCerts, Remote!LiftRaises, Remote!BodyOver,
       Remote!BodyRaises, Remote!RestoreRaises, Remote!SetMode, Remote!StartService, Remote!Lift,
       Remote!Restore,
       Remote!SetAuth, Remote!Import, Remote!Certificate, Remote!DeleteListener,
       Remote!CreateListener, Remote!CreateRule, Remote!ImportClientCert, Remote!DeleteMapping,
       Remote!CreateMapping

\* A step that leaves the list alone.
LEMMA StayLoopInv ==
  ASSUME LoopInv, UNCHANGED <<plugin, todo, remoteHost>>,
         remotePc' \in Looping => remotePc \in Looping,
         remotePc' = "import" => remotePc = "import",
         remotePc' \in {"delete", "create", "rule", "mapping"} => todo # <<>>
  PROVE  LoopInv'
<1>1. Rest(remoteHost.listeners)' = Rest(remoteHost.listeners)
  BY DEF Rest
<1>2. Rest(remoteHost.client)' = Rest(remoteHost.client)
  BY DEF Rest
<1>3. QED
  BY <1>1, <1>2 DEF LoopInv

\* A step out of the loops.
LEMMA OutLoopInv ==
  ASSUME remotePc' \notin Looping \cup {"import"}
  PROVE  LoopInv'
BY DEF LoopInv, Looping

LEMMA NextLoopInv ==
  ASSUME StepInv, MachineInv, LoopInv, Remote!Next
  PROVE  LoopInv'
<1> USE DEF Remote!Goes
<1>0. /\ remoteHost.server \in Seq(Remote!Certs) /\ remoteHost.client \in Seq(Remote!Certs)
      /\ remoteHost.listeners \in Seq(Wanted)
  BY RemoteHostFacts DEF MachineInv
<1>1. CASE \/ Remote!Start \/ Remote!Pass \/ Remote!Imported \/ Remote!NoService
           \/ Remote!NoClientCerts \/ Remote!Raises \/ Remote!CheckService
           \/ Remote!LiftRaises \/ Remote!BodyOver \/ Remote!SetMode \/ Remote!StartService
           \/ Remote!BodyRaises \/ Remote!Restore \/ Remote!RestoreRaises
  <2>1. remotePc' \in {"next", "over", "mode", "restore", "status", "entries"}
    BY <1>1 DEF Remote!Start, Remote!Pass, Remote!Imported, Remote!NoService, Remote!Over,
                Remote!NoClientCerts, Remote!Raises, Remote!CheckService,
                Remote!LiftRaises, Remote!BodyOver, Remote!SetMode, Remote!StartService,
                Remote!BodyRaises, Remote!Restore, Remote!RestoreRaises
  <2>2. QED
    BY <2>1, OutLoopInv DEF Looping
<1>2. CASE Remote!Certificates
  <2>1. remotePc' = "import" /\ todo' = remoteHost.server
    BY <1>2 DEF Remote!Certificates
  <2>2. QED
    BY <1>0, <2>1 DEF LoopInv, Looping
<1>3. CASE Remote!Import
  <2>1. remotePc = "import" /\ remotePc' = "import" /\ todo # <<>> /\ todo' = Tail(todo)
    BY <1>3 DEF Remote!Import
  <2>2. todo' \in Seq(Remote!Certs)
    BY <2>1 DEF LoopInv
  <2>3. QED
    BY <2>1, <2>2 DEF LoopInv, Looping
<1>4. CASE Remote!Entries
  <2>1. CASE Remote!Over("done")
    <3>1. remotePc' \in {"over", "next"}
      BY <2>1 DEF Remote!Over
    <3>2. QED
      BY <3>1, OutLoopInv DEF Looping
  <2>2. CASE todo' = remoteHost.listeners /\ Remote!Goes("lift")
    <3>1. plugin' = 2 /\ remotePc' = "lift" /\ UNCHANGED remoteHost
      BY <1>4, <2>2 DEF Remote!Entries, StepInv, Listening
    <3>2. todo' \in Seq(Wanted) /\ Rest(remoteHost.listeners)'
      BY <1>0, <2>2, <3>1, WholeRest DEF Rest
    <3>3. QED
      BY <3>1, <3>2 DEF LoopInv
  <2>3. QED
    BY <1>4, <2>1, <2>2 DEF Remote!Entries
<1>5. CASE Remote!ClientCerts
  <2>1. plugin' = 3 /\ remotePc' = "lift" /\ UNCHANGED remoteHost /\ todo' = remoteHost.client
    BY <1>5, DueIs DEF Remote!ClientCerts
  <2>2. todo' \in Seq(Remote!Certs) /\ Rest(remoteHost.client)'
    BY <1>0, <2>1, WholeRest DEF Rest
  <2>3. QED
    BY <2>1, <2>2 DEF LoopInv
<1>6. CASE \/ Remote!Lift \/ Remote!SetAuth \/ Remote!Certificate \/ Remote!DeleteListener
           \/ Remote!CreateListener \/ Remote!DeleteMapping
  <2>1. UNCHANGED <<plugin, todo, remoteHost>> /\ remotePc \in Looping /\ remotePc' # "import"
    BY <1>6 DEF Remote!Lift, Remote!SetAuth, Remote!Certificate, Remote!DeleteListener,
                Remote!CreateListener, Remote!DeleteMapping, Looping
  <2>2. remotePc' \in {"delete", "create", "rule", "mapping"} => todo # <<>>
    BY <1>6 DEF Remote!Lift, Remote!SetAuth, Remote!Certificate, Remote!DeleteListener,
                Remote!CreateListener, Remote!DeleteMapping, LoopInv
  <2>3. QED
    BY <2>1, <2>2, StayLoopInv
<1>7. CASE \/ Remote!CreateRule \/ Remote!CreateMapping
           \/ Remote!ImportClientCert /\ todo' = Tail(todo)
  <2>1. UNCHANGED <<plugin, remoteHost>> /\ remotePc' = "entry" /\ todo' = Tail(todo)
    <3>1. CASE Remote!CreateRule \/ Remote!CreateMapping
      BY <3>1 DEF Remote!CreateRule, Remote!CreateMapping
    <3>2. CASE Remote!ImportClientCert /\ todo' = Tail(todo)
      <4>1. remotePc = "entry" /\ todo # <<>> /\ plugin \in {2, 3}
        BY <3>2 DEF Remote!ImportClientCert, StepInv, Bodies
      <4>2. todo \in Seq(Wanted) \/ todo \in Seq(Remote!Certs)
        BY <4>1 DEF LoopInv, Looping
      <4>3. todo' # todo
        BY <3>2, <4>1, <4>2
      <4>4. QED
        BY <3>2, <4>3 DEF Remote!ImportClientCert
    <3>3. QED
      BY <1>7, <3>1, <3>2
  <2>2. remotePc \in Looping /\ todo # <<>> /\ plugin \in {2, 3}
    BY <1>7 DEF Remote!CreateRule, Remote!CreateMapping, Remote!ImportClientCert, LoopInv, Looping,
                StepInv, Listening, Bodies
  <2>3. CASE plugin = 2
    <3>1. todo \in Seq(Wanted) /\ Rest(remoteHost.listeners)
      BY <2>2, <2>3 DEF LoopInv
    <3>2. todo' \in Seq(Wanted)
      BY <2>1, <2>2, <3>1
    <3>3. PICK list \in Seq(Wanted) : list = remoteHost.listeners
      BY <1>0
    <3>4. Rest(list)'
      BY <2>1, <2>2, <3>1, <3>3, TailOfRest
    <3>5. Rest(remoteHost.listeners)'
      BY <2>1, <3>3, <3>4 DEF Rest
    <3>6. QED
      BY <2>1, <2>3, <3>2, <3>5 DEF LoopInv, Looping
  <2>4. CASE plugin = 3
    <3>1. todo' \in Seq(Remote!Certs) /\ Rest(remoteHost.client)'
      BY <1>0, <2>1, <2>2, <2>4, TailOfRest, ZenonT(60) DEF LoopInv, Rest
    <3>2. QED
      BY <2>1, <2>4, <3>1 DEF LoopInv, Looping
  <2>5. QED
    BY <2>2, <2>3, <2>4
<1>8. CASE Remote!ImportClientCert /\ UNCHANGED todo
  <2>1. UNCHANGED <<plugin, todo, remoteHost>> /\ remotePc \in Looping /\ remotePc' # "import"
    BY <1>8 DEF Remote!ImportClientCert, Looping
  <2>2. todo # <<>>
    BY <1>8 DEF Remote!ImportClientCert
  <2>3. QED
    BY <2>1, <2>2, StayLoopInv
<1>9. Remote!ImportClientCert => todo' = Tail(todo) \/ UNCHANGED todo
  BY DEF Remote!ImportClientCert
<1>10. QED
  BY <1>1, <1>2, <1>3, <1>4, <1>5, <1>6, <1>7, <1>8, <1>9 DEF Remote!Next

-----------------------------------------------------------------------------
(* The listeners. *)

\* The last of these entries for its protocol.
Latest(H, n) ==
  n \in H /\ \A m \in H :
    remoteHost.listeners[m].protocol = remoteHost.listeners[n].protocol => m <= n

\* The listener is the one of the entry.
Listens(n) ==
  LET e == remoteHost.listeners[n]
  IN listener[e.protocol] = Remote!CertOf(e) /\ listener[e.protocol] \in store \cup {NoCert}

\* The entries are in effect, but for the listener of a protocol.
ServedBut(H, p) ==
  \A n \in H :
    /\ remoteHost.listeners[n].protocol \in ports
    /\ Latest(H, n) /\ remoteHost.listeners[n].protocol # p => Listens(n)
Served(H) ==
  \A n \in H : remoteHost.listeners[n].protocol \in ports /\ (Latest(H, n) => Listens(n))

AllServed == Served(1 .. Len(remoteHost.listeners))

ListenInv ==
  /\ remotePc \in {"lift", "auth", "entry"} /\ plugin = 2 => Served(Handled(remoteHost.listeners))
  /\ remotePc \in {"delete", "create", "rule"} =>
       ServedBut(Handled(remoteHost.listeners), Remote!Entry.protocol)
  /\ remotePc = "rule" =>
       /\ listener[Remote!Entry.protocol] = Remote!CertOf(Remote!Entry)
       /\ Remote!CertOf(Remote!Entry) \in store \cup {NoCert}
  /\ remotePc = "restore" /\ plugin = 2 /\ ~raised => AllServed
  /\ "listener" \in remoteDone => AllServed

LEMMA ServedIs ==
  ASSUME NEW H, NEW p, Served(H)
  PROVE  ServedBut(H, p)
BY DEF Served, ServedBut

\* More certificates in the store take nothing from a listener.
LEMMA ServedStays ==
  ASSUME UNCHANGED <<remoteHost, listener, ports>>, store \subseteq store'
  PROVE  /\ \A H : Served(H) => Served(H)'
         /\ \A H, p : ServedBut(H, p) => ServedBut(H, p)'
         /\ AllServed => AllServed'
<1>1. \A n : Listens(n) => Listens(n)'
  BY DEF Listens, Remote!CertOf
<1>2. \A H, n : Latest(H, n)' = Latest(H, n)
  BY DEF Latest
<1>3. \A H : Served(H) => Served(H)'
  BY <1>1, <1>2 DEF Served
<1>4. \A H, p : ServedBut(H, p) => ServedBut(H, p)'
  BY <1>1, <1>2 DEF ServedBut
<1>5. AllServed => AllServed'
  BY <1>3 DEF AllServed
<1>6. QED
  BY <1>3, <1>4, <1>5

\* The end of the plugin.
LEMMA OverListenInv ==
  ASSUME StepInv, ListenInv, UNCHANGED <<remoteHost, listener, ports, store>>, plugin # 4,
         NEW result, Remote!Over(result),
         plugin = 2 /\ result = "done" => AllServed
  PROVE  ListenInv'
<1>1. remotePc' \in {"over", "next"}
  BY DEF Remote!Over
<1>2. "listener" \in remoteDone' => "listener" \in remoteDone \/ (plugin = 2 /\ result = "done")
  BY OrderIs DEF Remote!Over, StepInv
<1>3. "listener" \in remoteDone' => AllServed'
  BY <1>2, ServedStays DEF ListenInv
<1>4. QED
  BY <1>1, <1>3 DEF ListenInv

\* A step outside the loop over the listeners, in which no plugin ends.
LEMMA OutListenInv ==
  ASSUME ListenInv, UNCHANGED <<remoteHost, listener, ports, remoteDone>>, store \subseteq store',
         remotePc' \notin {"delete", "create", "rule"},
         remotePc' \in {"lift", "auth", "entry", "restore"} => plugin' # 2
  PROVE  ListenInv'
BY ServedStays DEF ListenInv

LEMMA NextListenInv ==
  ASSUME StepInv, MachineInv, LoopInv, ListenInv, Remote!Next
  PROVE  ListenInv'
<1> USE DEF Remote!Goes
<1>0. PICK list \in Seq(Wanted) : list = remoteHost.listeners
  BY RemoteHostFacts DEF MachineInv
<1>1. CASE Remote!Pass
  <2>1. Remote!Over("done") /\ UNCHANGED <<remoteHost, listener, ports, store>>
    BY <1>1 DEF Remote!Pass, Remote!system
  <2>2. plugin # 4 /\ (plugin = 2 => AllServed)
    BY <1>1, OrderIs DEF Remote!Pass, StepInv, ListenInv
  <2>3. QED
    BY <2>1, <2>2, OverListenInv
<1>2. CASE \/ Remote!Imported \/ Remote!NoService \/ Remote!NoClientCerts \/ Remote!Raises
           \/ Remote!RestoreRaises \/ Remote!Restore
  <2>1. UNCHANGED <<remoteHost, listener, ports, store>>
    BY <1>2 DEF Remote!Imported, Remote!NoService, Remote!NoClientCerts, Remote!Raises,
                Remote!RestoreRaises, Remote!Restore, Remote!system
  <2>2. plugin # 4
    BY <1>2 DEF Remote!Imported, Remote!NoService, Remote!NoClientCerts, Remote!Raises,
                Remote!RestoreRaises, Remote!Restore, Remote!Raise, Remote!Due,
                StepInv, Serving, Listening, Bodies
  <2>3. \/ Remote!Over("again")
        \/ Remote!Over("done") /\ plugin # 2
        \/ Remote!Over("done") /\ remotePc = "restore" /\ ~raised
    <3>1. Remote!Imported => Remote!Over("done") /\ plugin # 2
      BY DEF Remote!Imported, StepInv, Serving
    <3>2. Remote!NoClientCerts => Remote!Over("done") /\ plugin # 2
      BY DueIs DEF Remote!NoClientCerts
    <3>3. Remote!Restore => remotePc = "restore" /\ Remote!Over(IF raised THEN "again" ELSE "done")
      BY DEF Remote!Restore
    <3>4. QED
      BY <1>2, <3>1, <3>2, <3>3 DEF Remote!NoService, Remote!Raises, Remote!RestoreRaises
  <2>4. QED
    BY <2>1, <2>2, <2>3, OverListenInv DEF ListenInv
<1>3. CASE \/ Remote!Start \/ Remote!Certificates \/ Remote!Import \/ Remote!CheckService
           \/ Remote!SetMode \/ Remote!StartService \/ Remote!ClientCerts
  <2>1. UNCHANGED <<remoteHost, listener, ports, remoteDone>> /\ store \subseteq store'
    BY <1>3 DEF Remote!Start, Remote!Certificates, Remote!Import, Remote!CheckService,
                Remote!SetMode, Remote!StartService, Remote!ClientCerts, Remote!system
  <2>2. \/ remotePc' \in {"next", "import", "mode", "status", "entries"}
        \/ remotePc' = "lift" /\ plugin' = 3
    BY <1>3, DueIs
    DEF Remote!Start, Remote!Certificates, Remote!Import, Remote!CheckService,
        Remote!SetMode, Remote!StartService, Remote!ClientCerts
  <2>3. QED
    BY <2>1, <2>2, OutListenInv
<1>4. CASE Remote!Entries
  <2>1. remotePc = "entries" /\ plugin = 2 /\ UNCHANGED <<remoteHost, listener, ports, store>>
    BY <1>4 DEF Remote!Entries, Remote!system, StepInv, Listening
  <2>2. CASE remoteHost.listeners = <<>> /\ Remote!Over("done")
    <3>1. AllServed
      BY <2>2 DEF AllServed, Served
    <3>2. QED
      BY <2>1, <2>2, <3>1, OverListenInv
  <2>3. CASE todo' = remoteHost.listeners /\ Remote!Goes("lift")
    <3>1. Handled(list)' = {}
      BY <1>0, <2>3, WholeRest
    <3>2. Handled(remoteHost.listeners)' = {}
      BY <1>0, <2>1, <3>1 DEF Handled
    <3>3. Served(Handled(remoteHost.listeners))'
      BY <3>2 DEF Served
    <3>4. "listener" \in remoteDone' => AllServed'
      BY <2>1, <2>3, ServedStays DEF ListenInv
    <3>5. QED
      BY <2>3, <3>3, <3>4 DEF ListenInv
  <2>4. QED
    BY <1>4, <2>2, <2>3 DEF Remote!Entries
<1>5. CASE \/ Remote!Lift \/ Remote!SetAuth
  <2>1. UNCHANGED <<remoteHost, listener, ports, store, remoteDone, plugin, todo>>
    BY <1>5 DEF Remote!Lift, Remote!SetAuth
  <2>2. remotePc \in {"lift", "auth"} /\ remotePc' \in {"auth", "entry"}
    BY <1>5 DEF Remote!Lift, Remote!SetAuth
  <2>3. Handled(remoteHost.listeners)' = Handled(remoteHost.listeners)
    BY <2>1 DEF Handled
  <2>4. plugin = 2 => Served(Handled(remoteHost.listeners))'
    BY <2>1, <2>2, <2>3, ServedStays DEF ListenInv
  <2>5. "listener" \in remoteDone' => AllServed'
    BY <2>1, ServedStays DEF ListenInv
  <2>6. QED
    BY <2>1, <2>2, <2>4, <2>5 DEF ListenInv
<1>6. CASE Remote!LiftRaises \/ Remote!BodyRaises
  <2>1. UNCHANGED <<remoteHost, listener, ports, store, remoteDone>> /\ remotePc' = "restore" /\ raised'
    BY <1>6 DEF Remote!LiftRaises, Remote!BodyRaises, Remote!system
  <2>2. QED
    BY <2>1, ServedStays DEF ListenInv
<1>7. CASE Remote!BodyOver
  <2>1. UNCHANGED <<remoteHost, listener, ports, store, remoteDone, plugin>>
    BY <1>7 DEF Remote!BodyOver, Remote!system
  <2>2. remotePc = "entry" /\ remotePc' = "restore" /\ todo = <<>>
    BY <1>7 DEF Remote!BodyOver
  <2>3. Handled(remoteHost.listeners) = 1 .. Len(remoteHost.listeners)
    BY <1>0, <2>2, NoRest
  <2>4. plugin = 2 => AllServed
    BY <2>2, <2>3 DEF ListenInv, AllServed
  <2>5. QED
    BY <2>1, <2>2, <2>4, ServedStays DEF ListenInv
<1>8. CASE Remote!Certificate
  <2>1. UNCHANGED <<remoteHost, listener, ports, remoteDone, plugin, todo>> /\ store \subseteq store'
    BY <1>8 DEF Remote!Certificate
  <2>2. remotePc = "entry" /\ remotePc' = "delete" /\ plugin = 2
    BY <1>8, OrderIs DEF Remote!Certificate, StepInv, Bodies
  <2>3. /\ Handled(remoteHost.listeners)' = Handled(remoteHost.listeners)
        /\ Remote!Entry' = Remote!Entry
    BY <2>1 DEF Handled, Remote!Entry
  <2>4. ServedBut(Handled(remoteHost.listeners), Remote!Entry.protocol)
    BY <2>2, ServedIs DEF ListenInv
  <2>5. ServedBut(Handled(remoteHost.listeners), Remote!Entry.protocol)'
    BY <2>1, <2>3, <2>4, ServedStays
  <2>6. QED
    BY <2>1, <2>2, <2>5, ServedStays DEF ListenInv
<1>9. CASE Remote!DeleteListener \/ Remote!CreateListener
  <2>1. UNCHANGED <<remoteHost, ports, store, remoteDone, plugin, todo>>
    BY <1>9 DEF Remote!DeleteListener, Remote!CreateListener
  <2>2. /\ remotePc \in {"delete", "create"} /\ remotePc' \in {"create", "rule"} /\ plugin = 2
        /\ todo # <<>>
    BY <1>9 DEF Remote!DeleteListener, Remote!CreateListener, StepInv, Listening, LoopInv
  <2>3. /\ Handled(remoteHost.listeners)' = Handled(remoteHost.listeners)
        /\ Remote!Entry' = Remote!Entry
    BY <2>1 DEF Handled, Remote!Entry
  <2>4. \A p : p # Remote!Entry.protocol /\ p \in Remote!Protocols => listener'[p] = listener[p]
    BY <1>9 DEF Remote!DeleteListener, Remote!CreateListener, MachineInv
  <2>5. \A n \in 1 .. Len(list) : list[n].protocol \in Remote!Protocols
    BY <1>0, ProtocolIs
  <2>6. \A n \in 1 .. Len(list) :
          list[n].protocol # Remote!Entry.protocol /\ Listens(n) => Listens(n)'
    BY <1>0, <2>1, <2>4, <2>5 DEF Listens, Remote!CertOf
  <2>7. Handled(remoteHost.listeners) \subseteq 1 .. Len(list)
    BY <1>0, <2>2 DEF Handled, LoopInv, Looping
  <2>8. \A H, n : Latest(H, n)' = Latest(H, n)
    BY <2>1 DEF Latest
  <2>9. ServedBut(Handled(remoteHost.listeners), Remote!Entry.protocol)
    BY <2>2 DEF ListenInv
  <2>10. ServedBut(Handled(remoteHost.listeners), Remote!Entry.protocol)'
    BY <1>0, <2>1, <2>3, <2>6, <2>7, <2>8, <2>9 DEF ServedBut
  <2>11. remotePc' = "rule" =>
           /\ listener'[Remote!Entry.protocol] = Remote!CertOf(Remote!Entry)
           /\ Remote!CertOf(Remote!Entry) \in store \cup {NoCert}
    <3>1. todo \in Seq(Wanted)
      BY <2>2 DEF LoopInv, Looping
    <3>2. Remote!Entry.protocol \in Remote!Protocols
      BY <2>2, <3>1, ProtocolIs DEF Remote!Entry
    <3>3. QED
      BY <1>9, <3>2 DEF Remote!DeleteListener, Remote!CreateListener, Remote!Creatable, MachineInv
  <2>12. "listener" \notin remoteDone
    BY <2>2, OrderIs DEF StepInv
  <2>13. Remote!CertOf(Remote!Entry)' = Remote!CertOf(Remote!Entry)
    BY <2>3 DEF Remote!CertOf
  <2>14. QED
    BY <2>1, <2>2, <2>3, <2>10, <2>11, <2>12, <2>13 DEF ListenInv
<1>10. CASE Remote!CreateRule
  <2>1. /\ UNCHANGED <<remoteHost, listener, store, remoteDone, plugin>>
        /\ remotePc = "rule" /\ remotePc' = "entry" /\ todo' = Tail(todo)
        /\ ports' = ports \cup {Remote!Entry.protocol}
    BY <1>10 DEF Remote!CreateRule
  <2>2. plugin = 2 /\ todo # <<>> /\ todo \in Seq(Wanted) /\ Rest(list)
    BY <1>0, <2>1 DEF StepInv, Listening, LoopInv, Looping
  <2> DEFINE k == Len(list) - Len(todo) + 1
             H == Handled(list)
  <2>3. k \in 1 .. Len(list) /\ Remote!Entry = list[k]
    BY <2>2, HeadOfRest DEF Remote!Entry
  <2>4. Handled(list)' = H \cup {k} /\ k \notin H
    BY <2>1, <2>2, TailOfRest
  <2>5. \A n \in H : n <= k
    BY <2>2, <2>3 DEF Handled
  <2>6. ServedBut(H, list[k].protocol)
    BY <1>0, <2>1, <2>3 DEF ListenInv
  <2>7. Listens(k)
    BY <1>0, <2>1, <2>3 DEF ListenInv, Listens
  <2>8. \A n : Listens(n)' = Listens(n)
    BY <2>1 DEF Listens, Remote!CertOf
  <2> HIDE DEF k, H
  <2>9. \A n \in H \cup {k} :
          /\ list[n].protocol \in ports'
          /\ Latest(H \cup {k}, n) => Listens(n)
    <3>1. ASSUME NEW n \in H PROVE list[n].protocol \in ports'
      BY <1>0, <2>1, <2>6 DEF ServedBut
    <3>2. list[k].protocol \in ports'
      BY <2>1, <2>3
    <3>3. ASSUME NEW n \in H, Latest(H \cup {k}, n) PROVE Listens(n)
      <4>1. Latest(H, n)
        BY <3>3 DEF Latest
      <4>2. list[n].protocol # list[k].protocol
        <5>1. SUFFICES ASSUME list[n].protocol = list[k].protocol PROVE FALSE
          OBVIOUS
        <5>2. k <= n /\ n <= k
          BY <1>0, <2>5, <3>3, <5>1 DEF Latest
        <5>3. n \in Nat /\ k \in Nat
          BY <2>2, <2>3, <3>3 DEF H, Handled
        <5>4. QED
          BY <2>4, <3>3, <5>2, <5>3
      <4>3. QED
        BY <1>0, <2>6, <4>1, <4>2 DEF ServedBut
    <3>4. QED
      BY <2>7, <3>1, <3>2, <3>3
  <2>10. \A G, n : Latest(G, n)' = Latest(G, n)
    BY <2>1 DEF Latest
  <2>11. Handled(remoteHost.listeners)' = H \cup {k}
    BY <1>0, <2>1, <2>4 DEF Handled
  <2>12. Served(Handled(remoteHost.listeners))'
    BY <1>0, <2>1, <2>8, <2>9, <2>10, <2>11 DEF Served
  <2>13. "listener" \notin remoteDone'
    BY <2>1, <2>2, OrderIs DEF StepInv
  <2>14. QED
    BY <2>1, <2>12, <2>13 DEF ListenInv
<1>11. CASE Remote!ImportClientCert \/ Remote!DeleteMapping \/ Remote!CreateMapping
  <2>1. UNCHANGED <<remoteHost, listener, ports, remoteDone, plugin>> /\ store \subseteq store'
    BY <1>11 DEF Remote!ImportClientCert, Remote!DeleteMapping, Remote!CreateMapping
  <2>2. remotePc' \in {"entry", "mapping"} /\ plugin = 3
    BY <1>11, OrderIs DEF Remote!ImportClientCert, Remote!DeleteMapping, Remote!CreateMapping,
       StepInv, Bodies
  <2>3. QED
    BY <2>1, <2>2, OutListenInv
<1>12. QED
  BY <1>1, <1>2, <1>3, <1>4, <1>5, <1>6, <1>7, <1>8, <1>9, <1>10, <1>11 DEF Remote!Next

-----------------------------------------------------------------------------
(* The certificate mappings. *)

Mapped(H) == \A n \in H : remoteHost.client[n] \in mappings \cup remoteHost.bare
MappedBut(H, cert) ==
  \A n \in H : remoteHost.client[n] \in mappings \cup remoteHost.bare \cup {cert}

AllMapped == Mapped(1 .. Len(remoteHost.client))

\* A certificate that the list repeats is unmapped and mapped again.
MapInv ==
  /\ remotePc \in {"lift", "auth", "entry"} /\ plugin = 3 => Mapped(Handled(remoteHost.client))
  /\ remotePc = "mapping" => MappedBut(Handled(remoteHost.client), Remote!Entry)
  /\ remotePc = "restore" /\ plugin = 3 /\ ~raised => AllMapped
  /\ "certauth" \in remoteDone => AllMapped

LEMMA MappedStays ==
  ASSUME UNCHANGED <<remoteHost, mappings>>
  PROVE  /\ \A H : Mapped(H)' = Mapped(H)
         /\ \A H, c : MappedBut(H, c)' = MappedBut(H, c)
         /\ AllMapped' = AllMapped
BY DEF Mapped, MappedBut, AllMapped

LEMMA OverMapInv ==
  ASSUME StepInv, MapInv, UNCHANGED <<remoteHost, mappings>>, plugin # 4,
         NEW result, Remote!Over(result),
         plugin = 3 /\ result = "done" => AllMapped
  PROVE  MapInv'
<1>1. remotePc' \in {"over", "next"}
  BY DEF Remote!Over
<1>2. "certauth" \in remoteDone' => "certauth" \in remoteDone \/ (plugin = 3 /\ result = "done")
  BY OrderIs DEF Remote!Over, StepInv
<1>3. "certauth" \in remoteDone' => AllMapped'
  BY <1>2, MappedStays DEF MapInv
<1>4. QED
  BY <1>1, <1>3 DEF MapInv

\* A step outside the loop over the certificates, in which no plugin ends.
LEMMA OutMapInv ==
  ASSUME MapInv, UNCHANGED <<remoteHost, mappings, remoteDone>>,
         remotePc' # "mapping",
         remotePc' \in {"lift", "auth", "entry", "restore"} => plugin' # 3
  PROVE  MapInv'
BY MappedStays DEF MapInv

LEMMA NextMapInv ==
  ASSUME StepInv, MachineInv, LoopInv, MapInv, Remote!Next
  PROVE  MapInv'
<1> USE DEF Remote!Goes
<1>0. PICK list \in Seq(Remote!Certs) : list = remoteHost.client
  BY RemoteHostFacts DEF MachineInv
<1>1. CASE Remote!Pass
  <2>1. Remote!Over("done") /\ UNCHANGED <<remoteHost, mappings>>
    BY <1>1 DEF Remote!Pass, Remote!system
  <2>2. plugin # 4 /\ (plugin = 3 => AllMapped)
    BY <1>1, OrderIs DEF Remote!Pass, StepInv, MapInv
  <2>3. QED
    BY <2>1, <2>2, OverMapInv
<1>2. CASE \/ Remote!Imported \/ Remote!NoService \/ Remote!NoClientCerts \/ Remote!Raises
           \/ Remote!RestoreRaises \/ Remote!Restore
  <2>1. UNCHANGED <<remoteHost, mappings>>
    BY <1>2 DEF Remote!Imported, Remote!NoService, Remote!NoClientCerts, Remote!Raises,
                Remote!RestoreRaises, Remote!Restore, Remote!system
  <2>2. plugin # 4
    BY <1>2 DEF Remote!Imported, Remote!NoService, Remote!NoClientCerts, Remote!Raises,
                Remote!RestoreRaises, Remote!Restore, Remote!Raise, Remote!Due,
                StepInv, Serving, Listening, Bodies
  <2>3. \/ Remote!Over("again")
        \/ Remote!Over("done") /\ (plugin = 3 => AllMapped)
        \/ Remote!Over("done") /\ remotePc = "restore" /\ ~raised
    <3>1. Remote!Imported => Remote!Over("done") /\ plugin # 3
      BY DEF Remote!Imported, StepInv, Serving
    <3>2. Remote!NoClientCerts => Remote!Over("done") /\ AllMapped
      BY DEF Remote!NoClientCerts, AllMapped, Mapped
    <3>3. Remote!Restore => remotePc = "restore" /\ Remote!Over(IF raised THEN "again" ELSE "done")
      BY DEF Remote!Restore
    <3>4. QED
      BY <1>2, <3>1, <3>2, <3>3 DEF Remote!NoService, Remote!Raises, Remote!RestoreRaises
  <2>4. QED
    BY <2>1, <2>2, <2>3, OverMapInv DEF MapInv
<1>3. CASE \/ Remote!Start \/ Remote!Certificates \/ Remote!Import \/ Remote!CheckService
           \/ Remote!SetMode \/ Remote!StartService
  <2>1. UNCHANGED <<remoteHost, mappings, remoteDone>>
    BY <1>3 DEF Remote!Start, Remote!Certificates, Remote!Import, Remote!CheckService,
                Remote!SetMode, Remote!StartService, Remote!system
  <2>2. remotePc' \in {"next", "import", "mode", "status", "entries"}
    BY <1>3 DEF Remote!Start, Remote!Certificates, Remote!Import, Remote!CheckService,
                Remote!SetMode, Remote!StartService
  <2>3. QED
    BY <2>1, <2>2, OutMapInv
<1>4. CASE Remote!Entries
  <2>1. remotePc = "entries" /\ plugin = 2 /\ UNCHANGED <<remoteHost, mappings>>
    BY <1>4 DEF Remote!Entries, Remote!system, StepInv, Listening
  <2>2. CASE Remote!Over("done")
    BY <2>1, <2>2, OverMapInv
  <2>3. CASE Remote!Goes("lift")
    BY <2>1, <2>3, OutMapInv
  <2>4. QED
    BY <1>4, <2>2, <2>3 DEF Remote!Entries
<1>5. CASE Remote!ClientCerts
  <2>1. /\ remotePc' = "lift" /\ todo' = remoteHost.client
        /\ UNCHANGED <<remoteHost, mappings, remoteDone>>
    BY <1>5 DEF Remote!ClientCerts, Remote!system
  <2>2. Handled(list)' = {}
    BY <1>0, <2>1, WholeRest
  <2>3. Handled(remoteHost.client)' = {}
    BY <1>0, <2>1, <2>2 DEF Handled
  <2>4. Mapped(Handled(remoteHost.client))'
    BY <2>3 DEF Mapped
  <2>5. QED
    BY <2>1, <2>4, MappedStays DEF MapInv
<1>6. CASE \/ Remote!Lift \/ Remote!SetAuth
  <2>1. UNCHANGED <<remoteHost, mappings, remoteDone, plugin, todo>>
    BY <1>6 DEF Remote!Lift, Remote!SetAuth
  <2>2. remotePc \in {"lift", "auth"} /\ remotePc' \in {"auth", "entry"}
    BY <1>6 DEF Remote!Lift, Remote!SetAuth
  <2>3. Handled(remoteHost.client)' = Handled(remoteHost.client)
    BY <2>1 DEF Handled
  <2>4. plugin = 3 => Mapped(Handled(remoteHost.client))'
    BY <2>1, <2>2, <2>3, MappedStays DEF MapInv
  <2>5. QED
    BY <2>1, <2>2, <2>4, MappedStays DEF MapInv
<1>7. CASE Remote!LiftRaises \/ Remote!BodyRaises
  <2>1. UNCHANGED <<remoteHost, mappings, remoteDone>> /\ remotePc' = "restore" /\ raised'
    BY <1>7 DEF Remote!LiftRaises, Remote!BodyRaises, Remote!system
  <2>2. QED
    BY <2>1, MappedStays DEF MapInv
<1>8. CASE Remote!BodyOver
  <2>1. UNCHANGED <<remoteHost, mappings, remoteDone, plugin>>
    BY <1>8 DEF Remote!BodyOver, Remote!system
  <2>2. remotePc = "entry" /\ remotePc' = "restore" /\ todo = <<>>
    BY <1>8 DEF Remote!BodyOver
  <2>3. Handled(remoteHost.client) = 1 .. Len(remoteHost.client)
    BY <1>0, <2>2, NoRest
  <2>4. plugin = 3 => AllMapped
    BY <2>2, <2>3 DEF MapInv, AllMapped
  <2>5. QED
    BY <2>1, <2>2, <2>4, MappedStays DEF MapInv
<1>9. CASE \/ Remote!Certificate \/ Remote!DeleteListener \/ Remote!CreateListener
           \/ Remote!CreateRule
  <2>1. UNCHANGED <<remoteHost, mappings, remoteDone, plugin>>
    BY <1>9 DEF Remote!Certificate, Remote!DeleteListener, Remote!CreateListener, Remote!CreateRule
  <2>2. plugin = 2 /\ remotePc' # "mapping"
    BY <1>9, OrderIs DEF Remote!Certificate, Remote!DeleteListener, Remote!CreateListener,
       Remote!CreateRule, StepInv, Bodies, Listening
  <2>3. QED
    BY <2>1, <2>2, OutMapInv
<1>10. CASE Remote!ImportClientCert \/ Remote!DeleteMapping \/ Remote!CreateMapping
  <2>1. UNCHANGED <<remoteHost, remoteDone, plugin>> /\ plugin = 3 /\ todo # <<>>
    BY <1>10, OrderIs DEF Remote!ImportClientCert, Remote!DeleteMapping, Remote!CreateMapping,
       StepInv, LoopInv, Bodies
  <2>2. remotePc \in {"entry", "mapping"} /\ todo \in Seq(Remote!Certs) /\ Rest(list)
    BY <1>0, <1>10, <2>1 DEF Remote!ImportClientCert, Remote!DeleteMapping, Remote!CreateMapping,
       LoopInv, Looping
  <2> DEFINE k == Len(list) - Len(todo) + 1
             H == Handled(list)
  <2>3. Remote!Entry = list[k]
    BY <2>1, <2>2, HeadOfRest DEF Remote!Entry
  <2>4. MappedBut(H, list[k])
    BY <1>0, <2>2, <2>1, <2>3 DEF MapInv, Mapped, MappedBut
  <2>5. "certauth" \notin remoteDone'
    BY <2>1, <2>2, OrderIs DEF StepInv
  <2> HIDE DEF k, H
  <2>6. CASE UNCHANGED todo
    <3>1. Handled(remoteHost.client)' = H /\ Remote!Entry' = Remote!Entry
      BY <1>0, <2>1, <2>6 DEF Handled, Remote!Entry, H
    <3>2. remotePc' = "mapping"
      <4>1. CASE Remote!ImportClientCert
        BY <2>1, <2>2, <2>6, <4>1, TailShrinks DEF Remote!ImportClientCert
      <4>2. CASE Remote!DeleteMapping
        BY <4>2 DEF Remote!DeleteMapping
      <4>3. CASE Remote!CreateMapping
        BY <2>1, <2>2, <2>6, <4>3, TailShrinks DEF Remote!CreateMapping
      <4>4. QED
        BY <1>10, <4>1, <4>2, <4>3
    <3>3. mappings' \in {mappings, mappings \ {list[k]}, mappings \cup {list[k]}}
      BY <1>10, <2>3 DEF Remote!ImportClientCert, Remote!DeleteMapping, Remote!CreateMapping
    <3>4. MappedBut(Handled(remoteHost.client), Remote!Entry)'
      BY <1>0, <2>1, <2>3, <2>4, <3>1, <3>3 DEF MappedBut
    <3>5. QED
      BY <2>5, <3>2, <3>4 DEF MapInv
  <2>7. CASE todo' = Tail(todo)
    <3>1. Handled(list)' = H \cup {k}
      BY <2>1, <2>2, <2>7, TailOfRest DEF H, k
    <3>2. Handled(remoteHost.client)' = H \cup {k}
      BY <1>0, <2>1, <3>1 DEF Handled
    <3>3. /\ remotePc' = "entry" /\ mappings \subseteq mappings'
          /\ list[k] \in mappings' \cup remoteHost.bare
      <4>1. CASE Remote!ImportClientCert
        BY <2>1, <2>2, <2>3, <2>7, <4>1, TailShrinks DEF Remote!ImportClientCert
      <4>2. CASE Remote!DeleteMapping
        BY <2>1, <2>2, <2>7, <4>2, TailShrinks DEF Remote!DeleteMapping
      <4>3. CASE Remote!CreateMapping
        BY <2>3, <4>3 DEF Remote!CreateMapping
      <4>4. QED
        BY <1>10, <4>1, <4>2, <4>3
    <3>4. Mapped(Handled(remoteHost.client))'
      BY <1>0, <2>1, <2>4, <3>2, <3>3 DEF MappedBut, Mapped
    <3>5. QED
      BY <2>5, <3>3, <3>4 DEF MapInv
  <2>8. todo' = Tail(todo) \/ UNCHANGED todo
    BY <1>10 DEF Remote!ImportClientCert, Remote!DeleteMapping, Remote!CreateMapping
  <2>9. QED
    BY <2>6, <2>7, <2>8
<1>11. QED
  BY <1>1, <1>2, <1>3, <1>4, <1>5, <1>6, <1>7, <1>8, <1>9, <1>10 DEF Remote!Next

-----------------------------------------------------------------------------
(* Remote access as a whole. *)

RemoteInv == StepInv /\ MachineInv /\ FlagInv /\ LoopInv /\ ListenInv /\ MapInv

LEMMA InitRemoteInv == Init => RemoteInv
<1> SUFFICES ASSUME Init PROVE RemoteInv
  OBVIOUS
<1>1. /\ remotePc = "idle" /\ plugin = 1 /\ remoteHost \in {m.remote : m \in Machines}
      /\ mode = remoteHost.mode /\ restrictions = remoteHost.restricted
      /\ running = (remoteHost.mode = "auto") /\ lifted = FALSE /\ raised = FALSE /\ left = FALSE
      /\ store = {} /\ ports = {} /\ mappings = {} /\ auth = {} /\ remoteDone = {}
      /\ listener = [p \in Remote!Protocols |-> IF p \in remoteHost.existing THEN NoCert ELSE NoListener]
  BY DEF Init, Remote!Init
<1>2. StepInv
  BY <1>1 DEF StepInv, Serving, Listening, Bodies
<1>3. MachineInv
  <2>1. mode \in {"manual", "disabled", "auto"} /\ restrictions \in {"on", "off"}
    BY <1>1, RemoteHostFacts
  <2>2. NoCert \in Remote!Certs
    BY DEF Remote!Certs
  <2>3. listener \in [Remote!Protocols -> Remote!Certs \cup {NoListener}]
    BY <1>1, <2>2
  <2>4. QED
    BY <1>1, <2>1, <2>3 DEF MachineInv
<1>4. FlagInv
  BY <1>1 DEF FlagInv
<1>5. LoopInv
  BY <1>1 DEF LoopInv, Looping
<1>6. ListenInv /\ MapInv
  BY <1>1 DEF ListenInv, MapInv
<1>7. QED
  BY <1>2, <1>3, <1>4, <1>5, <1>6 DEF RemoteInv

LEMMA NextRemoteInv ==
  ASSUME RemoteInv, Remote!Next
  PROVE  RemoteInv'
BY NextStepInv, NextMachineInv, NextFlagInv, NextLoopInv, NextListenInv, NextMapInv DEF RemoteInv

\* The process is gone: what the machine has stays.
LEMMA HaltRemoteInv ==
  ASSUME RemoteInv, Remote!Halt
  PROVE  RemoteInv'
<1>1. /\ remotePc' = "idle" /\ plugin' = 1 /\ ~lifted' /\ lifted' \in BOOLEAN /\ raised' \in BOOLEAN
      /\ UNCHANGED <<remoteHost, mode, running, restrictions, store, listener, ports, mappings, auth, remoteDone>>
      /\ left' = (left \/ lifted)
  BY DEF Remote!Halt, Remote!system
<1>2. StepInv'
  BY <1>1 DEF RemoteInv, StepInv, Serving, Listening, Bodies
<1>3. MachineInv'
  BY <1>1 DEF RemoteInv, MachineInv
<1>4. FlagInv'
  BY <1>1 DEF RemoteInv, FlagInv
<1>5. LoopInv'
  BY <1>1 DEF LoopInv, Looping
<1>6. ListenInv'
  BY <1>1, ServedStays DEF RemoteInv, ListenInv
<1>7. MapInv'
  BY <1>1, MappedStays DEF RemoteInv, MapInv
<1>8. QED
  BY <1>2, <1>3, <1>4, <1>5, <1>6, <1>7 DEF RemoteInv

LEMMA QuietRemoteInv ==
  ASSUME RemoteInv, UNCHANGED remoteVars
  PROVE  RemoteInv'
<1>1. UNCHANGED <<remotePc, plugin, remoteHost, mode, running, restrictions, lifted, todo, store,
                  listener, ports, mappings, auth, raised, remoteDone, left>>
  BY DEF remoteVars
<1>2. Remote!Order' = Remote!Order /\ Remote!Entry' = Remote!Entry
      /\ Remote!CertOf(Remote!Entry)' = Remote!CertOf(Remote!Entry)
  BY <1>1 DEF Remote!Order, Remote!Entry, Remote!CertOf
<1>3. /\ Handled(remoteHost.listeners)' = Handled(remoteHost.listeners)
      /\ Handled(remoteHost.client)' = Handled(remoteHost.client)
      /\ Rest(remoteHost.listeners)' = Rest(remoteHost.listeners)
      /\ Rest(remoteHost.client)' = Rest(remoteHost.client)
  BY <1>1 DEF Handled, Rest
<1>4. StepInv' /\ MachineInv' /\ FlagInv' /\ LoopInv'
  BY <1>1, <1>2, <1>3 DEF RemoteInv, StepInv, MachineInv, FlagInv, LoopInv
<1>5. ListenInv'
  BY <1>1, <1>2, <1>3, ServedStays DEF RemoteInv, ListenInv
<1>6. MapInv'
  BY <1>1, <1>2, <1>3, MappedStays DEF RemoteInv, MapInv
<1>7. QED
  BY <1>4, <1>5, <1>6 DEF RemoteInv

LEMMA StepRemoteInv ==
  ASSUME RemoteInv, [Next]_vars
  PROVE  RemoteInv'
<1>1. CASE Open
  BY <1>1, NextRemoteInv DEF Open
<1>2. CASE ConfigureOver
  <2>1. Remote!Next
    BY <1>2 DEF ConfigureOver, Remote!Next
  <2>2. QED
    BY <2>1, NextRemoteInv
<1>3. CASE \/ Boot \/ Reset \/ ResetOver \/ Gone \/ Configure \/ OpenOver \/ UNCHANGED vars
  <2>1. UNCHANGED remoteVars
    BY <1>3 DEF Boot, Reset, ResetOver, Gone, Configure, OpenOver, vars
  <2>2. QED
    BY <2>1, QuietRemoteInv
<1>4. CASE Reboot \/ Crash
  BY <1>4, HaltRemoteInv DEF Reboot, Crash, Down
<1>5. QED
  BY <1>1, <1>2, <1>3, <1>4 DEF Next, Own

LEMMA RemoteInvHolds == Spec => []RemoteInv
<1>1. RemoteInv /\ [Next]_vars => RemoteInv'
  BY StepRemoteInv
<1>2. QED
  BY <1>1, InitRemoteInv, PTL DEF Spec

\* Whatever is deleted and created again on the way, and however often a plugin raises or
\* the machine restarts in it: a plugin that need not run again has left the listener of
\* the last entry for each protocol, its port, and the mapping of each certificate.
THEOREM RemoteAccessIsAsConfigured == Spec => []RemoteAccessAsConfigured
<1>1. ASSUME RemoteInv PROVE RemoteAccessAsConfigured
  <2>0. remoteHost.listeners \in Seq(Wanted) /\ remoteHost.client \in Seq(Remote!Certs)
    BY <1>1, RemoteHostFacts DEF RemoteInv, MachineInv
  <2> DEFINE all == 1 .. Len(remoteHost.listeners)
  <2>1. ASSUME "listener" \in remoteDone, NEW n \in DOMAIN remoteHost.listeners
        PROVE  LET p == remoteHost.listeners[n].protocol
               IN /\ listener[p] = Remote!CertOf(Remote!LastFor(p)) /\ p \in ports
                  /\ listener[p] \in store \cup {NoCert}
    <3> DEFINE p == remoteHost.listeners[n].protocol
               same == {m \in DOMAIN remoteHost.listeners : remoteHost.listeners[m].protocol = p}
               last == CHOOSE m \in same : \A l \in same : l <= m
    <3>1. AllServed
      BY <1>1, <2>1 DEF RemoteInv, ListenInv
    <3>2. same \subseteq all /\ n \in same /\ Len(remoteHost.listeners) \in Nat
      BY <2>0
    <3>3. \E m \in same : \A l \in same : l <= m
      <4> HIDE DEF same
      <4>1. QED
        BY <3>2, LastOf
    <3>4. last \in same /\ \A l \in same : l <= last
      BY <3>3
    <3>5. Remote!LastFor(p) = remoteHost.listeners[last]
      BY DEF Remote!LastFor
    <3>6. last \in all /\ remoteHost.listeners[last].protocol = p
      BY <3>2, <3>4
    <3>10. \A l \in all : remoteHost.listeners[l].protocol = p => l \in same
      BY <2>0
    <3> HIDE DEF last, same, p
    <3>7. Latest(all, last)
      BY <3>4, <3>6, <3>10 DEF Latest
    <3> USE DEF p
    <3>8. Listens(last) /\ p \in ports
      BY <3>1, <3>6, <3>7 DEF AllServed, Served
    <3>9. QED
      BY <3>5, <3>6, <3>8 DEF Listens
  <2>2. ASSUME "certauth" \in remoteDone, NEW n \in DOMAIN remoteHost.client
        PROVE  remoteHost.client[n] \in mappings \cup remoteHost.bare
    BY <1>1, <2>0, <2>2 DEF RemoteInv, MapInv, AllMapped, Mapped
  <2>3. QED
    BY <2>1, <2>2 DEF RemoteAccessAsConfigured, Remote!RemoteAccessAsConfigured
<1>2. QED
  BY <1>1, RemoteInvHolds, PTL

-----------------------------------------------------------------------------
(* The calls that plugins make. *)

\* The settings that take effect as soon as they are set, and what the plugins only ask for.
AtOnce ==
  {"RdAgent", "VM type", "WindowsAzureGuestAgent", "WindowsAzureTelemetryService", "activation",
   "agent folder", "agent log", "agent package", "agent start mode", "agent status",
   "agent version", "application device", "auto recovery", "bcd store", "boot status",
   "boot volumes", "desktop", "dhcp hosts", "disk id", "dotnet", "event traces", "extents",
   "keepalive", "keepalive interval", "key table", "kms host", "kms port", "kms product",
   "labels", "layout", "license", "licensing", "mount points", "mtu", "nano", "ntp", "os device",
   "packs", "product key", "provision", "rdp certificate", "san", "ssh folder", "ssh keys",
   "thumbprint", "triggers", "trim", "updates", "user home", "video idle", "volume size",
   "w32time", "w32time mode", "w32time status", "warning", "warning path"}

\* The calls that plugins make: a setting that the system reads at its boot only is never
\* set without a look at what is stored or used, and without asking for the reboot.
SafeCall ==
  [do : {"when", "lookup", "ask"}, of : AtOnce \cup Settings!AtBoot]
  \cup [do : {"skip"}, of : AtOnce \cup Settings!AtBoot, by : Nat]
  \cup [do : {"put", "drop", "try", "trydrop", "sync"}, of : AtOnce]
  \cup [do : {"stored", "active"}, of : Settings!AtBoot]

LEMMA KindIs ==
  ASSUME NEW c \in SafeCall
  PROVE  /\ c.do \in {"put", "drop", "try", "trydrop", "sync"} => c.of \notin Settings!AtBoot
         /\ c.do \in {"stored", "active"} => c.of \in Settings!AtBoot
         /\ c.do = "skip" => c.by \in Nat
<1>1. AtOnce \cap Settings!AtBoot = {}
  BY DEF AtOnce, Settings!AtBoot
<1>2. QED
  BY <1>1 DEF SafeCall

LEMMA CallKinds ==
  /\ \A s \in AtOnce \cup Settings!AtBoot :
       /\ Settings!When(s) \in SafeCall /\ Settings!Lookup(s) \in SafeCall
       /\ Settings!Ask(s) \in SafeCall
       /\ \A n \in Nat : Settings!Skip(s, n) \in SafeCall
  /\ \A s \in AtOnce :
       /\ Settings!Put(s) \in SafeCall /\ Settings!Drop(s) \in SafeCall
       /\ Settings!Try(s) \in SafeCall /\ Settings!TryDrop(s) \in SafeCall
       /\ Settings!Sync(s) \in SafeCall
  /\ \A s \in Settings!AtBoot :
       Settings!Reconfigure(s) \in SafeCall /\ Settings!Rename(s) \in SafeCall
BY DEF SafeCall, Settings!When, Settings!Lookup, Settings!Ask, Settings!Skip, Settings!Put,
       Settings!Drop, Settings!Try, Settings!TryDrop, Settings!Sync, Settings!Reconfigure,
       Settings!Rename

Program == Seq(SafeCall)

LEMMA Programs ==
  /\ <<>> \in Program
  /\ \A a \in SafeCall : <<a>> \in Program
  /\ \A a, b \in SafeCall : <<a, b>> \in Program
  /\ \A a, b, c \in SafeCall : <<a, b, c>> \in Program
  /\ \A a, b, c, d \in SafeCall : <<a, b, c, d>> \in Program
  /\ \A p, q \in Program : p \o q \in Program
  /\ \A p \in Program : Len(p) \in Nat
BY DEF Program

LEMMA BootNames == /\ "hostname" \in Settings!AtBoot /\ "rtc" \in Settings!AtBoot
                   /\ "pagefiles" \in Settings!AtBoot
BY DEF Settings!AtBoot

LEMMA NumbersAre == 1 \in Nat /\ 2 \in Nat /\ 3 \in Nat
OBVIOUS

LEMMA NamesAtOnce ==
  /\ {"triggers", "w32time", "w32time mode", "w32time status", "ntp", "dhcp hosts", "mtu"} \subseteq AtOnce
  /\ {"mount points", "labels", "san", "keepalive", "keepalive interval"} \subseteq AtOnce
  /\ {"rdp certificate", "thumbprint", "video idle", "boot status", "updates", "trim"} \subseteq AtOnce
  /\ {"bcd store", "os device", "application device", "layout", "disk id", "auto recovery",
      "boot volumes"} \subseteq AtOnce
  /\ {"kms product", "key table", "product key", "kms host", "kms port", "activation", "licensing",
      "license"} \subseteq AtOnce
  /\ {"extents", "volume size", "packs", "warning", "warning path"} \subseteq AtOnce
  /\ {"user home", "ssh folder", "ssh keys"} \subseteq AtOnce
BY DEF AtOnce

LEMMA AgentNamesAtOnce ==
  /\ {"RdAgent", "WindowsAzureGuestAgent", "WindowsAzureTelemetryService", "VM type"} \subseteq AtOnce
  /\ {"agent package", "event traces", "agent version", "agent log", "agent start mode",
      "agent status", "agent folder"} \subseteq AtOnce
  /\ {"provision", "desktop", "nano", "dotnet"} \subseteq AtOnce
BY DEF AtOnce

LEMMA TimePrograms ==
  /\ Settings!RealTimeClock \in Program /\ Settings!VerifyTimeService \in Program
  /\ Settings!DhcpHosts \in Program /\ Settings!ClientConfig \in Program
  /\ <<Settings!Skip("w32time", Len(Settings!VerifyTimeService))>> \in Program
  /\ <<Settings!When("ntp")>> \in Program /\ <<Settings!Lookup("ntp")>> \in Program
<1>1. Settings!RealTimeClock \in Program
  BY BootNames, CallKinds, Programs, Zenon DEF Settings!RealTimeClock
<1>2. Settings!VerifyTimeService \in Program
  BY NamesAtOnce, CallKinds, Programs, Zenon DEF Settings!VerifyTimeService, Settings!TriggerMode
<1>3. Settings!DhcpHosts \in Program /\ Settings!ClientConfig \in Program
  BY NamesAtOnce, CallKinds, Programs, Zenon DEF Settings!DhcpHosts, Settings!ClientConfig
<1>4. QED
  BY <1>1, <1>2, <1>3, NamesAtOnce, CallKinds, Programs, Zenon

LEMMA HostAndTimePrograms ==
  Settings!SetHostName \in Program /\ Settings!NTPClient \in Program /\ Settings!MTU \in Program
<1>1. Settings!SetHostName \in Program
  BY BootNames, CallKinds, Programs, Zenon DEF Settings!SetHostName, Settings!HostName
<1>2. Settings!NTPClient \in Program
  BY TimePrograms, Programs, Zenon DEF Settings!NTPClient
<1>3. Settings!MTU \in Program
  BY TimePrograms, NamesAtOnce, NumbersAre, CallKinds, Programs, Zenon DEF Settings!MTU
<1>4. QED
  BY <1>1, <1>2, <1>3

LEMMA FilePrograms ==
  Settings!PageFiles \in Program /\ Settings!SanPolicy \in Program /\ Settings!ExtendVolumes \in Program
<1>1. Settings!PageFileVolumes \in Program
  BY NamesAtOnce, CallKinds, Programs, Zenon
  DEF Settings!PageFileVolumes, Settings!MountPoints, Settings!Labels
<1>2. <<Settings!Skip("pagefiles", 1)>> \in Program /\ Settings!SetPageFiles \in Program
  BY BootNames, NumbersAre, CallKinds, Programs, Zenon DEF Settings!SetPageFiles
<1>3. Settings!PageFiles \in Program
  BY <1>1, <1>2, Programs, Zenon DEF Settings!PageFiles
<1>4. Settings!SanPolicy \in Program
  BY NamesAtOnce, CallKinds, Programs, Zenon DEF Settings!SanPolicy, Settings!VdsSanPolicy
<1>5. Settings!ExtendVolumes \in Program
  BY NamesAtOnce, CallKinds, Programs, Zenon
  DEF Settings!ExtendVolumes, Settings!ExtendVolume, Settings!Extents
<1>6. QED
  BY <1>3, <1>4, <1>5

LEMMA DesktopPrograms ==
  /\ Settings!RDPSettings \in Program /\ Settings!RDPPostCertificateThumbprint \in Program
  /\ Settings!DisplayIdleTimeout \in Program /\ Settings!BootStatusPolicy \in Program
  /\ Settings!WindowsAutoUpdates \in Program /\ Settings!Trim \in Program
<1>1. Settings!RDPSettings \in Program /\ Settings!RDPPostCertificateThumbprint \in Program
  BY NamesAtOnce, CallKinds, Programs, Zenon
  DEF Settings!RDPSettings, Settings!KeepAlive, Settings!RDPPostCertificateThumbprint,
      Settings!Thumbprint
<1>2. Settings!DisplayIdleTimeout \in Program /\ Settings!BootStatusPolicy \in Program
  BY NamesAtOnce, CallKinds, Programs, Zenon
  DEF Settings!DisplayIdleTimeout, Settings!PowerCfg, Settings!BootStatusPolicy, Settings!Bcdedit
<1>3. Settings!WindowsAutoUpdates \in Program /\ Settings!Trim \in Program
  BY NamesAtOnce, CallKinds, Programs, Zenon
  DEF Settings!WindowsAutoUpdates, Settings!AutomaticUpdates, Settings!Trim, Settings!Fsutil
<1>4. QED
  BY <1>1, <1>2, <1>3

LEMMA BootPrograms == Settings!BCDConfig \in Program
<1>1. Settings!BootPartition \in Program
  BY NamesAtOnce, CallKinds, Programs, Zenon DEF Settings!BootPartition, Settings!CurrentStore
<1>2. Settings!UniqueDiskId \in Program
  BY NamesAtOnce, CallKinds, Programs, Zenon DEF Settings!UniqueDiskId
<1>3. Settings!AutoRecovery \in Program
  BY NamesAtOnce, CallKinds, Programs, Zenon DEF Settings!AutoRecovery, Settings!CurrentStore
<1>4. 1 + Len(Settings!BootPartition) + Len(Settings!UniqueDiskId) \in Nat
  BY <1>1, <1>2, Programs
<1>5. <<Settings!Skip("disk id", 1 + Len(Settings!BootPartition) + Len(Settings!UniqueDiskId)),
        Settings!Ask("boot volumes")>> \in Program
  BY <1>4, NamesAtOnce, CallKinds, Programs, Zenon
<1>6. QED
  BY <1>1, <1>2, <1>3, <1>5, Programs, Zenon DEF Settings!BCDConfig

LEMMA LicensePrograms == Settings!WindowsLicensing \in Program
<1>1. Settings!ProductKey \in Program
  BY NamesAtOnce, NumbersAre, CallKinds, Programs, Zenon
  DEF Settings!ProductKey, Settings!KmsProduct, Settings!KeyTable, Settings!InstallKey
<1>2. Settings!KmsHost \in Program
  BY NamesAtOnce, NumbersAre, CallKinds, Programs, Zenon DEF Settings!KmsHost, Settings!KmsMachine
<1>3. /\ <<Settings!When("licensing")>> \in Program /\ <<Settings!Skip("activation", 1)>> \in Program
      /\ Settings!Slmgr \in Program /\ <<Settings!Ask("license")>> \in Program
  BY NamesAtOnce, NumbersAre, CallKinds, Programs, Zenon DEF Settings!Slmgr
<1>4. QED
  BY <1>1, <1>2, <1>3, Programs, Zenon DEF Settings!WindowsLicensing

LEMMA UserPrograms == Settings!EphemeralDisk \in Program /\ Settings!SSHPublicKeys \in Program
<1>1. Settings!EphemeralVolume \in Program /\ Settings!Warning \in Program
  BY NamesAtOnce, CallKinds, Programs, Zenon
  DEF Settings!EphemeralVolume, Settings!MountPoints, Settings!Labels, Settings!Warning
<1>2. <<Settings!When("warning")>> \in Program /\ <<Settings!Skip("warning path", 3)>> \in Program
  BY NamesAtOnce, NumbersAre, CallKinds, Programs, Zenon
<1>3. Settings!EphemeralDisk \in Program
  BY <1>1, <1>2, Programs, Zenon DEF Settings!EphemeralDisk
<1>4. Settings!SSHPublicKeys \in Program
  BY NamesAtOnce, CallKinds, Programs, Zenon DEF Settings!SSHPublicKeys, Settings!UserHome
<1>5. QED
  BY <1>3, <1>4

LEMMA AgentPrograms == Settings!AzureGuestAgent \in Program
<1>1. \A s \in AtOnce : Settings!RemoveService(s) \in Program
  BY CallKinds, Programs, Zenon DEF Settings!RemoveService
<1>2. Settings!RemoveAgent \in Program
  BY <1>1, AgentNamesAtOnce, Programs, Zenon DEF Settings!RemoveAgent
<1>3. Settings!RemoveAgentFolders \in Program /\ Settings!AgentPackage \in Program
  BY AgentNamesAtOnce, CallKinds, Programs, Zenon
  DEF Settings!RemoveAgentFolders, Settings!AgentPackage
<1>4. Settings!EventTraces \in Program /\ Settings!CreateRdAgent \in Program
  BY AgentNamesAtOnce, CallKinds, Programs, Zenon DEF Settings!EventTraces, Settings!CreateRdAgent
<1>5. Settings!CreateVmAgent \in Program /\ Settings!StartAgent \in Program
  BY AgentNamesAtOnce, CallKinds, Programs, Zenon DEF Settings!CreateVmAgent, Settings!StartAgent
<1>6. /\ <<Settings!Drop("agent package"), Settings!Ask("agent folder"),
           Settings!Put("agent package")>> \in Program
      /\ <<Settings!Skip("dotnet", Len(Settings!StartAgent))>> \in Program
  BY <1>5, AgentNamesAtOnce, CallKinds, Programs, Zenon
<1>7. Settings!DesktopAgent \in Program
  BY <1>3, <1>4, <1>5, <1>6, Programs, Zenon DEF Settings!DesktopAgent
<1>8. Settings!NanoAgent \in Program
  BY <1>5, AgentNamesAtOnce, CallKinds, Programs, Zenon DEF Settings!NanoAgent
<1>9. /\ <<Settings!When("provision")>> \in Program
      /\ <<Settings!Skip("desktop", Len(Settings!DesktopAgent))>> \in Program
      /\ <<Settings!Skip("nano", Len(Settings!NanoAgent))>> \in Program
  BY <1>7, <1>8, AgentNamesAtOnce, CallKinds, Programs, Zenon
<1>10. QED
  BY <1>2, <1>3, <1>7, <1>8, <1>9, Programs, Zenon DEF Settings!AzureGuestAgent

\* Every plugin makes such calls only.
LEMMA AllPrograms ==
  ASSUME NEW p \in DOMAIN Settings!Calls
  PROVE  Settings!Calls[p] \in Program
BY HostAndTimePrograms, FilePrograms, DesktopPrograms, BootPrograms, LicensePrograms, UserPrograms,
   AgentPrograms DEF Settings!Calls

-----------------------------------------------------------------------------
(* The plugins that set the host up. *)

Value == {"old", "new", "none"}

SettingsTypeInv ==
  /\ settingsPc \in {"idle", "next", "call", "over", "reboot"}
  /\ settingsHost \in {m.settings : m \in Machines}
  /\ at \in 1 .. Len(settingsHost.plugins) + 1
  /\ settingsPc = "call" => at <= Len(settingsHost.plugins)
  /\ calls \in Program
  /\ settingsPc # "call" => calls = <<>> /\ asked = {}
  /\ settingsDone \subseteq {settingsHost.plugins[n] : n \in DOMAIN settingsHost.plugins}
                              \ Settings!EachBoot

ValueInv ==
  /\ stored \in [Settings!Settings -> Value] /\ active \in [Settings!Settings -> Value]
  /\ asked \subseteq Settings!AtBoot /\ forgotten \subseteq Settings!AtBoot

\* Whatever the running system does not use yet waits for a reboot that is asked for, or was
\* asked for by an execution that raised.
WaitingInv ==
  settingsPc \in {"next", "call", "over"} =>
    \A s \in Settings!AtBoot : active[s] = stored[s] \/ s \in asked \cup forgotten

SettingsInv == SettingsTypeInv /\ ValueInv /\ WaitingInv

LEMMA SettingsHostFacts ==
  ASSUME settingsHost \in {m.settings : m \in Machines}
  PROVE  settingsHost.plugins \in Seq(DOMAIN Settings!Calls)
<1>1. PICK m \in Machines : settingsHost = m.settings
  OBVIOUS
<1>2. QED
  BY <1>1, HostConfigurationAssumption

LEMMA OfConcat ==
  ASSUME NEW p \in Program, NEW q \in Program
  PROVE  Settings!Of(p) \subseteq Settings!Of(p \o q) /\ Settings!Of(q) \subseteq Settings!Of(p \o q)
<1>1. \A n \in DOMAIN p : n \in DOMAIN (p \o q) /\ (p \o q)[n] = p[n]
  BY DEF Program
<1>2. \A n \in DOMAIN q : n + Len(p) \in DOMAIN (p \o q) /\ (p \o q)[n + Len(p)] = q[n]
  BY DEF Program
<1>3. QED
  BY <1>1, <1>2 DEF Settings!Of

LEMMA OfFirst ==
  ASSUME NEW p \in Program, NEW q \in Program, NEW s \in Settings!Of(p)
  PROVE  p \o q \in Program /\ s \in Settings!Of(p \o q)
BY OfConcat, Programs

\* The settings that are read at the boot are settings of the plugins.
LEMMA AtBootAreSettings == Settings!AtBoot \subseteq Settings!Settings
<1>1. \A c \in SafeCall : Settings!Of(<<c>>) = {c.of}
  BY DEF Settings!Of
<1>2. "hostname" \in Settings!Of(Settings!SetHostName)
  <2>1. Settings!When("hostname") \in SafeCall /\ Settings!Rename("hostname") \in SafeCall
    BY BootNames, CallKinds, Zenon
  <2>2. <<Settings!When("hostname")>> \in Program /\ <<Settings!Rename("hostname")>> \in Program
    BY <2>1, Programs, Zenon
  <2>3. "hostname" \in Settings!Of(<<Settings!When("hostname")>>)
    BY <1>1, <2>1 DEF Settings!When
  <2>4. QED
    BY <2>2, <2>3, OfConcat, Zenon DEF Settings!SetHostName, Settings!HostName
<1>3. "rtc" \in Settings!Of(Settings!NTPClient)
  <2>1. Settings!RealTimeClock \in Program /\ "rtc" \in Settings!Of(Settings!RealTimeClock)
    <3>1. Settings!Reconfigure("rtc") \in SafeCall /\ Settings!Reconfigure("rtc").of = "rtc"
      BY BootNames, CallKinds DEF Settings!Reconfigure
    <3>2. QED
      BY <1>1, <3>1, Programs DEF Settings!RealTimeClock
  <2>2. QED
    BY <2>1, TimePrograms, OfFirst, Zenon DEF Settings!NTPClient
<1>4. "pagefiles" \in Settings!Of(Settings!PageFiles)
  <2>1. <<Settings!Skip("pagefiles", 1)>> \in Program /\ Settings!SetPageFiles \in Program
    BY BootNames, NumbersAre, CallKinds, Programs, Zenon DEF Settings!SetPageFiles
  <2>2. "pagefiles" \in Settings!Of(Settings!SetPageFiles)
    <3>1. Settings!Reconfigure("pagefiles") \in SafeCall
      BY BootNames, CallKinds, Zenon
    <3>2. Settings!Reconfigure("pagefiles").of = "pagefiles"
      BY DEF Settings!Reconfigure
    <3>3. QED
      BY <1>1, <3>1, <3>2 DEF Settings!SetPageFiles
  <2>3. Settings!PageFileVolumes \in Program
    BY NamesAtOnce, CallKinds, Programs, Zenon
    DEF Settings!PageFileVolumes, Settings!MountPoints, Settings!Labels
  <2>4. Settings!PageFileVolumes \o <<Settings!Skip("pagefiles", 1)>> \in Program
    BY <2>1, <2>3, Programs, Zenon
  <2>5. QED
    BY <2>1, <2>2, <2>4, OfConcat, Zenon DEF Settings!PageFiles
<1>5. QED
  BY <1>2, <1>3, <1>4 DEF Settings!Settings, Settings!AtBoot, Settings!Calls

LEMMA GoesInv ==
  ASSUME SettingsTypeInv, NEW n \in Nat, Settings!Goes(n), settingsPc = "call"
  PROVE  SettingsTypeInv'
<1>1. SubSeq(calls, n + 1, Len(calls)) \in Program
  BY DEF SettingsTypeInv, Program
<1>2. QED
  BY <1>1 DEF Settings!Goes, SettingsTypeInv

LEMMA ReturnInv ==
  ASSUME SettingsTypeInv, settingsPc = "call", NEW result, Settings!Return(result)
  PROVE  SettingsTypeInv'
<1>1. settingsHost.plugins \in Seq(DOMAIN Settings!Calls)
  BY SettingsHostFacts DEF SettingsTypeInv
<1>2. at \in 1 .. Len(settingsHost.plugins) /\ Len(settingsHost.plugins) \in Nat
  BY <1>1 DEF SettingsTypeInv
<1>3. at' \in 1 .. Len(settingsHost.plugins) + 1
  BY <1>2 DEF Settings!Return
<1>4. /\ settingsPc' \in {"reboot", "next"} /\ calls' = <<>> /\ asked' = {} /\ UNCHANGED settingsHost
      /\ settingsDone' \subseteq settingsDone \cup ({Settings!Plugin} \ Settings!EachBoot)
  BY DEF Settings!Return
<1>5. Settings!Plugin \in {settingsHost.plugins[n] : n \in DOMAIN settingsHost.plugins}
  BY <1>1, <1>2 DEF Settings!Plugin
<1>6. QED
  BY <1>3, <1>4, <1>5, Programs DEF SettingsTypeInv

LEMMA NextSettingsTypeInv ==
  ASSUME SettingsTypeInv, Settings!Next
  PROVE  SettingsTypeInv'
<1>0. /\ settingsHost.plugins \in Seq(DOMAIN Settings!Calls)
      /\ Len(settingsHost.plugins) \in Nat
  BY SettingsHostFacts DEF SettingsTypeInv
<1>1. CASE Settings!Start
  BY <1>0, <1>1 DEF Settings!Start, SettingsTypeInv
<1>2. CASE Settings!Pass
  BY <1>0, <1>2 DEF Settings!Pass, SettingsTypeInv
<1>3. CASE Settings!Execute
  <2>1. settingsHost.plugins[at] \in DOMAIN Settings!Calls
    BY <1>0, <1>3 DEF Settings!Execute, SettingsTypeInv
  <2>2. calls' \in Program
    BY <1>3, <2>1, AllPrograms DEF Settings!Execute, Settings!Plugin
  <2>3. QED
    BY <1>3, <2>2 DEF Settings!Execute, SettingsTypeInv
<1>4. CASE Settings!StageOver
  BY <1>4 DEF Settings!StageOver, SettingsTypeInv
<1>5. CASE Settings!End \/ Settings!NotWanted \/ Settings!NoAnswer
  <2>1. settingsPc = "call" /\ \E result : Settings!Return(result)
    BY <1>5 DEF Settings!End, Settings!NotWanted, Settings!NoAnswer, Settings!Making
  <2>2. QED
    BY <2>1, ReturnInv
<1>6. CASE Settings!Raise
  <2>1. /\ settingsPc = "call" /\ settingsPc' = "next" /\ calls' = <<>> /\ asked' = {}
        /\ at' = at + 1 /\ UNCHANGED <<settingsHost, settingsDone>>
    BY <1>6 DEF Settings!Raise, Settings!Making
  <2>2. QED
    BY <1>0, <2>1, Programs DEF SettingsTypeInv
<1>7. CASE \/ Settings!Wanted \/ Settings!Answer \/ Settings!PutValue \/ Settings!DropValue
           \/ Settings!TryValue \/ Settings!Unnoticed \/ Settings!AskReboot
  <2>1. settingsPc = "call" /\ Settings!Goes(1)
    BY <1>7 DEF Settings!Wanted, Settings!Answer, Settings!PutValue, Settings!DropValue,
                Settings!TryValue, Settings!Unnoticed, Settings!AskReboot, Settings!Making
  <2>2. QED
    BY <2>1, GoesInv
<1>8. CASE Settings!SkipCalls
  <2>1. settingsPc = "call" /\ calls # <<>> /\ Settings!Call.do = "skip"
    BY <1>8 DEF Settings!SkipCalls, Settings!Making
  <2>2. Settings!Call \in SafeCall
    BY <2>1 DEF Settings!Call, SettingsTypeInv, Program
  <2>3. Settings!Call.by \in Nat
    BY <2>1, <2>2, KindIs
  <2>4. PICK n \in Nat : Settings!Goes(n)
    BY <1>8, <2>3 DEF Settings!SkipCalls
  <2>5. QED
    BY <2>1, <2>4, GoesInv
<1>9. QED
  BY <1>1, <1>2, <1>3, <1>4, <1>5, <1>6, <1>7, <1>8 DEF Settings!Next

\* A call sets nothing that is read at the boot, or asks for the reboot.
LEMMA NextValueInv ==
  ASSUME SettingsTypeInv, ValueInv, WaitingInv, Settings!Next
  PROVE  ValueInv' /\ WaitingInv'
<1>1. CASE Settings!Start
  BY <1>1 DEF Settings!Start, ValueInv, WaitingInv
<1>2. CASE Settings!Pass \/ Settings!Execute \/ Settings!StageOver
  BY <1>2 DEF Settings!Pass, Settings!Execute, Settings!StageOver, ValueInv, WaitingInv
<1>3. CASE Settings!End \/ Settings!NotWanted \/ Settings!NoAnswer
  <2>1. settingsPc = "call" /\ \E result : Settings!Return(result)
    BY <1>3 DEF Settings!End, Settings!NotWanted, Settings!NoAnswer, Settings!Making
  <2>2. /\ settingsPc' = IF asked # {} THEN "reboot" ELSE "next"
        /\ asked' = {} /\ UNCHANGED <<stored, active, forgotten>>
    BY <2>1 DEF Settings!Return
  <2>3. QED
    BY <2>1, <2>2 DEF ValueInv, WaitingInv
<1>4. CASE Settings!Raise
  <2>1. /\ settingsPc = "call" /\ asked' = {} /\ forgotten' = forgotten \cup asked
        /\ UNCHANGED <<stored, active>>
    BY <1>4 DEF Settings!Raise, Settings!Making
  <2>2. QED
    BY <2>1 DEF ValueInv, WaitingInv
<1>5. CASE Settings!Wanted \/ Settings!SkipCalls \/ Settings!Answer \/ Settings!Unnoticed
  <2>1. settingsPc = "call" /\ UNCHANGED <<stored, active, asked, forgotten>>
    BY <1>5 DEF Settings!Wanted, Settings!SkipCalls, Settings!Answer, Settings!Unnoticed,
                Settings!Making, Settings!Goes, Settings!Same
  <2>2. QED
    BY <2>1 DEF ValueInv, WaitingInv
<1>6. CASE \/ Settings!PutValue \/ Settings!DropValue \/ Settings!TryValue \/ Settings!AskReboot
  <2>1. /\ settingsPc = "call" /\ calls # <<>> /\ UNCHANGED <<active, forgotten>>
        /\ Settings!Call.do \in {"put", "sync", "drop", "trydrop", "try", "stored", "active"}
    BY <1>6 DEF Settings!PutValue, Settings!DropValue, Settings!TryValue, Settings!AskReboot,
                Settings!Making, Settings!Goes
  <2>2. Settings!Call \in SafeCall
    BY <2>1 DEF Settings!Call, SettingsTypeInv, Program
  <2> DEFINE of == Settings!Call.of
  <2>3. CASE Settings!Call.do \in {"put", "sync", "drop", "trydrop", "try"}
    <3>1. of \notin Settings!AtBoot
      BY <2>2, <2>3, KindIs
    <3>2. PICK v \in Value : stored' = [stored EXCEPT ![of] = v] /\ UNCHANGED asked
      BY <1>6, <2>3 DEF Settings!PutValue, Settings!DropValue, Settings!TryValue,
         Settings!AskReboot, Settings!Making, Settings!Set, Value
    <3> HIDE DEF of
    <3>3. stored' \in [Settings!Settings -> Value]
      BY <3>2 DEF ValueInv
    <3>4. \A s \in Settings!AtBoot : stored'[s] = stored[s]
      BY <3>1, <3>2, AtBootAreSettings DEF ValueInv
    <3>5. QED
      BY <2>1, <3>2, <3>3, <3>4 DEF ValueInv, WaitingInv
  <2>4. CASE Settings!Call.do \in {"stored", "active"}
    <3>1. of \in Settings!AtBoot
      BY <2>2, <2>4, KindIs
    <3>2. \/ UNCHANGED <<stored, asked>>
          \/ stored' = [stored EXCEPT ![of] = "new"] /\ asked' = asked \cup {of}
      BY <1>6, <2>4 DEF Settings!PutValue, Settings!DropValue, Settings!TryValue,
         Settings!AskReboot, Settings!Making, Settings!Set
    <3> HIDE DEF of
    <3>3. stored' \in [Settings!Settings -> Value] /\ asked' \subseteq Settings!AtBoot
      BY <3>1, <3>2 DEF ValueInv, Value
    <3>4. \A s \in Settings!AtBoot : stored'[s] = stored[s] \/ s \in asked'
      BY <3>1, <3>2, AtBootAreSettings DEF ValueInv
    <3>5. asked \subseteq asked'
      BY <3>2
    <3>6. QED
      BY <2>1, <3>3, <3>4, <3>5 DEF ValueInv, WaitingInv
  <2>5. QED
    BY <2>1, <2>3, <2>4
<1>7. QED
  BY <1>1, <1>2, <1>3, <1>4, <1>5, <1>6 DEF Settings!Next

LEMMA QuietSettingsInv ==
  ASSUME SettingsInv,
         UNCHANGED <<settingsHost, stored, active, settingsDone, forgotten>>,
         \/ UNCHANGED <<settingsPc, at, calls, asked>>
         \/ settingsPc' = "idle" /\ at' = 1 /\ calls' = <<>> /\ asked' = {}
  PROVE  SettingsInv'
<1>1. Len(settingsHost.plugins) \in Nat
  BY SettingsHostFacts DEF SettingsInv, SettingsTypeInv
<1>2. <<>> \in Program
  BY Programs
<1>3. SettingsTypeInv'
  BY <1>1, <1>2 DEF SettingsInv, SettingsTypeInv
<1>4. ValueInv' /\ WaitingInv'
  BY DEF SettingsInv, ValueInv, WaitingInv
<1>5. QED
  BY <1>3, <1>4 DEF SettingsInv

LEMMA InitSettingsInv == Init => SettingsInv
<1> SUFFICES ASSUME Init PROVE SettingsInv
  OBVIOUS
<1>1. /\ settingsPc = "idle" /\ at = 1 /\ calls = <<>> /\ asked = {} /\ forgotten = {}
      /\ settingsDone = {} /\ settingsHost \in {m.settings : m \in Machines}
      /\ stored = [s \in Settings!Settings |-> "old"] /\ active = stored
  BY DEF Init, Settings!Init
<1>2. Len(settingsHost.plugins) \in Nat
  BY <1>1, SettingsHostFacts
<1>3. SettingsTypeInv
  BY <1>1, <1>2, Programs DEF SettingsTypeInv
<1>4. ValueInv /\ WaitingInv
  BY <1>1 DEF ValueInv, WaitingInv, Value
<1>5. QED
  BY <1>3, <1>4 DEF SettingsInv

LEMMA StepSettingsInv ==
  ASSUME SettingsInv, [Next]_vars
  PROVE  SettingsInv'
<1>1. CASE Settings!Next
  BY <1>1, NextSettingsTypeInv, NextValueInv DEF SettingsInv
<1>2. CASE Settings!Halt
  BY <1>2, QuietSettingsInv DEF Settings!Halt
<1>3. CASE UNCHANGED settingsVars
  BY <1>3, QuietSettingsInv DEF settingsVars
<1>4. Settings!Next \/ Settings!Halt \/ UNCHANGED settingsVars
  BY DEF Next, Own, vars, Boot, Reset, ResetOver, Gone, Configure, ConfigureOver, Open, OpenOver,
         Reboot, Crash, Down, Settings!Next
<1>5. QED
  BY <1>1, <1>2, <1>3, <1>4

LEMMA SettingsInvHolds == Spec => []SettingsInv
<1>1. SettingsInv /\ [Next]_vars => SettingsInv'
  BY StepSettingsInv
<1>2. QED
  BY <1>1, InitSettingsInv, PTL DEF Spec

\* Host name, clock and page files are in use when the plugins are over, or their reboot
\* was asked for by an execution that raised.
THEOREM RebootsAreNotMissed == Spec => []RebootNotMissed
<1>1. SettingsInv => RebootNotMissed
  BY DEF SettingsInv, SettingsTypeInv, WaitingInv, RebootNotMissed, Settings!RebootNotMissed
<1>2. QED
  BY <1>1, SettingsInvHolds, PTL

-----------------------------------------------------------------------------
(* What a program of calls does to a setting. *)

Puts  == {"put", "sync", "stored", "active"}
Drops == {"drop", "trydrop"}

\* None of the calls removes the setting.
Keeps(program, s) == \A i \in DOMAIN program : program[i].of = s => program[i].do \notin Drops
Harmless(program) == \A i \in DOMAIN program : program[i].do \notin Drops

\* The calls go on with what follows them, whatever is skipped.
Passes(program, given) ==
  \A i \in DOMAIN program :
    /\ program[i].do = "when" => program[i].of \in given
    /\ program[i].do = "skip" /\ program[i].of \notin given => i + program[i].by <= Len(program)

\* One of the calls, which is never skipped, sets the setting, and none removes it later.
SetsAt(program, s, given, i) ==
  /\ program[i].of = s /\ program[i].do \in Puts
  /\ \A j \in DOMAIN program :
       /\ j > i /\ program[j].of = s => program[j].do \notin Drops
       /\ j < i /\ program[j].do = "when" => program[j].of \in given
       /\ j < i /\ program[j].do = "skip" /\ program[j].of \notin given => j + program[j].by < i
Sets(program, s, given) == \E i \in DOMAIN program : SetsAt(program, s, given, i)

LEMMA ConcatIs ==
  ASSUME NEW p \in Program, NEW q \in Program
  PROVE  /\ p \o q \in Program /\ Len(p) \in Nat /\ Len(q) \in Nat
         /\ DOMAIN p = 1 .. Len(p) /\ DOMAIN q = 1 .. Len(q)
         /\ DOMAIN (p \o q) = 1 .. Len(p) + Len(q) /\ Len(p \o q) = Len(p) + Len(q)
         /\ \A i \in 1 .. Len(p) : (p \o q)[i] = p[i]
         /\ \A i \in 1 .. Len(q) : (p \o q)[Len(p) + i] = q[i]
         /\ \A i \in 1 .. Len(p) + Len(q) :
              i \in 1 .. Len(p) \/ \E k \in 1 .. Len(q) : i = Len(p) + k
<1>1. /\ Len(p) \in Nat /\ Len(q) \in Nat /\ p \o q \in Program /\ DOMAIN p = 1 .. Len(p)
      /\ DOMAIN q = 1 .. Len(q)
  BY DEF Program
<1>2. /\ DOMAIN (p \o q) = 1 .. Len(p) + Len(q) /\ Len(p \o q) = Len(p) + Len(q)
      /\ \A i \in 1 .. Len(p) : (p \o q)[i] = p[i]
      /\ \A i \in 1 .. Len(q) : (p \o q)[Len(p) + i] = q[i]
  BY DEF Program
<1>3. ASSUME NEW i \in 1 .. Len(p) + Len(q), i \notin 1 .. Len(p)
      PROVE  \E k \in 1 .. Len(q) : i = Len(p) + k
  <2>1. i - Len(p) \in 1 .. Len(q) /\ i = Len(p) + (i - Len(p))
    BY <1>1, <1>3
  <2>2. QED
    BY <2>1
<1>4. QED
  BY <1>1, <1>2, <1>3

LEMMA PartsOf ==
  ASSUME NEW p \in Program, NEW q \in Program
  PROVE  /\ \A i \in DOMAIN p : i \in DOMAIN (p \o q) /\ i \in 1 .. Len(p) /\ (p \o q)[i] = p[i]
         /\ \A k \in DOMAIN q :
              /\ Len(p) + k \in DOMAIN (p \o q) /\ k \in 1 .. Len(q)
              /\ (p \o q)[Len(p) + k] = q[k]
         /\ \A i \in DOMAIN (p \o q) : i \in DOMAIN p \/ \E k \in DOMAIN q : i = Len(p) + k
         /\ Len(p) \in Nat /\ Len(q) \in Nat
<1> DEFINE r == p \o q
<1>1. /\ Len(p) \in Nat /\ Len(q) \in Nat /\ DOMAIN p = 1 .. Len(p) /\ DOMAIN q = 1 .. Len(q)
      /\ DOMAIN r = 1 .. Len(p) + Len(q)
      /\ \A i \in 1 .. Len(p) : r[i] = p[i]
      /\ \A i \in 1 .. Len(q) : r[Len(p) + i] = q[i]
      /\ \A i \in 1 .. Len(p) + Len(q) : i \in 1 .. Len(p) \/ \E k \in 1 .. Len(q) : i = Len(p) + k
  BY ConcatIs
<1> HIDE DEF r
<1>2. /\ \A i \in DOMAIN p : i \in DOMAIN r /\ i \in 1 .. Len(p) /\ r[i] = p[i]
      /\ \A k \in DOMAIN q :
           Len(p) + k \in DOMAIN r /\ k \in 1 .. Len(q) /\ r[Len(p) + k] = q[k]
      /\ \A i \in DOMAIN r : i \in DOMAIN p \/ \E k \in DOMAIN q : i = Len(p) + k
  <2>1. ASSUME NEW i \in DOMAIN p
        PROVE  i \in DOMAIN r /\ i \in 1 .. Len(p) /\ r[i] = p[i]
    BY <1>1
  <2>2. ASSUME NEW k \in DOMAIN q
        PROVE  Len(p) + k \in DOMAIN r /\ k \in 1 .. Len(q) /\ r[Len(p) + k] = q[k]
    <3>1. k \in 1 .. Len(q) /\ Len(p) + k \in 1 .. Len(p) + Len(q)
      BY <1>1
    <3>2. QED
      BY <1>1, <3>1
  <2>3. ASSUME NEW i \in DOMAIN r
        PROVE  i \in DOMAIN p \/ \E k \in DOMAIN q : i = Len(p) + k
    BY <1>1
  <2>4. QED
    BY <2>1, <2>2, <2>3
<1>3. QED
  BY <1>1, <1>2 DEF r

LEMMA SkipBounds ==
  ASSUME NEW p \in Program, NEW i \in DOMAIN p, p[i].do = "skip"
  PROVE  p[i].by \in Nat
<1>1. p[i] \in SafeCall
  BY DEF Program
<1>2. QED
  BY <1>1, KindIs

LEMMA PassesConcat ==
  ASSUME NEW p \in Program, NEW q \in Program, NEW given, Passes(p, given), Passes(q, given)
  PROVE  Passes(p \o q, given)
<1> DEFINE r == p \o q
<1>1. ASSUME NEW i \in 1 .. Len(p)
      PROVE  /\ r[i].do = "when" => r[i].of \in given
             /\ r[i].do = "skip" /\ r[i].of \notin given => i + r[i].by <= Len(r)
  <2>1. r[i] = p[i] /\ i \in DOMAIN p /\ Len(r) = Len(p) + Len(q) /\ Len(p) \in Nat /\ Len(q) \in Nat
    BY ConcatIs
  <2>2. p[i].do = "skip" => p[i].by \in Nat
    BY <2>1, SkipBounds
  <2> HIDE DEF r
  <2>3. QED
    BY <2>1, <2>2 DEF Passes
<1>2. ASSUME NEW k \in 1 .. Len(q)
      PROVE  /\ r[Len(p) + k].do = "when" => r[Len(p) + k].of \in given
             /\ r[Len(p) + k].do = "skip" /\ r[Len(p) + k].of \notin given =>
                  Len(p) + k + r[Len(p) + k].by <= Len(r)
  <2>1. /\ r[Len(p) + k] = q[k] /\ k \in DOMAIN q /\ Len(r) = Len(p) + Len(q) /\ Len(p) \in Nat
        /\ Len(q) \in Nat
    BY ConcatIs
  <2>2. q[k].do = "skip" => q[k].by \in Nat
    BY <2>1, SkipBounds
  <2> HIDE DEF r
  <2>3. QED
    BY <2>1, <2>2 DEF Passes
<1>3. DOMAIN r = 1 .. Len(p) + Len(q) /\ \A i \in 1 .. Len(p) + Len(q) :
              i \in 1 .. Len(p) \/ \E k \in 1 .. Len(q) : i = Len(p) + k
  BY ConcatIs
<1> HIDE DEF r
<1>4. Passes(r, given)
  BY <1>1, <1>2, <1>3 DEF Passes
<1>5. QED
  BY <1>4 DEF r

LEMMA HarmlessConcat ==
  ASSUME NEW p \in Program, NEW q \in Program, Harmless(p), Harmless(q)
  PROVE  Harmless(p \o q)
BY PartsOf DEF Harmless

\* A program that sets a setting does so before calls that remove nothing...
LEMMA SetsBefore ==
  ASSUME NEW p \in Program, NEW q \in Program, NEW given, NEW s, Sets(p, s, given), Harmless(q)
  PROVE  Sets(p \o q, s, given)
<1>1. PICK i \in DOMAIN p : SetsAt(p, s, given, i)
  BY DEF Sets
<1>2. i \in DOMAIN (p \o q) /\ i \in 1 .. Len(p) /\ (p \o q)[i] = p[i]
  BY PartsOf
<1>3. SetsAt(p \o q, s, given, i)
  <2> DEFINE r == p \o q
  <2>1. ASSUME NEW k \in DOMAIN q
        PROVE  r[Len(p) + k].do \notin Drops /\ ~ (Len(p) + k < i)
    <3>1. r[Len(p) + k] = q[k] /\ k \in 1 .. Len(q) /\ Len(q) \in Nat /\ Len(p) \in Nat
      BY PartsOf
    <3> HIDE DEF r
    <3>2. QED
      BY <1>2, <3>1 DEF Harmless
  <2>2. /\ \A j \in DOMAIN p : r[j] = p[j]
        /\ \A j \in DOMAIN r : j \in DOMAIN p \/ \E k \in DOMAIN q : j = Len(p) + k
    BY PartsOf
  <2> HIDE DEF r
  <2>3. SetsAt(r, s, given, i)
    <3>1. r[i].of = s /\ r[i].do \in Puts
      BY <1>1, <2>2 DEF SetsAt
    <3>2. ASSUME NEW j \in DOMAIN r
          PROVE  /\ j > i /\ r[j].of = s => r[j].do \notin Drops
                 /\ j < i /\ r[j].do = "when" => r[j].of \in given
                 /\ j < i /\ r[j].do = "skip" /\ r[j].of \notin given => j + r[j].by < i
      <4>1. CASE j \in DOMAIN p
        BY <1>1, <2>2, <4>1 DEF SetsAt
      <4>2. CASE \E k \in DOMAIN q : j = Len(p) + k
        BY <2>1, <4>2
      <4>3. QED
        BY <2>2, <4>1, <4>2
    <3>3. QED
      BY <3>1, <3>2 DEF SetsAt
  <2>4. QED
    BY <2>3 DEF r
<1>4. QED
  BY <1>2, <1>3 DEF Sets

\* ... and after calls that let it be reached.
LEMMA SetsAfter ==
  ASSUME NEW p \in Program, NEW q \in Program, NEW given, NEW s, Passes(p, given), Sets(q, s, given)
  PROVE  Sets(p \o q, s, given)
<1>1. PICK i \in DOMAIN q : SetsAt(q, s, given, i)
  BY DEF Sets
<1>2. /\ Len(p) + i \in DOMAIN (p \o q) /\ i \in 1 .. Len(q) /\ (p \o q)[Len(p) + i] = q[i]
      /\ Len(p) \in Nat /\ Len(q) \in Nat
  BY PartsOf
<1>3. SetsAt(p \o q, s, given, Len(p) + i)
  <2> DEFINE r == p \o q
  <2>1. ASSUME NEW j \in DOMAIN p
        PROVE  /\ ~ (j > Len(p) + i)
               /\ r[j].do = "when" => r[j].of \in given
               /\ r[j].do = "skip" /\ r[j].of \notin given => j + r[j].by < Len(p) + i
    <3>1. r[j] = p[j] /\ j \in 1 .. Len(p)
      BY PartsOf
    <3>2. p[j].do = "skip" => p[j].by \in Nat
      BY SkipBounds
    <3> HIDE DEF r
    <3>3. QED
      BY <1>2, <3>1, <3>2 DEF Passes
  <2>2. ASSUME NEW k \in DOMAIN q
        PROVE  /\ Len(p) + k > Len(p) + i /\ r[Len(p) + k].of = s => r[Len(p) + k].do \notin Drops
               /\ Len(p) + k < Len(p) + i /\ r[Len(p) + k].do = "when" => r[Len(p) + k].of \in given
               /\ Len(p) + k < Len(p) + i /\ r[Len(p) + k].do = "skip" /\ r[Len(p) + k].of \notin given =>
                    Len(p) + k + r[Len(p) + k].by < Len(p) + i
    <3>1. r[Len(p) + k] = q[k] /\ k \in 1 .. Len(q)
      BY PartsOf
    <3>2. q[k].do = "skip" => q[k].by \in Nat
      BY SkipBounds
    <3> HIDE DEF r
    <3>3. /\ Len(p) + k > Len(p) + i => k > i
          /\ Len(p) + k < Len(p) + i => k < i
      BY <1>2, <3>1
    <3>4. k < i /\ q[k].do = "skip" /\ q[k].of \notin given => Len(p) + k + q[k].by < Len(p) + i
      BY <1>1, <1>2, <3>1, <3>2, SMTT(30) DEF SetsAt
    <3>5. QED
      BY <1>1, <3>1, <3>3, <3>4 DEF SetsAt
  <2>3. \A j \in DOMAIN r : j \in DOMAIN p \/ \E k \in DOMAIN q : j = Len(p) + k
    BY PartsOf
  <2>4. r[Len(p) + i].of = s /\ r[Len(p) + i].do \in Puts
    BY <1>1, <1>2 DEF SetsAt
  <2> HIDE DEF r
  <2>5. SetsAt(r, s, given, Len(p) + i)
    <3>1. ASSUME NEW j \in DOMAIN r
          PROVE  /\ j > Len(p) + i /\ r[j].of = s => r[j].do \notin Drops
                 /\ j < Len(p) + i /\ r[j].do = "when" => r[j].of \in given
                 /\ j < Len(p) + i /\ r[j].do = "skip" /\ r[j].of \notin given =>
                      j + r[j].by < Len(p) + i
      <4>1. CASE j \in DOMAIN p
        BY <2>1, <4>1
      <4>2. CASE \E k \in DOMAIN q : j = Len(p) + k
        BY <2>2, <4>2
      <4>3. QED
        BY <2>3, <4>1, <4>2
    <3>2. QED
      BY <2>4, <3>1 DEF SetsAt
  <2>6. QED
    BY <2>5 DEF r
<1>4. QED
  BY <1>2, <1>3 DEF Sets

Plain(c) == c.do \notin {"when", "skip"}
Mild(c)  == c.do \notin Drops
Setter(c, s) == c.do \in Puts /\ c.of = s

LEMMA Fields ==
  /\ \A s : Settings!When(s).do = "when" /\ Settings!When(s).of = s /\ Mild(Settings!When(s))
  /\ \A s, n : /\ Settings!Skip(s, n).do = "skip" /\ Settings!Skip(s, n).of = s
               /\ Settings!Skip(s, n).by = n /\ Mild(Settings!Skip(s, n))
  /\ \A s : Plain(Settings!Lookup(s)) /\ Mild(Settings!Lookup(s))
  /\ \A s : Plain(Settings!Ask(s)) /\ Mild(Settings!Ask(s))
  /\ \A s : Plain(Settings!Drop(s)) /\ Settings!Drop(s).of = s
  /\ \A s : Plain(Settings!TryDrop(s)) /\ Settings!TryDrop(s).of = s
  /\ \A s : Plain(Settings!Try(s)) /\ Mild(Settings!Try(s))
BY DEF Plain, Mild, Drops, Settings!When, Settings!Skip, Settings!Lookup, Settings!Ask,
       Settings!Drop, Settings!TryDrop, Settings!Try

LEMMA PutFields ==
  /\ \A s : Setter(Settings!Put(s), s) /\ Setter(Settings!Sync(s), s)
  /\ \A s : Setter(Settings!Reconfigure(s), s) /\ Setter(Settings!Rename(s), s)
  /\ \A c, s : Setter(c, s) => Plain(c) /\ Mild(c)
BY DEF Setter, Plain, Mild, Drops, Puts, Settings!Put, Settings!Sync, Settings!Reconfigure,
       Settings!Rename

LEMMA PlainPasses ==
  /\ \A a, given : Plain(a) => Passes(<<a>>, given)
  /\ \A a, b, given : Plain(a) /\ Plain(b) => Passes(<<a, b>>, given)
  /\ \A a, b, c, given : Plain(a) /\ Plain(b) /\ Plain(c) => Passes(<<a, b, c>>, given)
  /\ \A a, b, c, d, given :
       Plain(a) /\ Plain(b) /\ Plain(c) /\ Plain(d) => Passes(<<a, b, c, d>>, given)
BY DEF Plain, Passes

LEMMA MildHarmless ==
  /\ \A a : Mild(a) => Harmless(<<a>>)
  /\ \A a, b : Mild(a) /\ Mild(b) => Harmless(<<a, b>>)
  /\ \A a, b, c : Mild(a) /\ Mild(b) /\ Mild(c) => Harmless(<<a, b, c>>)
  /\ \A a, b, c, d : Mild(a) /\ Mild(b) /\ Mild(c) /\ Mild(d) => Harmless(<<a, b, c, d>>)
BY DEF Mild, Harmless

LEMMA PutSets ==
  /\ \A a, s, given : Setter(a, s) => Sets(<<a>>, s, given)
  /\ \A a, b, s, given : Setter(a, s) /\ Mild(b) => Sets(<<a, b>>, s, given)
  /\ \A a, b, s, given : Plain(a) /\ Setter(b, s) => Sets(<<a, b>>, s, given)
  /\ \A a, b, c, s, given : Plain(a) /\ Setter(b, s) /\ Mild(c) => Sets(<<a, b, c>>, s, given)
  /\ \A a, b, c, s, given : Plain(a) /\ Plain(b) /\ Setter(c, s) => Sets(<<a, b, c>>, s, given)
  /\ \A a, b, c, d, s, given :
       Setter(a, s) /\ Mild(b) /\ Mild(c) /\ Mild(d) => Sets(<<a, b, c, d>>, s, given)
  /\ \A a, b, c, d, s, given :
       Plain(a) /\ Plain(b) /\ Setter(c, s) /\ Mild(d) => Sets(<<a, b, c, d>>, s, given)
  /\ \A a, b, c, d, s, given :
       Plain(a) /\ Plain(b) /\ Plain(c) /\ Setter(d, s) => Sets(<<a, b, c, d>>, s, given)
<1>1. ASSUME NEW a, NEW s, NEW given, Setter(a, s)
      PROVE  Sets(<<a>>, s, given)
  <2> DEFINE p == <<a>>
  <2>1. DOMAIN p = 1 .. 1 /\ p[1] = a
    OBVIOUS
  <2> HIDE DEF p
  <2>2. SetsAt(p, s, given, 1)
    BY <1>1, <2>1 DEF SetsAt, Plain, Mild, Setter
  <2>3. Sets(p, s, given)
    BY <2>1, <2>2 DEF Sets
  <2>4. QED
    BY <2>3 DEF p
<1>2. ASSUME NEW a, NEW b, NEW s, NEW given, Setter(a, s), Mild(b)
      PROVE  Sets(<<a, b>>, s, given)
  <2> DEFINE p == <<a, b>>
  <2>1. DOMAIN p = 1 .. 2 /\ p[1] = a /\ p[2] = b
    OBVIOUS
  <2> HIDE DEF p
  <2>2. SetsAt(p, s, given, 1)
    BY <1>2, <2>1 DEF SetsAt, Plain, Mild, Setter
  <2>3. Sets(p, s, given)
    BY <2>1, <2>2 DEF Sets
  <2>4. QED
    BY <2>3 DEF p
<1>3. ASSUME NEW a, NEW b, NEW s, NEW given, Plain(a), Setter(b, s)
      PROVE  Sets(<<a, b>>, s, given)
  <2> DEFINE p == <<a, b>>
  <2>1. DOMAIN p = 1 .. 2 /\ p[1] = a /\ p[2] = b
    OBVIOUS
  <2> HIDE DEF p
  <2>2. SetsAt(p, s, given, 2)
    BY <1>3, <2>1 DEF SetsAt, Plain, Mild, Setter
  <2>3. Sets(p, s, given)
    BY <2>1, <2>2 DEF Sets
  <2>4. QED
    BY <2>3 DEF p
<1>4. ASSUME NEW a, NEW b, NEW c, NEW s, NEW given, Plain(a), Setter(b, s), Mild(c)
      PROVE  Sets(<<a, b, c>>, s, given)
  <2> DEFINE p == <<a, b, c>>
  <2>1. DOMAIN p = 1 .. 3 /\ p[1] = a /\ p[2] = b /\ p[3] = c
    OBVIOUS
  <2> HIDE DEF p
  <2>2. SetsAt(p, s, given, 2)
    BY <1>4, <2>1 DEF SetsAt, Plain, Mild, Setter
  <2>3. Sets(p, s, given)
    BY <2>1, <2>2 DEF Sets
  <2>4. QED
    BY <2>3 DEF p
<1>5. ASSUME NEW a, NEW b, NEW c, NEW s, NEW given, Plain(a), Plain(b), Setter(c, s)
      PROVE  Sets(<<a, b, c>>, s, given)
  <2> DEFINE p == <<a, b, c>>
  <2>1. DOMAIN p = 1 .. 3 /\ p[1] = a /\ p[2] = b /\ p[3] = c
    OBVIOUS
  <2> HIDE DEF p
  <2>2. SetsAt(p, s, given, 3)
    BY <1>5, <2>1 DEF SetsAt, Plain, Mild, Setter
  <2>3. Sets(p, s, given)
    BY <2>1, <2>2 DEF Sets
  <2>4. QED
    BY <2>3 DEF p
<1>6. ASSUME NEW a, NEW b, NEW c, NEW d, NEW s, NEW given, Setter(a, s), Mild(b), Mild(c), Mild(d)
      PROVE  Sets(<<a, b, c, d>>, s, given)
  <2> DEFINE p == <<a, b, c, d>>
  <2>1. DOMAIN p = 1 .. 4 /\ p[1] = a /\ p[2] = b /\ p[3] = c /\ p[4] = d
    OBVIOUS
  <2> HIDE DEF p
  <2>2. SetsAt(p, s, given, 1)
    BY <1>6, <2>1 DEF SetsAt, Plain, Mild, Setter
  <2>3. Sets(p, s, given)
    BY <2>1, <2>2 DEF Sets
  <2>4. QED
    BY <2>3 DEF p
<1>7. ASSUME NEW a, NEW b, NEW c, NEW d, NEW s, NEW given, Plain(a), Plain(b), Setter(c, s), Mild(d)
      PROVE  Sets(<<a, b, c, d>>, s, given)
  <2> DEFINE p == <<a, b, c, d>>
  <2>1. DOMAIN p = 1 .. 4 /\ p[1] = a /\ p[2] = b /\ p[3] = c /\ p[4] = d
    OBVIOUS
  <2> HIDE DEF p
  <2>2. SetsAt(p, s, given, 3)
    BY <1>7, <2>1 DEF SetsAt, Plain, Mild, Setter
  <2>3. Sets(p, s, given)
    BY <2>1, <2>2 DEF Sets
  <2>4. QED
    BY <2>3 DEF p
<1>8. ASSUME NEW a, NEW b, NEW c, NEW d, NEW s, NEW given, Plain(a), Plain(b), Plain(c), Setter(d, s)
      PROVE  Sets(<<a, b, c, d>>, s, given)
  <2> DEFINE p == <<a, b, c, d>>
  <2>1. DOMAIN p = 1 .. 4 /\ p[1] = a /\ p[2] = b /\ p[3] = c /\ p[4] = d
    OBVIOUS
  <2> HIDE DEF p
  <2>2. SetsAt(p, s, given, 4)
    BY <1>8, <2>1 DEF SetsAt, Plain, Mild, Setter
  <2>3. Sets(p, s, given)
    BY <2>1, <2>2 DEF Sets
  <2>4. QED
    BY <2>3 DEF p
<1>9. QED
  BY <1>1, <1>2, <1>3, <1>4, <1>5, <1>6, <1>7, <1>8

LEMMA WhenPasses ==
  ASSUME NEW s, NEW given, s \in given
  PROVE  Passes(<<Settings!When(s)>>, given) /\ \A n : Passes(<<Settings!Skip(s, n)>>, given)
BY DEF Passes, Settings!When, Settings!Skip

\* A call that skips the calls that follow lets what comes after them be reached.
LEMMA SkipPasses ==
  ASSUME NEW p \in Program, NEW q \in Program, NEW given, NEW s,
         Passes(p, given), Passes(q, given), <<Settings!Skip(s, Len(q))>> \in Program
  PROVE  Passes((p \o <<Settings!Skip(s, Len(q))>>) \o q, given)
<1> DEFINE jump == <<Settings!Skip(s, Len(q))>>
           first == p \o jump
           all == first \o q
<1>0. jump \in Program /\ Len(jump) = 1 /\ DOMAIN jump = 1 .. 1 /\ jump[1] = Settings!Skip(s, Len(q))
  OBVIOUS
<1> HIDE DEF jump
<1>1. first \in Program /\ Len(first) = Len(p) + 1 /\ Len(p) \in Nat /\ Len(q) \in Nat
  <2>1. first \in Program /\ Len(first) = Len(p) + Len(jump) /\ Len(p) \in Nat
    BY <1>0, ConcatIs
  <2>2. Len(q) \in Nat
    BY DEF Program
  <2> HIDE DEF first
  <2>3. QED
    BY <1>0, <2>1, <2>2
<1>2. /\ \A i \in DOMAIN p : i \in DOMAIN first /\ i \in 1 .. Len(p) /\ first[i] = p[i]
      /\ Len(p) + 1 \in DOMAIN first /\ first[Len(p) + 1] = Settings!Skip(s, Len(q))
      /\ \A i \in DOMAIN first : i \in DOMAIN p \/ i = Len(p) + 1
  <2>1. 1 \in DOMAIN jump
    BY <1>0
  <2>2. /\ \A i \in DOMAIN p : i \in DOMAIN first /\ i \in 1 .. Len(p) /\ first[i] = p[i]
        /\ Len(p) + 1 \in DOMAIN first /\ first[Len(p) + 1] = jump[1]
        /\ \A i \in DOMAIN first : i \in DOMAIN p \/ \E k \in DOMAIN jump : i = Len(p) + k
    BY <1>0, <2>1, PartsOf
  <2>3. QED
    BY <1>0, <2>2
<1> HIDE DEF first
<1>3. Len(all) = Len(p) + 1 + Len(q)
  <2>1. Len(all) = Len(first) + Len(q)
    BY <1>1, ConcatIs
  <2> HIDE DEF all
  <2>2. QED
    BY <1>1, <2>1
<1>4. /\ \A i \in DOMAIN first : all[i] = first[i]
      /\ \A k \in DOMAIN q : k \in 1 .. Len(q) /\ all[Len(p) + 1 + k] = q[k]
      /\ \A i \in DOMAIN all : i \in DOMAIN first \/ \E k \in DOMAIN q : i = Len(p) + 1 + k
  <2>1. /\ \A i \in DOMAIN first : all[i] = first[i]
        /\ \A k \in DOMAIN q : k \in 1 .. Len(q) /\ all[Len(first) + k] = q[k]
        /\ \A i \in DOMAIN all : i \in DOMAIN first \/ \E k \in DOMAIN q : i = Len(first) + k
    BY <1>1, PartsOf
  <2> HIDE DEF all
  <2>2. QED
    BY <1>1, <2>1
<1> HIDE DEF all
<1>5. ASSUME NEW i \in DOMAIN all
      PROVE  /\ all[i].do = "when" => all[i].of \in given
             /\ all[i].do = "skip" /\ all[i].of \notin given => i + all[i].by <= Len(all)
  <2>1. CASE i \in DOMAIN p
    <3>1. all[i] = p[i] /\ i \in 1 .. Len(p)
      BY <1>2, <1>4, <2>1
    <3>2. p[i].do = "skip" => p[i].by \in Nat
      BY <2>1, SkipBounds
    <3>3. QED
      BY <1>1, <1>3, <2>1, <3>1, <3>2 DEF Passes
  <2>2. CASE i = Len(p) + 1
    <3>1. all[i] = Settings!Skip(s, Len(q))
      BY <1>2, <1>4, <2>2
    <3>2. QED
      BY <1>1, <1>3, <2>2, <3>1 DEF Settings!Skip
  <2>3. CASE \E k \in DOMAIN q : i = Len(p) + 1 + k
    <3>1. PICK k \in DOMAIN q : i = Len(p) + 1 + k
      BY <2>3
    <3>2. all[i] = q[k] /\ k \in 1 .. Len(q)
      BY <1>4, <3>1
    <3>3. q[k].do = "skip" => q[k].by \in Nat
      BY SkipBounds
    <3>4. q[k].do = "skip" /\ q[k].of \notin given => k + q[k].by <= Len(q)
      BY DEF Passes
    <3>5. q[k].do = "when" => q[k].of \in given
      BY DEF Passes
    <3>6. QED
      BY <1>1, <1>3, <3>1, <3>2, <3>3, <3>4, <3>5
  <2>4. QED
    BY <1>2, <1>4, <2>1, <2>2, <2>3
<1>6. Passes(all, given)
  BY <1>5 DEF Passes
<1>7. QED
  BY <1>6 DEF all, first, jump

\* The facts about what two programs do one after the other.
LEMMA Joined ==
  /\ \A p, q \in Program : \A given : Passes(p, given) /\ Passes(q, given) => Passes(p \o q, given)
  /\ \A p, q \in Program : Harmless(p) /\ Harmless(q) => Harmless(p \o q)
  /\ \A p, q \in Program : \A given, s : Sets(p, s, given) /\ Harmless(q) => Sets(p \o q, s, given)
  /\ \A p, q \in Program : \A given, s : Passes(p, given) /\ Sets(q, s, given) => Sets(p \o q, s, given)
BY PassesConcat, HarmlessConcat, SetsBefore, SetsAfter

LEMMA KeepsConcat ==
  /\ \A p, q \in Program : \A s : Keeps(p, s) /\ Keeps(q, s) => Keeps(p \o q, s)
  /\ \A p \in Program : \A s : Harmless(p) => Keeps(p, s)
<1>1. ASSUME NEW p \in Program, NEW q \in Program, NEW s, Keeps(p, s), Keeps(q, s)
      PROVE  Keeps(p \o q, s)
  BY <1>1, PartsOf DEF Keeps
<1>2. QED
  BY <1>1 DEF Keeps, Harmless

\* Calls that skip nothing, after a first one that skips n of them.
Straight(program) == \A i \in DOMAIN program : Plain(program[i])
Leads(program, n) ==
  /\ 1 \in DOMAIN program /\ program[1].do = "skip" /\ program[1].by = n
  /\ \A i \in DOMAIN program : i > 1 => Plain(program[i])

LEMMA StraightCalls ==
  /\ \A a : Plain(a) => Straight(<<a>>)
  /\ \A a, b : Plain(a) /\ Plain(b) => Straight(<<a, b>>)
  /\ \A a, b, c : Plain(a) /\ Plain(b) /\ Plain(c) => Straight(<<a, b, c>>)
  /\ \A s, n : Leads(<<Settings!Skip(s, n)>>, n)
  /\ \A s, n, a : Plain(a) => Leads(<<Settings!Skip(s, n), a>>, n)
<1>1. ASSUME NEW s, NEW n, NEW a, Plain(a)
      PROVE  Leads(<<Settings!Skip(s, n), a>>, n)
  <2> DEFINE p == <<Settings!Skip(s, n), a>>
  <2>1. DOMAIN p = 1 .. 2 /\ p[1] = Settings!Skip(s, n) /\ p[2] = a
    OBVIOUS
  <2> HIDE DEF p
  <2>2. Leads(p, n)
    BY <1>1, <2>1, Fields DEF Leads
  <2>3. QED
    BY <2>2 DEF p
<1>2. ASSUME NEW s, NEW n
      PROVE  Leads(<<Settings!Skip(s, n)>>, n)
  <2> DEFINE p == <<Settings!Skip(s, n)>>
  <2>1. DOMAIN p = 1 .. 1 /\ p[1] = Settings!Skip(s, n)
    OBVIOUS
  <2> HIDE DEF p
  <2>2. Leads(p, n)
    BY <2>1, Fields DEF Leads
  <2>3. QED
    BY <2>2 DEF p
<1>3. QED
  BY <1>1, <1>2 DEF Straight

LEMMA LeadsOn ==
  ASSUME NEW p \in Program, NEW q \in Program, NEW n, Leads(p, n), Straight(q)
  PROVE  Leads(p \o q, n) /\ p \o q \in Program /\ Len(p \o q) = Len(p) + Len(q)
<1> DEFINE r == p \o q
<1>1. /\ \A i \in DOMAIN p : i \in DOMAIN r /\ r[i] = p[i]
      /\ \A k \in DOMAIN q : r[Len(p) + k] = q[k]
      /\ \A i \in DOMAIN r : i \in DOMAIN p \/ \E k \in DOMAIN q : i = Len(p) + k
  BY PartsOf
<1>2. r \in Program /\ Len(r) = Len(p) + Len(q)
  BY ConcatIs
<1> HIDE DEF r
<1>3. 1 \in DOMAIN r /\ r[1].do = "skip" /\ r[1].by = n
  BY <1>1 DEF Leads
<1>4. \A i \in DOMAIN r : i > 1 => Plain(r[i])
  BY <1>1 DEF Leads, Straight
<1>5. Leads(r, n) /\ r \in Program /\ Len(r) = Len(p) + Len(q)
  BY <1>2, <1>3, <1>4 DEF Leads
<1>6. QED
  BY <1>5 DEF r

LEMMA StraightConcat ==
  \A p, q \in Program : Straight(p) /\ Straight(q) => Straight(p \o q)
BY PartsOf DEF Straight

LEMMA WantedPasses ==
  \A s, n, a, given : s \in given /\ Plain(a) => Passes(<<Settings!Skip(s, n), a>>, given)
<1>1. ASSUME NEW s, NEW n, NEW a, NEW given, s \in given, Plain(a)
      PROVE  Passes(<<Settings!Skip(s, n), a>>, given)
  <2> DEFINE p == <<Settings!Skip(s, n), a>>
  <2>1. DOMAIN p = 1 .. 2 /\ p[1] = Settings!Skip(s, n) /\ p[2] = a
    OBVIOUS
  <2> HIDE DEF p
  <2>2. Passes(p, given)
    BY <1>1, <2>1, Fields DEF Passes, Plain
  <2>3. QED
    BY <2>2 DEF p
<1>2. QED
  BY <1>1

LEMMA LeadPasses ==
  ASSUME NEW p \in Program, NEW n \in Nat, Leads(p, n), n < Len(p), NEW given
  PROVE  Passes(p, given)
BY DEF Leads, Passes, Plain

-----------------------------------------------------------------------------
(* Every plugin sets what it is there for. *)

LEMMA SetOfHost ==
  ASSUME NEW given, NEW s \in Settings!Promised["SetHostName"] \cap given
  PROVE  Sets(Settings!SetHostName, s, given)
<1>1. s = "hostname" /\ "hostname" \in given
  BY DEF Settings!Promised
<1>2. <<Settings!When("hostname")>> \in Program /\ <<Settings!Rename("hostname")>> \in Program
  BY BootNames, CallKinds, Programs, Zenon
<1>3. Passes(<<Settings!When("hostname")>>, given)
  BY <1>1, WhenPasses
<1>4. Sets(<<Settings!Rename("hostname")>>, "hostname", given)
  BY PutFields, PutSets, Zenon
<1>5. QED
  BY <1>1, <1>2, <1>3, <1>4, Joined, Zenon DEF Settings!SetHostName, Settings!HostName

LEMMA SetOfFiles ==
  ASSUME NEW given, NEW s \in Settings!Promised["SanPolicy"] \cap given
  PROVE  Sets(Settings!SanPolicy, s, given)
<1>1. s = "san" /\ "san" \in given
  BY DEF Settings!Promised
<1>2. <<Settings!When("san")>> \in Program /\ Settings!VdsSanPolicy \in Program
  BY NamesAtOnce, CallKinds, Programs, Zenon DEF Settings!VdsSanPolicy
<1>3. Passes(<<Settings!When("san")>>, given)
  BY <1>1, WhenPasses
<1>4. Sets(Settings!VdsSanPolicy, "san", given)
  BY Fields, PutFields, PutSets, Zenon DEF Settings!VdsSanPolicy
<1>5. QED
  BY <1>1, <1>2, <1>3, <1>4, Joined, Zenon DEF Settings!SanPolicy

LEMMA SetAtOnce ==
  ASSUME NEW given
  PROVE  /\ Sets(Settings!RDPSettings, "keepalive", given)
         /\ Sets(Settings!RDPSettings, "keepalive interval", given)
         /\ Sets(Settings!DisplayIdleTimeout, "video idle", given)
         /\ Sets(Settings!Trim, "trim", given)
         /\ Sets(Settings!Bcdedit, "boot status", given)
         /\ Sets(Settings!AutomaticUpdates, "updates", given)
<1>1. Sets(Settings!RDPSettings, "keepalive", given)
  BY PutFields, PutSets, Zenon DEF Settings!RDPSettings, Settings!KeepAlive
<1>2. Sets(Settings!RDPSettings, "keepalive interval", given)
  BY PutFields, PutSets, Zenon DEF Settings!RDPSettings, Settings!KeepAlive
<1>3. Sets(Settings!DisplayIdleTimeout, "video idle", given)
  BY PutFields, PutSets, Zenon DEF Settings!DisplayIdleTimeout, Settings!PowerCfg
<1>4. Sets(Settings!Trim, "trim", given)
  BY PutFields, PutSets, Zenon DEF Settings!Trim, Settings!Fsutil
<1>5. Sets(Settings!Bcdedit, "boot status", given)
  BY PutFields, PutSets, Zenon DEF Settings!Bcdedit
<1>6. Sets(Settings!AutomaticUpdates, "updates", given)
  BY PutFields, PutSets, Zenon DEF Settings!AutomaticUpdates
<1>7. QED
  BY <1>1, <1>2, <1>3, <1>4, <1>5, <1>6

LEMMA SetOfDesktop ==
  ASSUME NEW given
  PROVE  /\ "thumbprint" \in given =>
              Sets(Settings!RDPPostCertificateThumbprint, "thumbprint", given)
         /\ "boot status" \in given => Sets(Settings!BootStatusPolicy, "boot status", given)
         /\ "updates" \in given => Sets(Settings!WindowsAutoUpdates, "updates", given)
<1>1. /\ <<Settings!When("thumbprint")>> \in Program /\ Settings!Thumbprint \in Program
      /\ <<Settings!Put("thumbprint")>> \in Program
  BY NamesAtOnce, CallKinds, Programs, Zenon DEF Settings!Thumbprint
<1>2. /\ <<Settings!When("boot status")>> \in Program /\ Settings!Bcdedit \in Program
      /\ <<Settings!When("updates")>> \in Program /\ Settings!AutomaticUpdates \in Program
  BY NamesAtOnce, CallKinds, Programs, Zenon DEF Settings!Bcdedit, Settings!AutomaticUpdates
<1>3. Passes(Settings!Thumbprint, given) /\ Sets(<<Settings!Put("thumbprint")>>, "thumbprint", given)
  BY Fields, PutFields, PlainPasses, PutSets, Zenon DEF Settings!Thumbprint
<1>4. ASSUME "thumbprint" \in given
      PROVE  Sets(Settings!RDPPostCertificateThumbprint, "thumbprint", given)
  <2>1. Passes(<<Settings!When("thumbprint")>>, given)
    BY <1>4, WhenPasses
  <2>2. /\ <<Settings!When("thumbprint")>> \o Settings!Thumbprint \in Program
        /\ Passes(<<Settings!When("thumbprint")>> \o Settings!Thumbprint, given)
    BY <1>1, <1>3, <2>1, Joined, Programs, Zenon
  <2>3. QED
    BY <1>1, <1>3, <2>2, Joined, Zenon DEF Settings!RDPPostCertificateThumbprint
<1>5. ASSUME "boot status" \in given PROVE Sets(Settings!BootStatusPolicy, "boot status", given)
  <2>1. Passes(<<Settings!When("boot status")>>, given)
    BY <1>5, WhenPasses
  <2>2. QED
    BY <1>2, <2>1, SetAtOnce, Joined, Zenon DEF Settings!BootStatusPolicy
<1>6. ASSUME "updates" \in given PROVE Sets(Settings!WindowsAutoUpdates, "updates", given)
  <2>1. Passes(<<Settings!When("updates")>>, given)
    BY <1>6, WhenPasses
  <2>2. QED
    BY <1>2, <2>1, SetAtOnce, Joined, Zenon DEF Settings!WindowsAutoUpdates
<1>7. QED
  BY <1>4, <1>5, <1>6

LEMMA SetOfUser ==
  ASSUME NEW given
  PROVE  /\ "ssh keys" \in given => Sets(Settings!SSHPublicKeys, "ssh keys", given)
         /\ {"warning", "warning path"} \subseteq given => Sets(Settings!EphemeralDisk, "warning", given)
<1>1. ASSUME "ssh keys" \in given
      PROVE  Sets(Settings!SSHPublicKeys, "ssh keys", given)
  <2> DEFINE p == <<Settings!When("ssh keys")>>
             q == <<Settings!Ask("ssh folder"), Settings!Drop("ssh keys"), Settings!Put("ssh keys")>>
  <2>1. p \in Program /\ Settings!UserHome \in Program /\ q \in Program
    BY NamesAtOnce, CallKinds, Programs, Zenon DEF Settings!UserHome
  <2>2. Passes(p, given)
    BY <1>1, WhenPasses
  <2>3. Passes(Settings!UserHome, given)
    BY Fields, PlainPasses, Zenon DEF Settings!UserHome
  <2>4. Sets(q, "ssh keys", given)
    BY Fields, PutFields, PutSets, Zenon
  <2> HIDE DEF p, q
  <2>5. p \o Settings!UserHome \in Program /\ Passes(p \o Settings!UserHome, given)
    BY <2>1, <2>2, <2>3, Joined, Programs, Zenon
  <2>6. Sets((p \o Settings!UserHome) \o q, "ssh keys", given)
    BY <2>1, <2>4, <2>5, Joined, Zenon
  <2>7. QED
    BY <2>6 DEF p, q, Settings!SSHPublicKeys
<1>2. ASSUME {"warning", "warning path"} \subseteq given
      PROVE  Sets(Settings!EphemeralDisk, "warning", given)
  <2> DEFINE p == <<Settings!When("warning")>>
             q == <<Settings!Skip("warning path", 3)>>
             first == (p \o Settings!EphemeralVolume) \o q
  <2>1. /\ p \in Program /\ Settings!EphemeralVolume \in Program /\ q \in Program
        /\ Settings!Warning \in Program
    BY NamesAtOnce, NumbersAre, CallKinds, Programs, Zenon
    DEF Settings!EphemeralVolume, Settings!MountPoints, Settings!Labels, Settings!Warning
  <2>2. Passes(p, given) /\ Passes(q, given)
    BY <1>2, WhenPasses
  <2>3. Passes(Settings!EphemeralVolume, given)
    <3>1. /\ Settings!MountPoints \in Program /\ Settings!Labels \in Program
          /\ Passes(Settings!MountPoints, given) /\ Passes(Settings!Labels, given)
      BY NamesAtOnce, CallKinds, Programs, Fields, PlainPasses, Zenon
      DEF Settings!MountPoints, Settings!Labels
    <3>2. QED
      BY <3>1, Joined, Zenon DEF Settings!EphemeralVolume
  <2>4. Sets(Settings!Warning, "warning", given)
    BY Fields, PutFields, PutSets, Zenon DEF Settings!Warning
  <2> HIDE DEF p, q
  <2>5. p \o Settings!EphemeralVolume \in Program /\ Passes(p \o Settings!EphemeralVolume, given)
    BY <2>1, <2>2, <2>3, Joined, Programs, Zenon
  <2>6. first \in Program /\ Passes(first, given)
    BY <2>1, <2>2, <2>5, Joined, Programs, Zenon
  <2> HIDE DEF first
  <2>7. Sets(first \o Settings!Warning, "warning", given)
    BY <2>1, <2>4, <2>6, Joined, Zenon
  <2>8. QED
    BY <2>7 DEF first, p, q, Settings!EphemeralDisk
<1>3. QED
  BY <1>1, <1>2

LEMMA SetOfLicense ==
  ASSUME NEW given, "licensing" \in given
  PROVE  /\ "product key" \in given => Sets(Settings!WindowsLicensing, "product key", given)
         /\ "kms host" \in given => Sets(Settings!WindowsLicensing, "kms host", given)
         /\ "activation" \in given => Sets(Settings!WindowsLicensing, "activation", given)
<1> DEFINE begin == <<Settings!When("licensing")>>
           key == <<Settings!Skip("product key", 3)>>
           kms == <<Settings!Skip("kms host", 2)>>
           act == <<Settings!Skip("activation", 1)>>
           end == <<Settings!Ask("license")>>
<1>1. /\ begin \in Program /\ key \in Program /\ kms \in Program /\ act \in Program
      /\ end \in Program /\ Settings!Slmgr \in Program /\ Settings!KmsMachine \in Program
  BY NamesAtOnce, NumbersAre, CallKinds, Programs, Zenon DEF Settings!Slmgr, Settings!KmsMachine
<1>2. /\ Settings!KmsProduct \in Program /\ Settings!KeyTable \in Program
      /\ Settings!InstallKey \in Program
  BY NamesAtOnce, CallKinds, Programs, Zenon
  DEF Settings!KmsProduct, Settings!KeyTable, Settings!InstallKey
<1>3. /\ Straight(Settings!KmsProduct) /\ Straight(Settings!KeyTable)
      /\ Straight(Settings!InstallKey) /\ Straight(Settings!KmsMachine)
  BY Fields, PutFields, StraightCalls, Zenon
  DEF Settings!KmsProduct, Settings!KeyTable, Settings!InstallKey, Settings!KmsMachine
<1>4. /\ Harmless(begin) /\ Harmless(key) /\ Harmless(kms) /\ Harmless(act) /\ Harmless(end)
      /\ Harmless(Settings!Slmgr) /\ Harmless(Settings!KmsMachine)
      /\ Harmless(Settings!InstallKey)
  BY Fields, PutFields, MildHarmless, Zenon
  DEF Settings!Slmgr, Settings!KmsMachine, Settings!InstallKey
<1>5. Leads(key, 3) /\ Leads(kms, 2) /\ Leads(act, 1)
  BY StraightCalls, Zenon
<1>6. /\ Len(key) = 1 /\ Len(kms) = 1 /\ Len(Settings!KmsProduct) = 1
      /\ Len(Settings!KeyTable) = 1 /\ Len(Settings!InstallKey) = 1 /\ Len(Settings!KmsMachine) = 2
  BY DEF Settings!KmsProduct, Settings!KeyTable, Settings!InstallKey, Settings!KmsMachine
<1>7. Passes(begin, given)
  BY WhenPasses
<1>8. "product key" \in given => Passes(key, given)
  BY WhenPasses
<1>9. "kms host" \in given => Passes(kms, given)
  BY WhenPasses
<1>10. "activation" \in given => Passes(act, given)
  BY WhenPasses
<1>11. /\ Sets(Settings!InstallKey, "product key", given) /\ Sets(Settings!KmsMachine, "kms host", given)
       /\ Sets(Settings!Slmgr, "activation", given)
  BY PutFields, PutSets, Zenon DEF Settings!InstallKey, Settings!KmsMachine, Settings!Slmgr
<1>12. Settings!ProductKey = ((key \o Settings!KmsProduct) \o Settings!KeyTable) \o Settings!InstallKey
  BY DEF Settings!ProductKey
<1>13. Settings!KmsHost = kms \o Settings!KmsMachine
  BY DEF Settings!KmsHost
<1>14. Settings!WindowsLicensing =
         ((((begin \o Settings!ProductKey) \o Settings!KmsHost) \o act) \o Settings!Slmgr) \o end
  BY DEF Settings!WindowsLicensing
<1> HIDE DEF begin, key, kms, act, end
<1>15. /\ Settings!ProductKey \in Program /\ Passes(Settings!ProductKey, given)
       /\ "product key" \in given => Sets(Settings!ProductKey, "product key", given)
  <2> DEFINE one == key \o Settings!KmsProduct
             two == one \o Settings!KeyTable
             three == two \o Settings!InstallKey
  <2>1. one \in Program /\ Leads(one, 3) /\ Len(one) = Len(key) + Len(Settings!KmsProduct)
    BY <1>1, <1>2, <1>3, <1>5, LeadsOn
  <2> HIDE DEF one
  <2>2. two \in Program /\ Leads(two, 3) /\ Len(two) = Len(one) + Len(Settings!KeyTable)
    BY <1>2, <1>3, <2>1, LeadsOn
  <2> HIDE DEF two
  <2>3. three \in Program /\ Leads(three, 3) /\ Len(three) = Len(two) + Len(Settings!InstallKey)
    BY <1>2, <1>3, <2>2, LeadsOn
  <2> HIDE DEF three
  <2>4. Passes(three, given)
    <3>1. 3 < Len(three)
      BY <1>6, <2>1, <2>2, <2>3
    <3>2. QED
      BY <2>3, <3>1, LeadPasses
  <2>5. ASSUME "product key" \in given
        PROVE  Sets(two \o Settings!InstallKey, "product key", given)
    <3>1. Passes(Settings!KmsProduct, given) /\ Passes(Settings!KeyTable, given)
      BY Fields, PlainPasses, Zenon DEF Settings!KmsProduct, Settings!KeyTable
    <3>2. Passes(one, given)
      BY <1>1, <1>2, <1>8, <2>5, <3>1, Joined, Zenon DEF one
    <3>3. Passes(two, given)
      BY <1>2, <2>1, <3>1, <3>2, Joined, Zenon DEF two
    <3>4. QED
      BY <1>2, <1>11, <2>2, <3>3, Joined, Zenon
  <2>6. Settings!ProductKey = three
    BY <1>12 DEF one, two, three
  <2>7. Settings!ProductKey = two \o Settings!InstallKey
    BY <2>6 DEF three
  <2>8. QED
    BY <2>3, <2>4, <2>5, <2>6, <2>7
<1>16. /\ Settings!KmsHost \in Program /\ Passes(Settings!KmsHost, given) /\ Harmless(Settings!KmsHost)
       /\ "kms host" \in given => Sets(Settings!KmsHost, "kms host", given)
  <2> DEFINE all == kms \o Settings!KmsMachine
  <2>1. all \in Program /\ Leads(all, 2) /\ Len(all) = Len(kms) + Len(Settings!KmsMachine)
    BY <1>1, <1>3, <1>5, LeadsOn
  <2>2. Harmless(all) /\ ("kms host" \in given => Sets(all, "kms host", given))
    BY <1>1, <1>4, <1>9, <1>11, Joined, Zenon
  <2> HIDE DEF all
  <2>3. Passes(all, given)
    <3>1. 2 < Len(all)
      BY <1>6, <2>1
    <3>2. QED
      BY <2>1, <3>1, LeadPasses
  <2>4. QED
    BY <1>13, <2>1, <2>2, <2>3 DEF all
<1>17. /\ begin \o Settings!ProductKey \in Program /\ Passes(begin \o Settings!ProductKey, given)
       /\ "product key" \in given => Sets(begin \o Settings!ProductKey, "product key", given)
  BY <1>1, <1>7, <1>15, Joined, Programs, Zenon
<1> DEFINE lead == begin \o Settings!ProductKey
           host == lead \o Settings!KmsHost
           skip == host \o act
           run == skip \o Settings!Slmgr
<1> HIDE DEF lead
<1>18. /\ lead \in Program /\ Passes(lead, given)
       /\ "product key" \in given => Sets(lead, "product key", given)
  BY <1>17 DEF lead
<1>19. /\ host \in Program /\ Passes(host, given)
       /\ "product key" \in given => Sets(host, "product key", given)
       /\ "kms host" \in given => Sets(host, "kms host", given)
  BY <1>16, <1>18, Joined, Programs, Zenon
<1> HIDE DEF host
<1>20. /\ skip \in Program /\ ("activation" \in given => Passes(skip, given))
       /\ "product key" \in given => Sets(skip, "product key", given)
       /\ "kms host" \in given => Sets(skip, "kms host", given)
  BY <1>1, <1>4, <1>10, <1>19, Joined, Programs, Zenon
<1> HIDE DEF skip
<1>21. /\ run \in Program
       /\ "product key" \in given => Sets(run, "product key", given)
       /\ "kms host" \in given => Sets(run, "kms host", given)
       /\ "activation" \in given => Sets(run, "activation", given)
  BY <1>1, <1>4, <1>11, <1>20, Joined, Programs, Zenon
<1> HIDE DEF run
<1>22. /\ "product key" \in given => Sets(run \o end, "product key", given)
       /\ "kms host" \in given => Sets(run \o end, "kms host", given)
       /\ "activation" \in given => Sets(run \o end, "activation", given)
  BY <1>1, <1>4, <1>21, Joined, Zenon
<1>23. Settings!WindowsLicensing = run \o end
  BY <1>14 DEF lead, host, skip, run
<1>24. QED
  BY <1>22, <1>23

LEMMA SetOfBoot ==
  ASSUME NEW given
  PROVE  /\ Sets(Settings!BCDConfig, "auto recovery", given)
         /\ "disk id" \in given =>
              /\ Sets(Settings!BCDConfig, "os device", given)
              /\ Sets(Settings!BCDConfig, "application device", given)
              /\ Sets(Settings!BCDConfig, "disk id", given)
<1> DEFINE n == 1 + Len(Settings!BootPartition) + Len(Settings!UniqueDiskId)
           begin == <<Settings!Skip("disk id", n), Settings!Ask("boot volumes")>>
           boot == <<Settings!Put("os device"), Settings!Put("application device")>>
           auto == <<Settings!Put("auto recovery"), Settings!Ask("auto recovery")>>
<1>1. /\ Settings!CurrentStore \in Program /\ boot \in Program
      /\ Settings!UniqueDiskId \in Program /\ auto \in Program
  BY NamesAtOnce, CallKinds, Programs, Zenon DEF Settings!CurrentStore, Settings!UniqueDiskId
<1>2. Settings!BootPartition \in Program /\ Settings!AutoRecovery \in Program
  BY <1>1, Programs, Zenon DEF Settings!BootPartition, Settings!AutoRecovery
<1>3. n \in Nat /\ Len(Settings!BootPartition) \in Nat /\ Len(Settings!UniqueDiskId) \in Nat
  <2>1. Len(Settings!BootPartition) \in Nat /\ Len(Settings!UniqueDiskId) \in Nat
    BY <1>1, <1>2, Programs, Zenon
  <2> HIDE DEF begin, boot, auto
  <2>2. QED
    BY <2>1
<1> HIDE DEF n
<1>4. begin \in Program
  BY <1>3, NamesAtOnce, CallKinds, Programs, Zenon
<1>5. /\ Straight(Settings!CurrentStore) /\ Straight(boot) /\ Straight(Settings!UniqueDiskId)
      /\ Leads(begin, n)
  BY Fields, PutFields, StraightCalls, Zenon DEF Settings!CurrentStore, Settings!UniqueDiskId
<1>6. Straight(Settings!BootPartition)
  BY <1>1, <1>5, StraightConcat, Zenon DEF Settings!BootPartition
<1>7. /\ Harmless(Settings!CurrentStore) /\ Harmless(auto) /\ Harmless(Settings!UniqueDiskId)
  BY Fields, PutFields, MildHarmless, Zenon DEF Settings!CurrentStore, Settings!UniqueDiskId
<1>8. Passes(Settings!CurrentStore, given)
  BY Fields, PlainPasses, Zenon DEF Settings!CurrentStore
<1>9. /\ Sets(boot, "os device", given) /\ Sets(boot, "application device", given)
      /\ Sets(Settings!UniqueDiskId, "disk id", given) /\ Sets(auto, "auto recovery", given)
  BY Fields, PutFields, PutSets, Zenon DEF Settings!UniqueDiskId
<1>10. /\ Sets(Settings!BootPartition, "os device", given)
       /\ Sets(Settings!BootPartition, "application device", given)
       /\ Sets(Settings!AutoRecovery, "auto recovery", given) /\ Harmless(Settings!AutoRecovery)
  BY <1>1, <1>7, <1>8, <1>9, Joined, Zenon DEF Settings!BootPartition, Settings!AutoRecovery
<1>11. Len(begin) = 2
  OBVIOUS
<1>12. "disk id" \in given => Passes(begin, given)
  BY Fields, WantedPasses, Zenon
<1>13. Settings!BCDConfig =
         ((begin \o Settings!BootPartition) \o Settings!UniqueDiskId) \o Settings!AutoRecovery
  BY DEF Settings!BCDConfig, n
<1> HIDE DEF begin
<1> DEFINE one == begin \o Settings!BootPartition
           two == one \o Settings!UniqueDiskId
           three == two \o Settings!AutoRecovery
<1>14. one \in Program /\ Leads(one, n) /\ Len(one) = Len(begin) + Len(Settings!BootPartition)
  BY <1>2, <1>4, <1>5, <1>6, LeadsOn
<1>15. "disk id" \in given =>
         /\ Sets(one, "os device", given) /\ Sets(one, "application device", given)
  BY <1>2, <1>4, <1>10, <1>12, Joined, Zenon
<1>16. Passes(Settings!BootPartition, given)
  BY <1>6 DEF Straight, Plain, Passes
<1>17. "disk id" \in given => Passes(one, given)
  BY <1>2, <1>4, <1>12, <1>16, Joined, Zenon
<1> HIDE DEF one
<1>18. two \in Program /\ Leads(two, n) /\ Len(two) = Len(one) + Len(Settings!UniqueDiskId)
  BY <1>1, <1>5, <1>14, LeadsOn
<1>19. "disk id" \in given =>
         /\ Sets(two, "os device", given) /\ Sets(two, "application device", given)
         /\ Sets(two, "disk id", given)
  BY <1>1, <1>7, <1>9, <1>14, <1>15, <1>17, Joined, Zenon
<1> HIDE DEF two
<1>20. Passes(two, given)
  <2>1. n < Len(two)
    BY <1>3, <1>11, <1>14, <1>18 DEF n
  <2>2. QED
    BY <1>3, <1>18, <2>1, LeadPasses
<1>21. Sets(three, "auto recovery", given)
  BY <1>2, <1>10, <1>18, <1>20, Joined, Zenon
<1>22. "disk id" \in given =>
         /\ Sets(three, "os device", given) /\ Sets(three, "application device", given)
         /\ Sets(three, "disk id", given)
  BY <1>2, <1>10, <1>18, <1>19, Joined, Zenon
<1>23. Settings!BCDConfig = three
  BY <1>13 DEF one, two, three
<1>24. QED
  BY <1>21, <1>22, <1>23

-----------------------------------------------------------------------------
(* No plugin removes what another one is there for. *)

\* The calls that do not remove the setting, and the programs of such calls.
Sparing(s) == {c \in SafeCall : c.of = s => Mild(c)}
Keeping(s) == {p \in Program : Keeps(p, s)}

LEMMA SparingCalls ==
  ASSUME NEW s
  PROVE  /\ \A t \in AtOnce \cup Settings!AtBoot :
              /\ Settings!When(t) \in Sparing(s) /\ Settings!Lookup(t) \in Sparing(s)
              /\ Settings!Ask(t) \in Sparing(s)
              /\ \A n \in Nat : Settings!Skip(t, n) \in Sparing(s)
         /\ \A t \in AtOnce :
              /\ Settings!Put(t) \in Sparing(s) /\ Settings!Try(t) \in Sparing(s)
              /\ Settings!Sync(t) \in Sparing(s)
         /\ \A t \in AtOnce \ {s} :
              Settings!Drop(t) \in Sparing(s) /\ Settings!TryDrop(t) \in Sparing(s)
         /\ \A t \in Settings!AtBoot :
              Settings!Reconfigure(t) \in Sparing(s) /\ Settings!Rename(t) \in Sparing(s)
<1>1. \A t \in AtOnce \cup Settings!AtBoot :
        /\ Settings!When(t) \in Sparing(s) /\ Settings!Lookup(t) \in Sparing(s)
        /\ Settings!Ask(t) \in Sparing(s)
        /\ \A n \in Nat : Settings!Skip(t, n) \in Sparing(s)
  BY CallKinds, Fields DEF Sparing
<1>2. /\ \A t \in AtOnce :
           /\ Settings!Put(t) \in Sparing(s) /\ Settings!Try(t) \in Sparing(s)
           /\ Settings!Sync(t) \in Sparing(s)
      /\ \A t \in Settings!AtBoot :
           Settings!Reconfigure(t) \in Sparing(s) /\ Settings!Rename(t) \in Sparing(s)
  BY CallKinds, Fields, PutFields DEF Sparing
<1>3. \A t \in AtOnce \ {s} :
        Settings!Drop(t) \in Sparing(s) /\ Settings!TryDrop(t) \in Sparing(s)
  BY CallKinds, Fields DEF Sparing
<1>4. QED
  BY <1>1, <1>2, <1>3

LEMMA KeepingPrograms ==
  ASSUME NEW s
  PROVE  /\ \A a \in Sparing(s) : <<a>> \in Keeping(s)
         /\ \A a, b \in Sparing(s) : <<a, b>> \in Keeping(s)
         /\ \A a, b, c \in Sparing(s) : <<a, b, c>> \in Keeping(s)
         /\ \A a, b, c, d \in Sparing(s) : <<a, b, c, d>> \in Keeping(s)
         /\ \A p, q \in Keeping(s) : p \o q \in Keeping(s)
         /\ \A p \in Keeping(s) : Len(p) \in Nat
<1>0. /\ \A a : (a.of = s => Mild(a)) => Keeps(<<a>>, s)
      /\ \A a, b : (a.of = s => Mild(a)) /\ (b.of = s => Mild(b)) => Keeps(<<a, b>>, s)
      /\ \A a, b, c : (a.of = s => Mild(a)) /\ (b.of = s => Mild(b)) /\ (c.of = s => Mild(c))
           => Keeps(<<a, b, c>>, s)
      /\ \A a, b, c, d : (a.of = s => Mild(a)) /\ (b.of = s => Mild(b)) /\ (c.of = s => Mild(c))
           /\ (d.of = s => Mild(d)) => Keeps(<<a, b, c, d>>, s)
  BY DEF Keeps, Mild
<1>1. \A a \in Sparing(s) : <<a>> \in Keeping(s)
  BY <1>0, Programs, Zenon DEF Sparing, Keeping
<1>2. \A a, b \in Sparing(s) : <<a, b>> \in Keeping(s)
  BY <1>0, Programs, Zenon DEF Sparing, Keeping
<1>3. \A a, b, c \in Sparing(s) : <<a, b, c>> \in Keeping(s)
  BY <1>0, Programs, Zenon DEF Sparing, Keeping
<1>4. \A a, b, c, d \in Sparing(s) : <<a, b, c, d>> \in Keeping(s)
  BY <1>0, Programs, Zenon DEF Sparing, Keeping
<1>5. \A p, q \in Keeping(s) : p \o q \in Keeping(s)
  BY Programs, KeepsConcat, Zenon DEF Keeping
<1>6. \A p \in Keeping(s) : Len(p) \in Nat
  BY Programs DEF Keeping
<1>7. QED
  BY <1>1, <1>2, <1>3, <1>4, <1>5, <1>6

LEMMA KeptByTime ==
  ASSUME NEW s, s # "triggers"
  PROVE  Settings!NTPClient \in Keeping(s)
<1>1. "triggers" \in AtOnce \ {s}
  BY NamesAtOnce
<1>2. Settings!TriggerMode \in Keeping(s)
  BY <1>1, NamesAtOnce, SparingCalls, KeepingPrograms, Zenon DEF Settings!TriggerMode
<1>3. Settings!VerifyTimeService \in Keeping(s)
  BY <1>2, NamesAtOnce, SparingCalls, KeepingPrograms, Zenon DEF Settings!VerifyTimeService
<1>4. <<Settings!Skip("w32time", Len(Settings!VerifyTimeService))>> \in Keeping(s)
  BY <1>3, NamesAtOnce, SparingCalls, KeepingPrograms, Zenon
<1>5. Settings!RealTimeClock \in Keeping(s)
  BY BootNames, SparingCalls, KeepingPrograms, Zenon DEF Settings!RealTimeClock
<1>6. /\ Settings!DhcpHosts \in Keeping(s) /\ Settings!ClientConfig \in Keeping(s)
      /\ <<Settings!When("ntp")>> \in Keeping(s) /\ <<Settings!Lookup("ntp")>> \in Keeping(s)
  BY NamesAtOnce, SparingCalls, KeepingPrograms, Zenon DEF Settings!DhcpHosts, Settings!ClientConfig
<1>7. QED
  BY <1>3, <1>4, <1>5, <1>6, KeepingPrograms, Zenon DEF Settings!NTPClient

LEMMA KeptByHost ==
  ASSUME NEW s
  PROVE  /\ Settings!SetHostName \in Keeping(s) /\ Settings!MTU \in Keeping(s)
         /\ Settings!PageFiles \in Keeping(s) /\ Settings!SanPolicy \in Keeping(s)
         /\ Settings!ExtendVolumes \in Keeping(s)
<1>1. Settings!SetHostName \in Keeping(s)
  BY BootNames, SparingCalls, KeepingPrograms, Zenon DEF Settings!SetHostName, Settings!HostName
<1>2. Settings!MTU \in Keeping(s)
  BY NamesAtOnce, NumbersAre, SparingCalls, KeepingPrograms, Zenon DEF Settings!MTU, Settings!DhcpHosts
<1>3. Settings!PageFileVolumes \in Keeping(s)
  BY NamesAtOnce, SparingCalls, KeepingPrograms, Zenon
  DEF Settings!PageFileVolumes, Settings!MountPoints, Settings!Labels
<1>4. <<Settings!Skip("pagefiles", 1)>> \in Keeping(s) /\ Settings!SetPageFiles \in Keeping(s)
  BY BootNames, NumbersAre, SparingCalls, KeepingPrograms, Zenon DEF Settings!SetPageFiles
<1>5. Settings!PageFiles \in Keeping(s)
  BY <1>3, <1>4, KeepingPrograms, Zenon DEF Settings!PageFiles
<1>6. Settings!SanPolicy \in Keeping(s)
  BY NamesAtOnce, SparingCalls, KeepingPrograms, Zenon DEF Settings!SanPolicy, Settings!VdsSanPolicy
<1>7. Settings!ExtendVolumes \in Keeping(s)
  BY NamesAtOnce, SparingCalls, KeepingPrograms, Zenon
  DEF Settings!ExtendVolumes, Settings!ExtendVolume, Settings!Extents
<1>8. QED
  BY <1>1, <1>2, <1>5, <1>6, <1>7

LEMMA KeptByDesktop ==
  ASSUME NEW s
  PROVE  /\ Settings!RDPSettings \in Keeping(s)
         /\ Settings!RDPPostCertificateThumbprint \in Keeping(s)
         /\ Settings!DisplayIdleTimeout \in Keeping(s) /\ Settings!BootStatusPolicy \in Keeping(s)
         /\ Settings!WindowsAutoUpdates \in Keeping(s) /\ Settings!Trim \in Keeping(s)
<1>1. /\ Settings!RDPSettings \in Keeping(s)
      /\ Settings!RDPPostCertificateThumbprint \in Keeping(s)
  BY NamesAtOnce, SparingCalls, KeepingPrograms, Zenon
  DEF Settings!RDPSettings, Settings!KeepAlive, Settings!RDPPostCertificateThumbprint,
      Settings!Thumbprint
<1>2. Settings!DisplayIdleTimeout \in Keeping(s) /\ Settings!BootStatusPolicy \in Keeping(s)
  BY NamesAtOnce, SparingCalls, KeepingPrograms, Zenon
  DEF Settings!DisplayIdleTimeout, Settings!PowerCfg, Settings!BootStatusPolicy, Settings!Bcdedit
<1>3. Settings!WindowsAutoUpdates \in Keeping(s) /\ Settings!Trim \in Keeping(s)
  BY NamesAtOnce, SparingCalls, KeepingPrograms, Zenon
  DEF Settings!WindowsAutoUpdates, Settings!AutomaticUpdates, Settings!Trim, Settings!Fsutil
<1>4. QED
  BY <1>1, <1>2, <1>3

LEMMA KeptByBoot ==
  ASSUME NEW s
  PROVE  Settings!BCDConfig \in Keeping(s)
<1>1. Settings!BootPartition \in Keeping(s)
  BY NamesAtOnce, SparingCalls, KeepingPrograms, Zenon
  DEF Settings!BootPartition, Settings!CurrentStore
<1>2. Settings!UniqueDiskId \in Keeping(s)
  BY NamesAtOnce, SparingCalls, KeepingPrograms, Zenon DEF Settings!UniqueDiskId
<1>3. Settings!AutoRecovery \in Keeping(s)
  BY NamesAtOnce, SparingCalls, KeepingPrograms, Zenon
  DEF Settings!AutoRecovery, Settings!CurrentStore
<1>4. 1 + Len(Settings!BootPartition) + Len(Settings!UniqueDiskId) \in Nat
  BY <1>1, <1>2, KeepingPrograms
<1>5. <<Settings!Skip("disk id", 1 + Len(Settings!BootPartition) + Len(Settings!UniqueDiskId)),
        Settings!Ask("boot volumes")>> \in Keeping(s)
  BY <1>4, NamesAtOnce, SparingCalls, KeepingPrograms, Zenon
<1>6. QED
  BY <1>1, <1>2, <1>3, <1>5, KeepingPrograms, Zenon DEF Settings!BCDConfig

LEMMA KeptByLicense ==
  ASSUME NEW s
  PROVE  Settings!WindowsLicensing \in Keeping(s)
<1>1. Settings!ProductKey \in Keeping(s)
  BY NamesAtOnce, NumbersAre, SparingCalls, KeepingPrograms, Zenon
  DEF Settings!ProductKey, Settings!KmsProduct, Settings!KeyTable, Settings!InstallKey
<1>2. Settings!KmsHost \in Keeping(s)
  BY NamesAtOnce, NumbersAre, SparingCalls, KeepingPrograms, Zenon
  DEF Settings!KmsHost, Settings!KmsMachine
<1>3. /\ <<Settings!When("licensing")>> \in Keeping(s)
      /\ <<Settings!Skip("activation", 1)>> \in Keeping(s)
      /\ Settings!Slmgr \in Keeping(s) /\ <<Settings!Ask("license")>> \in Keeping(s)
  BY NamesAtOnce, NumbersAre, SparingCalls, KeepingPrograms, Zenon DEF Settings!Slmgr
<1>4. QED
  BY <1>1, <1>2, <1>3, KeepingPrograms, Zenon DEF Settings!WindowsLicensing

LEMMA KeptByUser ==
  ASSUME NEW s
  PROVE  /\ s # "warning" => Settings!EphemeralDisk \in Keeping(s)
         /\ s # "ssh keys" => Settings!SSHPublicKeys \in Keeping(s)
<1>1. ASSUME s # "warning" PROVE Settings!EphemeralDisk \in Keeping(s)
  <2>1. "warning" \in AtOnce \ {s}
    BY <1>1, NamesAtOnce
  <2>2. Settings!EphemeralVolume \in Keeping(s) /\ Settings!Warning \in Keeping(s)
    BY <2>1, NamesAtOnce, SparingCalls, KeepingPrograms, Zenon
    DEF Settings!EphemeralVolume, Settings!MountPoints, Settings!Labels, Settings!Warning
  <2>3. /\ <<Settings!When("warning")>> \in Keeping(s)
        /\ <<Settings!Skip("warning path", 3)>> \in Keeping(s)
    BY NamesAtOnce, NumbersAre, SparingCalls, KeepingPrograms, Zenon
  <2>4. QED
    BY <2>2, <2>3, KeepingPrograms, Zenon DEF Settings!EphemeralDisk
<1>2. ASSUME s # "ssh keys" PROVE Settings!SSHPublicKeys \in Keeping(s)
  <2>1. "ssh keys" \in AtOnce \ {s}
    BY <1>2, NamesAtOnce
  <2>2. QED
    BY <2>1, NamesAtOnce, SparingCalls, KeepingPrograms, Zenon
    DEF Settings!SSHPublicKeys, Settings!UserHome
<1>3. QED
  BY <1>1, <1>2

AgentDrops == {"RdAgent", "WindowsAzureGuestAgent", "WindowsAzureTelemetryService", "agent package"}

LEMMA KeptByAgent ==
  ASSUME NEW s, s \notin AgentDrops
  PROVE  Settings!AzureGuestAgent \in Keeping(s)
<1>0. AgentDrops \subseteq AtOnce \ {s}
  BY AgentNamesAtOnce DEF AgentDrops
<1>1. \A t \in AgentDrops : Settings!RemoveService(t) \in Keeping(s)
  <2>1. \A t \in AgentDrops : Settings!Ask(t) \in Sparing(s) /\ Settings!Drop(t) \in Sparing(s)
    BY <1>0, SparingCalls
  <2>2. QED
    BY <2>1, KeepingPrograms, Zenon DEF Settings!RemoveService
<1>2. Settings!RemoveAgent \in Keeping(s)
  BY <1>1, KeepingPrograms, Zenon DEF Settings!RemoveAgent, AgentDrops
<1>3. Settings!RemoveAgentFolders \in Keeping(s) /\ Settings!AgentPackage \in Keeping(s)
  BY <1>0, AgentNamesAtOnce, SparingCalls, KeepingPrograms, Zenon
  DEF Settings!RemoveAgentFolders, Settings!AgentPackage, AgentDrops
<1>4. Settings!EventTraces \in Keeping(s) /\ Settings!CreateRdAgent \in Keeping(s)
  BY AgentNamesAtOnce, SparingCalls, KeepingPrograms, Zenon
  DEF Settings!EventTraces, Settings!CreateRdAgent
<1>5. Settings!CreateVmAgent \in Keeping(s) /\ Settings!StartAgent \in Keeping(s)
  BY AgentNamesAtOnce, SparingCalls, KeepingPrograms, Zenon
  DEF Settings!CreateVmAgent, Settings!StartAgent
<1>6. /\ <<Settings!Drop("agent package"), Settings!Ask("agent folder"),
           Settings!Put("agent package")>> \in Keeping(s)
      /\ <<Settings!Skip("dotnet", Len(Settings!StartAgent))>> \in Keeping(s)
  BY <1>0, <1>5, AgentNamesAtOnce, SparingCalls, KeepingPrograms, Zenon DEF AgentDrops
<1>7. Settings!DesktopAgent \in Keeping(s)
  BY <1>3, <1>4, <1>5, <1>6, KeepingPrograms, Zenon DEF Settings!DesktopAgent
<1>8. Settings!NanoAgent \in Keeping(s)
  BY <1>5, AgentNamesAtOnce, SparingCalls, KeepingPrograms, Zenon DEF Settings!NanoAgent
<1>9. /\ <<Settings!When("provision")>> \in Keeping(s)
      /\ <<Settings!Skip("desktop", Len(Settings!DesktopAgent))>> \in Keeping(s)
      /\ <<Settings!Skip("nano", Len(Settings!NanoAgent))>> \in Keeping(s)
  BY <1>7, <1>8, AgentNamesAtOnce, SparingCalls, KeepingPrograms, Zenon
<1>10. QED
  BY <1>2, <1>3, <1>7, <1>8, <1>9, KeepingPrograms, Zenon DEF Settings!AzureGuestAgent

\* What each plugin is there for.
LEMMA PromisedIs ==
  /\ DOMAIN Settings!Promised =
       {"SetHostName", "SanPolicy", "RDPSettings", "DisplayIdleTimeout",
        "RDPPostCertificateThumbprint", "BootStatusPolicy", "BCDConfig", "WindowsAutoUpdates",
        "Trim", "WindowsLicensing", "EphemeralDisk", "SSHPublicKeys", "AzureGuestAgent"}
  /\ Settings!Promised["SetHostName"] = {"hostname"} /\ Settings!Promised["SanPolicy"] = {"san"}
  /\ Settings!Promised["RDPSettings"] = {"keepalive", "keepalive interval"}
  /\ Settings!Promised["DisplayIdleTimeout"] = {"video idle"}
  /\ Settings!Promised["RDPPostCertificateThumbprint"] = {"thumbprint"}
  /\ Settings!Promised["BootStatusPolicy"] = {"boot status"}
  /\ Settings!Promised["BCDConfig"] =
       {"os device", "application device", "disk id", "auto recovery"}
  /\ Settings!Promised["WindowsAutoUpdates"] = {"updates"} /\ Settings!Promised["Trim"] = {"trim"}
  /\ Settings!Promised["WindowsLicensing"] = {"product key", "kms host", "activation"}
  /\ Settings!Promised["EphemeralDisk"] = {"warning"}
  /\ Settings!Promised["SSHPublicKeys"] = {"ssh keys"}
  /\ Settings!Promised["AzureGuestAgent"] =
       {"RdAgent", "WindowsAzureGuestAgent", "agent package", "VM type", "agent version",
        "agent start mode", "agent status"}
BY DEF Settings!Promised

\* What a plugin removes on the way is promised by that plugin alone.
Dropped == AgentDrops \cup {"triggers", "warning", "ssh keys"}

LEMMA WhoPromises ==
  ASSUME NEW q \in DOMAIN Settings!Promised, NEW s \in Settings!Promised[q]
  PROVE  /\ s # "triggers" /\ (s = "warning" => q = "EphemeralDisk")
         /\ s = "ssh keys" => q = "SSHPublicKeys"
         /\ s \in AgentDrops => q = "AzureGuestAgent"
<1>1. q \in {"SetHostName", "SanPolicy"} => s \notin Dropped
  BY PromisedIs DEF Dropped, AgentDrops
<1>2. q \in {"RDPSettings", "DisplayIdleTimeout"} => s \notin Dropped
  BY PromisedIs DEF Dropped, AgentDrops
<1>3. q \in {"RDPPostCertificateThumbprint", "BootStatusPolicy"} => s \notin Dropped
  BY PromisedIs DEF Dropped, AgentDrops
<1>4. q = "BCDConfig" => s \notin Dropped
  BY PromisedIs DEF Dropped, AgentDrops
<1>5. q \in {"WindowsAutoUpdates", "Trim"} => s \notin Dropped
  BY PromisedIs DEF Dropped, AgentDrops
<1>6. q = "WindowsLicensing" => s \notin Dropped
  BY PromisedIs DEF Dropped, AgentDrops
<1>7. /\ q = "EphemeralDisk" => s = "warning"
      /\ q = "SSHPublicKeys" => s = "ssh keys"
  BY PromisedIs
<1>8. q = "AzureGuestAgent" => s \notin {"triggers", "warning", "ssh keys"}
  BY PromisedIs
<1>9. "warning" \notin AgentDrops /\ "ssh keys" \notin AgentDrops
  BY DEF AgentDrops
<1>10. q \in {"EphemeralDisk", "SSHPublicKeys", "AzureGuestAgent"} \/ s \notin Dropped
  BY <1>1, <1>2, <1>3, <1>4, <1>5, <1>6, PromisedIs
<1>11. QED
  BY <1>7, <1>8, <1>9, <1>10 DEF Dropped

\* No plugin removes what another one is there for.
LEMMA OthersKeep ==
  ASSUME NEW p \in DOMAIN Settings!Calls, NEW q \in DOMAIN Settings!Promised, p # q,
         NEW s \in Settings!Promised[q]
  PROVE  Keeps(Settings!Calls[p], s)
<1>1. s # "triggers" /\ (s = "warning" => q = "EphemeralDisk")
  BY WhoPromises
<1>2. s = "ssh keys" => q = "SSHPublicKeys"
  BY WhoPromises
<1>3. s \in AgentDrops => q = "AzureGuestAgent"
  BY WhoPromises
<1>4. /\ Settings!NTPClient \in Keeping(s)
      /\ q # "EphemeralDisk" => Settings!EphemeralDisk \in Keeping(s)
      /\ q # "SSHPublicKeys" => Settings!SSHPublicKeys \in Keeping(s)
      /\ q # "AzureGuestAgent" => Settings!AzureGuestAgent \in Keeping(s)
  BY <1>1, <1>2, <1>3, KeptByTime, KeptByUser, KeptByAgent
<1>5. /\ Settings!SetHostName \in Keeping(s) /\ Settings!MTU \in Keeping(s)
      /\ Settings!PageFiles \in Keeping(s) /\ Settings!SanPolicy \in Keeping(s)
      /\ Settings!ExtendVolumes \in Keeping(s) /\ Settings!BCDConfig \in Keeping(s)
      /\ Settings!WindowsLicensing \in Keeping(s)
  BY KeptByHost, KeptByBoot, KeptByLicense
<1>6. /\ Settings!RDPSettings \in Keeping(s)
      /\ Settings!RDPPostCertificateThumbprint \in Keeping(s)
      /\ Settings!DisplayIdleTimeout \in Keeping(s) /\ Settings!BootStatusPolicy \in Keeping(s)
      /\ Settings!WindowsAutoUpdates \in Keeping(s) /\ Settings!Trim \in Keeping(s)
  BY KeptByDesktop
<1>7. Settings!Calls[p] \in Keeping(s)
  BY <1>4, <1>5, <1>6 DEF Settings!Calls
<1>8. QED
  BY <1>7 DEF Keeping

-----------------------------------------------------------------------------
(* The Azure agent. *)

LEMMA DesktopCalls ==
  ASSUME NEW given
  PROVE  /\ Settings!DesktopAgent \in Program /\ Passes(Settings!DesktopAgent, given)
         /\ Settings!StartAgent \in Program /\ Harmless(Settings!StartAgent)
         /\ Sets(Settings!DesktopAgent, "agent package", given)
         /\ \A s \in {"RdAgent", "VM type", "agent version"} : Sets(Settings!DesktopAgent, s, given)
         /\ \A s \in {"agent start mode", "agent status"} :
              /\ Sets(Settings!StartAgent, s, given)
              /\ "dotnet" \in given => Sets(Settings!DesktopAgent, s, given)
<1> DEFINE clean == <<Settings!Drop("agent package"), Settings!Ask("agent folder"),
                      Settings!Put("agent package")>>
           jump == <<Settings!Skip("dotnet", Len(Settings!StartAgent))>>
<1>1. /\ Settings!AgentPackage \in Program /\ Settings!EventTraces \in Program /\ clean \in Program
      /\ Settings!CreateRdAgent \in Program /\ Settings!StartAgent \in Program
  BY AgentNamesAtOnce, CallKinds, Programs, Zenon
  DEF Settings!AgentPackage, Settings!EventTraces, Settings!CreateRdAgent, Settings!StartAgent
<1>2. jump \in Program
  BY <1>1, AgentNamesAtOnce, CallKinds, Programs, Zenon
<1>3. /\ Passes(Settings!AgentPackage, given) /\ Passes(Settings!EventTraces, given)
      /\ Passes(clean, given) /\ Passes(Settings!CreateRdAgent, given)
      /\ Passes(Settings!StartAgent, given)
  <2>1. Passes(Settings!AgentPackage, given) /\ Passes(Settings!EventTraces, given)
    BY Fields, PlainPasses, Zenon DEF Settings!AgentPackage, Settings!EventTraces
  <2>0. \A s : Plain(Settings!Put(s))
    BY PutFields, Zenon
  <2>2. Passes(Settings!CreateRdAgent, given) /\ Passes(Settings!StartAgent, given)
    BY <2>0, Fields, PlainPasses, ZenonT(60) DEF Settings!CreateRdAgent, Settings!StartAgent
  <2>3. Passes(clean, given)
    BY <2>0, Fields, PlainPasses, Zenon
  <2>4. QED
    BY <2>1, <2>2, <2>3
<1>4. /\ Harmless(Settings!CreateRdAgent) /\ Harmless(Settings!StartAgent) /\ Harmless(jump)
  BY Fields, PutFields, MildHarmless, Zenon DEF Settings!CreateRdAgent, Settings!StartAgent
<1>5. /\ Sets(clean, "agent package", given)
      /\ Sets(Settings!CreateRdAgent, "RdAgent", given)
      /\ Sets(Settings!CreateRdAgent, "VM type", given)
      /\ Sets(Settings!CreateRdAgent, "agent version", given)
  BY Fields, PutFields, PutSets, Zenon DEF Settings!CreateRdAgent
<1>6. /\ Sets(Settings!StartAgent, "agent start mode", given)
      /\ Sets(Settings!StartAgent, "agent status", given)
  BY PutFields, PutSets, Zenon DEF Settings!StartAgent
<1>7. "dotnet" \in given => Passes(jump, given)
  BY WhenPasses
<1> DEFINE look == Settings!AgentPackage \o Settings!EventTraces
           folder == look \o clean
           create == folder \o Settings!CreateRdAgent
           leap == create \o jump
           all == leap \o Settings!StartAgent
<1>8. Settings!DesktopAgent = all
  BY DEF Settings!DesktopAgent
<1>9. create \in Program /\ Passes(create, given)
  <2>1. look \in Program /\ Passes(look, given)
    BY <1>1, <1>3, Joined, Programs, Zenon
  <2>2. folder \in Program /\ Passes(folder, given)
    BY <1>1, <1>3, <2>1, Joined, Programs, Zenon
  <2>3. QED
    BY <1>1, <1>3, <2>2, Joined, Programs, Zenon
<1>10. /\ Sets(create, "agent package", given) /\ Sets(create, "RdAgent", given)
       /\ Sets(create, "VM type", given) /\ Sets(create, "agent version", given)
  <2>1. look \in Program /\ Passes(look, given)
    BY <1>1, <1>3, Joined, Programs, Zenon
  <2> HIDE DEF look
  <2>2. folder \in Program /\ Passes(folder, given) /\ Sets(folder, "agent package", given)
    BY <1>1, <1>3, <1>5, <2>1, Joined, Programs, Zenon
  <2> HIDE DEF folder
  <2>3. QED
    BY <1>1, <1>4, <1>5, <2>2, Joined, Zenon
<1>11. Passes(all, given)
  <2> HIDE DEF create
  <2>1. jump \in Program
    BY <1>2
  <2>2. QED
    BY <1>1, <1>3, <1>9, <2>1, SkipPasses
<1> HIDE DEF create
<1> HIDE DEF jump
<1>12. leap \in Program /\ ("dotnet" \in given => Passes(leap, given))
  BY <1>2, <1>7, <1>9, Joined, Programs, Zenon
<1>13. /\ Sets(leap, "agent package", given) /\ Sets(leap, "RdAgent", given)
       /\ Sets(leap, "VM type", given) /\ Sets(leap, "agent version", given)
  BY <1>2, <1>4, <1>9, <1>10, Joined, Zenon
<1> HIDE DEF leap
<1>14. /\ all \in Program
       /\ Sets(all, "agent package", given) /\ Sets(all, "RdAgent", given)
       /\ Sets(all, "VM type", given) /\ Sets(all, "agent version", given)
  BY <1>1, <1>4, <1>12, <1>13, Joined, Programs, Zenon
<1>15. "dotnet" \in given => Sets(all, "agent start mode", given) /\ Sets(all, "agent status", given)
  BY <1>1, <1>6, <1>12, Joined, Zenon
<1> HIDE DEF all
<1>16. \A s \in {"RdAgent", "VM type", "agent version"} : Sets(all, s, given)
  BY <1>14
<1>17. \A s \in {"agent start mode", "agent status"} :
         Sets(Settings!StartAgent, s, given) /\ ("dotnet" \in given => Sets(all, s, given))
  BY <1>6, <1>15
<1>18. QED
  BY <1>1, <1>4, <1>8, <1>11, <1>14, <1>16, <1>17

LEMMA NanoCalls ==
  ASSUME NEW given
  PROVE  /\ Settings!NanoAgent \in Program /\ Harmless(Settings!NanoAgent)
         /\ \A s \in {"agent package", "WindowsAzureGuestAgent", "agent start mode", "agent status"} :
              Sets(Settings!NanoAgent, s, given)
<1> DEFINE folder == <<Settings!Ask("agent folder")>>
<1>1. folder \in Program /\ Settings!CreateVmAgent \in Program /\ Settings!StartAgent \in Program
  BY AgentNamesAtOnce, CallKinds, Programs, Zenon DEF Settings!CreateVmAgent, Settings!StartAgent
<1>2. /\ Harmless(folder) /\ Harmless(Settings!CreateVmAgent) /\ Harmless(Settings!StartAgent)
  BY Fields, PutFields, MildHarmless, Zenon DEF Settings!CreateVmAgent, Settings!StartAgent
<1>3. Passes(folder, given) /\ Passes(Settings!CreateVmAgent, given)
  BY Fields, PutFields, PlainPasses, ZenonT(60) DEF Settings!CreateVmAgent
<1>4. /\ Sets(Settings!CreateVmAgent, "agent package", given)
      /\ Sets(Settings!CreateVmAgent, "WindowsAzureGuestAgent", given)
  BY Fields, PutFields, PutSets, Zenon DEF Settings!CreateVmAgent
<1>5. /\ Sets(Settings!StartAgent, "agent start mode", given)
      /\ Sets(Settings!StartAgent, "agent status", given)
  BY PutFields, PutSets, Zenon DEF Settings!StartAgent
<1> HIDE DEF folder
<1> DEFINE create == folder \o Settings!CreateVmAgent
           all == create \o Settings!StartAgent
<1>6. /\ create \in Program /\ Passes(create, given) /\ Harmless(create)
      /\ Sets(create, "agent package", given) /\ Sets(create, "WindowsAzureGuestAgent", given)
  BY <1>1, <1>2, <1>3, <1>4, Joined, Programs, Zenon
<1> HIDE DEF create
<1>7. /\ all \in Program /\ Harmless(all)
      /\ Sets(all, "agent package", given) /\ Sets(all, "WindowsAzureGuestAgent", given)
      /\ Sets(all, "agent start mode", given) /\ Sets(all, "agent status", given)
  BY <1>1, <1>2, <1>5, <1>6, Joined, Programs, Zenon
<1> HIDE DEF all
<1>8. \A s \in {"agent package", "WindowsAzureGuestAgent", "agent start mode", "agent status"} :
        Sets(all, s, given)
  BY <1>7
<1>9. Settings!NanoAgent = all
  BY DEF Settings!NanoAgent, all, create, folder
<1>10. QED
  BY <1>7, <1>8, <1>9

LEMMA SetOfAgent ==
  ASSUME NEW given, "provision" \in given, NEW s
  PROVE  /\ /\ "desktop" \in given
            /\ \/ s \in {"RdAgent", "VM type", "agent version", "agent package"}
               \/ s \in {"agent start mode", "agent status"} /\ "dotnet" \in given
            => Sets(Settings!AzureGuestAgent, s, given)
         /\ /\ "nano" \in given
            /\ s \in {"agent package", "WindowsAzureGuestAgent", "agent start mode", "agent status"}
            => Sets(Settings!AzureGuestAgent, s, given)
<1> DEFINE begin == <<Settings!When("provision")>>
           desktop == <<Settings!Skip("desktop", Len(Settings!DesktopAgent))>>
           nano == <<Settings!Skip("nano", Len(Settings!NanoAgent))>>
<1>1. begin \in Program /\ desktop \in Program /\ nano \in Program
  BY DesktopCalls, NanoCalls, AgentNamesAtOnce, CallKinds, Programs, Zenon
<1>2. Passes(begin, given)
  BY WhenPasses
<1>3. /\ "desktop" \in given => Passes(desktop, given)
      /\ "nano" \in given => Passes(nano, given)
  BY WhenPasses
<1>4. Harmless(nano)
  BY Fields, MildHarmless, Zenon
<1>5. Settings!RemoveAgent \in Program /\ Settings!RemoveAgentFolders \in Program
  <2>1. \A t \in AtOnce : Settings!RemoveService(t) \in Program
    BY CallKinds, Programs, Zenon DEF Settings!RemoveService
  <2>2. QED
    BY <2>1, AgentNamesAtOnce, CallKinds, Programs, Zenon
    DEF Settings!RemoveAgent, Settings!RemoveAgentFolders
<1>6. Passes(Settings!RemoveAgent, given) /\ Passes(Settings!RemoveAgentFolders, given)
  <2>1. \A t \in AtOnce : /\ Settings!RemoveService(t) \in Program
                          /\ Passes(Settings!RemoveService(t), given)
    BY Fields, PlainPasses, CallKinds, Programs, Zenon DEF Settings!RemoveService
  <2>2. Passes(Settings!RemoveAgent, given)
    BY <2>1, AgentNamesAtOnce, Joined, Programs, Zenon DEF Settings!RemoveAgent
  <2>3. QED
    BY <2>2, Fields, PlainPasses, Zenon DEF Settings!RemoveAgentFolders
<1> DEFINE removed == begin \o Settings!RemoveAgent
           gone == removed \o Settings!RemoveAgentFolders
           fork == gone \o desktop
           one == fork \o Settings!DesktopAgent
           two == one \o nano
           all == two \o Settings!NanoAgent
<1>7. Settings!AzureGuestAgent = all
  BY DEF Settings!AzureGuestAgent
<1>8. gone \in Program /\ Passes(gone, given)
  <2>1. removed \in Program /\ Passes(removed, given)
    BY <1>1, <1>2, <1>5, <1>6, Joined, Programs, Zenon
  <2> HIDE DEF removed
  <2>2. QED
    BY <1>5, <1>6, <2>1, Joined, Programs, Zenon
<1> HIDE DEF gone, begin
<1>9. Passes(one, given)
  BY <1>1, <1>8, DesktopCalls, SkipPasses
<1> HIDE DEF desktop
<1>10. fork \in Program /\ ("desktop" \in given => Passes(fork, given))
  BY <1>1, <1>3, <1>8, Joined, Programs, Zenon
<1> HIDE DEF fork
<1>11. one \in Program
  BY <1>10, DesktopCalls, Programs, Zenon
<1>12. ASSUME Sets(Settings!DesktopAgent, s, given), "desktop" \in given
       PROVE  Sets(one, s, given)
  BY <1>10, <1>12, DesktopCalls, Joined, Zenon
<1> HIDE DEF one, nano
<1>13. two \in Program /\ ("nano" \in given => Passes(two, given))
  BY <1>1, <1>3, <1>9, <1>11, Joined, Programs, Zenon
<1>14. Sets(one, s, given) => Sets(two, s, given)
  BY <1>1, <1>4, <1>11, Joined, Zenon
<1> HIDE DEF two
<1>15. Sets(two, s, given) => Sets(all, s, given)
  BY <1>13, NanoCalls, Joined, Zenon
<1>16. Sets(Settings!NanoAgent, s, given) /\ "nano" \in given => Sets(all, s, given)
  BY <1>13, NanoCalls, Joined, Zenon
<1> HIDE DEF all
<1>17. ASSUME "desktop" \in given,
              \/ s \in {"RdAgent", "VM type", "agent version", "agent package"}
              \/ s \in {"agent start mode", "agent status"} /\ "dotnet" \in given
       PROVE  Sets(all, s, given)
  <2>1. Sets(Settings!DesktopAgent, s, given)
    BY <1>17, DesktopCalls
  <2>2. QED
    BY <1>12, <1>14, <1>15, <1>17, <2>1
<1>18. ASSUME "nano" \in given,
              s \in {"agent package", "WindowsAzureGuestAgent", "agent start mode", "agent status"}
       PROVE  Sets(all, s, given)
  BY <1>16, <1>18, NanoCalls
<1>19. QED
  BY <1>7, <1>17, <1>18

\* Every plugin sets what it is there for, as far as a value is wanted.
LEMMA PluginSets ==
  ASSUME NEW given, Settings!Consistent(given), NEW p \in DOMAIN Settings!Promised,
         NEW s \in Settings!Promised[p] \cap given
  PROVE  Sets(Settings!Calls[p], s, given)
<1>1. CASE p = "SetHostName"
  BY <1>1, SetOfHost DEF Settings!Calls
<1>2. CASE p = "SanPolicy"
  BY <1>2, SetOfFiles DEF Settings!Calls
<1>3. CASE p \in {"RDPSettings", "DisplayIdleTimeout", "Trim"}
  <2>1. \/ p = "RDPSettings" /\ s \in {"keepalive", "keepalive interval"}
        \/ p = "DisplayIdleTimeout" /\ s = "video idle"
        \/ p = "Trim" /\ s = "trim"
    BY <1>3, PromisedIs
  <2>2. /\ Settings!Calls["RDPSettings"] = Settings!RDPSettings
        /\ Settings!Calls["DisplayIdleTimeout"] = Settings!DisplayIdleTimeout
        /\ Settings!Calls["Trim"] = Settings!Trim
    BY DEF Settings!Calls
  <2>3. QED
    BY <2>1, <2>2, SetAtOnce
<1>4. CASE p \in {"RDPPostCertificateThumbprint", "BootStatusPolicy", "WindowsAutoUpdates"}
  <2>1. \/ p = "RDPPostCertificateThumbprint" /\ s = "thumbprint"
        \/ p = "BootStatusPolicy" /\ s = "boot status"
        \/ p = "WindowsAutoUpdates" /\ s = "updates"
    BY <1>4, PromisedIs
  <2>2. /\ Settings!Calls["RDPPostCertificateThumbprint"] = Settings!RDPPostCertificateThumbprint
        /\ Settings!Calls["BootStatusPolicy"] = Settings!BootStatusPolicy
        /\ Settings!Calls["WindowsAutoUpdates"] = Settings!WindowsAutoUpdates
    BY DEF Settings!Calls
  <2>3. QED
    BY <2>1, <2>2, SetOfDesktop
<1>5. CASE p = "BCDConfig"
  <2>1. s \in {"os device", "application device", "disk id", "auto recovery"}
    BY <1>5, PromisedIs
  <2>2. s # "auto recovery" => "disk id" \in given
    BY <2>1 DEF Settings!Consistent
  <2>3. Settings!Calls[p] = Settings!BCDConfig
    BY <1>5 DEF Settings!Calls
  <2>4. QED
    BY <2>1, <2>2, <2>3, SetOfBoot
<1>6. CASE p = "WindowsLicensing"
  <2>1. s \in {"product key", "kms host", "activation"}
    BY <1>6, PromisedIs
  <2>2. "licensing" \in given
    BY <2>1 DEF Settings!Consistent
  <2>3. Settings!Calls[p] = Settings!WindowsLicensing
    BY <1>6 DEF Settings!Calls
  <2>4. QED
    BY <2>1, <2>2, <2>3, SetOfLicense
<1>7. CASE p \in {"EphemeralDisk", "SSHPublicKeys"}
  <2>1. \/ p = "EphemeralDisk" /\ s = "warning"
        \/ p = "SSHPublicKeys" /\ s = "ssh keys"
    BY <1>7, PromisedIs
  <2>2. s = "warning" => "warning path" \in given
    BY DEF Settings!Consistent
  <2>3. /\ Settings!Calls["EphemeralDisk"] = Settings!EphemeralDisk
        /\ Settings!Calls["SSHPublicKeys"] = Settings!SSHPublicKeys
    BY DEF Settings!Calls
  <2>4. QED
    BY <2>1, <2>2, <2>3, SetOfUser
<1>8. CASE p = "AzureGuestAgent"
  <2>0. /\ s \in given
        /\ s \in {"RdAgent", "WindowsAzureGuestAgent", "agent package", "VM type", "agent version",
                  "agent start mode", "agent status"}
    BY <1>8, PromisedIs
  <2>1. "provision" \in given
    BY <1>8 DEF Settings!Consistent
  <2>2. \/ /\ "desktop" \in given
           /\ \/ s \in {"RdAgent", "VM type", "agent version", "agent package"}
              \/ s \in {"agent start mode", "agent status"} /\ "dotnet" \in given
        \/ /\ "nano" \in given
           /\ s \in {"agent package", "WindowsAzureGuestAgent", "agent start mode", "agent status"}
    BY <2>0 DEF Settings!Consistent
  <2>3. Settings!Calls[p] = Settings!AzureGuestAgent
    BY <1>8 DEF Settings!Calls
  <2>4. QED
    BY <2>1, <2>2, <2>3, SetOfAgent
<1>9. QED
  BY <1>1, <1>2, <1>3, <1>4, <1>5, <1>6, <1>7, <1>8, PromisedIs

-----------------------------------------------------------------------------
(* A plugin that need not run again has set what it is there for. *)

Wants(p) == Settings!Promised[p] \cap settingsHost.given

\* A setting that is wanted is set, or will be by the calls to come; none of them removes
\* what a plugin that is done has set.
CallsInv ==
  settingsPc = "call" =>
    /\ Settings!Plugin \notin settingsDone
    /\ \A i \in DOMAIN calls : calls[i].of \in Settings!Settings
    /\ \A q \in settingsDone : \A s \in Settings!Promised[q] : Keeps(calls, s)
    /\ Settings!Plugin \notin Settings!EachBoot =>
         \A s \in Wants(Settings!Plugin) :
           \/ Sets(calls, s, settingsHost.given)
           \/ stored[s] = "new" /\ Keeps(calls, s)

DoneInv == \A p \in settingsDone : \A s \in Wants(p) : stored[s] = "new"

\* The running system never uses a new value that is not stored any more.
BootInv == \A s \in Settings!AtBoot : active[s] = "new" => stored[s] = "new"

SetInv == CallsInv /\ DoneInv /\ BootInv

LEMMA PromisingPlugins == DOMAIN Settings!Promised = DOMAIN Settings!Calls \ Settings!EachBoot
BY PromisedIs DEF Settings!Calls, Settings!EachBoot

LEMMA DonePromise ==
  ASSUME SettingsTypeInv
  PROVE  /\ settingsDone \subseteq DOMAIN Settings!Promised
         /\ at \in DOMAIN settingsHost.plugins => Settings!Plugin \in DOMAIN Settings!Calls
         /\ settingsPc = "call" => at \in DOMAIN settingsHost.plugins
         /\ Settings!Consistent(settingsHost.given)
<1>1. settingsHost.plugins \in Seq(DOMAIN Settings!Calls)
  BY SettingsHostFacts DEF SettingsTypeInv
<1>2. settingsDone \subseteq DOMAIN Settings!Calls \ Settings!EachBoot
  BY <1>1 DEF SettingsTypeInv
<1>3. at \in DOMAIN settingsHost.plugins => Settings!Plugin \in DOMAIN Settings!Calls
  BY <1>1 DEF Settings!Plugin
<1>4. settingsPc = "call" => at \in DOMAIN settingsHost.plugins
  BY <1>1 DEF SettingsTypeInv
<1>5. Settings!Consistent(settingsHost.given)
  <2>1. PICK m \in Machines : settingsHost = m.settings
    BY DEF SettingsTypeInv
  <2>2. QED
    BY <2>1, HostConfigurationAssumption
<1>6. QED
  BY <1>2, <1>3, <1>4, <1>5, PromisingPlugins

LEMMA CallsAreSettings ==
  ASSUME NEW p \in DOMAIN Settings!Calls, NEW i \in DOMAIN Settings!Calls[p]
  PROVE  Settings!Calls[p][i].of \in Settings!Settings
<1>1. Settings!Calls[p][i].of \in Settings!Of(Settings!Calls[p])
  BY DEF Settings!Of
<1>2. QED
  BY <1>1 DEF Settings!Settings

\* What is left of a program after its first calls.
LEMMA RestIs ==
  ASSUME NEW p \in Program, p # <<>>, NEW n \in Nat, n > 0
  PROVE  /\ SubSeq(p, n + 1, Len(p)) \in Program
         /\ \A k \in DOMAIN SubSeq(p, n + 1, Len(p)) :
              /\ k \in Nat \ {0} /\ k + n \in DOMAIN p
              /\ SubSeq(p, n + 1, Len(p))[k] = p[k + n]
         /\ \A i \in DOMAIN p : i > n =>
              /\ i - n \in DOMAIN SubSeq(p, n + 1, Len(p))
              /\ SubSeq(p, n + 1, Len(p))[i - n] = p[i]
         /\ 1 \in DOMAIN p /\ Head(p) = p[1] /\ p[1] \in SafeCall
         /\ \A i \in DOMAIN p : i \in Nat \ {0}
<1> DEFINE rest == SubSeq(p, n + 1, Len(p))
<1>1. rest \in Program /\ Len(p) \in Nat /\ DOMAIN p = 1 .. Len(p)
  BY DEF Program
<1>2. /\ n + 1 <= Len(p) => Len(rest) = Len(p) - n
      /\ ~ (n + 1 <= Len(p)) => Len(rest) = 0
  BY DEF Program
<1>4. \A k \in 1 .. Len(rest) : rest[k] = p[k + n]
  BY DEF Program
<1>5. 1 \in DOMAIN p /\ Head(p) = p[1] /\ p[1] \in SafeCall
  BY DEF Program
<1> HIDE DEF rest
<1>3. DOMAIN rest = 1 .. Len(rest) /\ Len(rest) \in Nat
  BY <1>1 DEF Program
<1>6. ASSUME NEW k \in DOMAIN rest
      PROVE  k \in Nat \ {0} /\ k + n \in DOMAIN p /\ rest[k] = p[k + n]
  <2>1. k \in 1 .. Len(rest)
    BY <1>3
  <2>2. n + 1 <= Len(p)
    <3>1. Len(rest) # 0
      BY <1>3, <2>1
    <3>2. QED
      BY <1>2, <3>1
  <2>5. Len(rest) = Len(p) - n
    BY <1>2, <2>2
  <2>3. k \in Nat \ {0} /\ k + n \in 1 .. Len(p)
    BY <1>1, <2>1, <2>2, <2>5
  <2>4. QED
    BY <1>1, <1>4, <2>1, <2>3
<1>7. ASSUME NEW i \in DOMAIN p, i > n
      PROVE  i - n \in DOMAIN rest /\ rest[i - n] = p[i]
  <2>2. i \in 1 .. Len(p) /\ n + 1 <= Len(p)
    BY <1>1, <1>7
  <2>3. Len(rest) = Len(p) - n
    BY <1>2, <2>2
  <2>1. i - n \in 1 .. Len(rest) /\ (i - n) + n = i
    BY <1>1, <1>7, <2>2, <2>3
  <2>4. QED
    BY <1>3, <1>4, <2>1
<1>8. QED
  BY <1>1, <1>5, <1>6, <1>7 DEF rest

LEMMA RestKeeps ==
  ASSUME NEW p \in Program, p # <<>>, NEW n \in Nat, n > 0, NEW s, Keeps(p, s)
  PROVE  Keeps(SubSeq(p, n + 1, Len(p)), s)
<1> DEFINE rest == SubSeq(p, n + 1, Len(p))
<1>1. \A k \in DOMAIN rest : k \in Nat \ {0} /\ k + n \in DOMAIN p /\ rest[k] = p[k + n]
  BY RestIs
<1> HIDE DEF rest
<1>2. Keeps(rest, s)
  BY <1>1 DEF Keeps
<1>3. QED
  BY <1>2 DEF rest

LEMMA RestSets ==
  ASSUME NEW p \in Program, p # <<>>, NEW n \in Nat, n > 0, NEW s, NEW given,
         NEW i \in DOMAIN p, SetsAt(p, s, given, i), i > n
  PROVE  Sets(SubSeq(p, n + 1, Len(p)), s, given)
<1> DEFINE rest == SubSeq(p, n + 1, Len(p))
<1>1. /\ \A k \in DOMAIN rest : k \in Nat \ {0} /\ k + n \in DOMAIN p /\ rest[k] = p[k + n]
      /\ i - n \in DOMAIN rest /\ rest[i - n] = p[i] /\ i \in Nat
      /\ rest \in Program
  BY RestIs
<1>2. \A k \in DOMAIN rest : rest[k].do = "skip" => rest[k].by \in Nat
  BY <1>1, SkipBounds
<1> HIDE DEF rest
<1>3. ASSUME NEW k \in DOMAIN rest
      PROVE  /\ k > i - n /\ rest[k].of = s => rest[k].do \notin Drops
             /\ k < i - n /\ rest[k].do = "when" => rest[k].of \in given
             /\ k < i - n /\ rest[k].do = "skip" /\ rest[k].of \notin given =>
                  k + rest[k].by < i - n
  <2>1. k \in Nat /\ k + n \in DOMAIN p /\ rest[k] = p[k + n]
    BY <1>1
  <2>2. /\ k > i - n => k + n > i
        /\ k < i - n => k + n < i
    BY <1>1, <2>1
  <2>3. k + n < i /\ rest[k].do = "skip" /\ rest[k].of \notin given =>
          k + n + rest[k].by < i
    BY <2>1 DEF SetsAt
  <2>4. k < i - n /\ rest[k].do = "skip" /\ rest[k].of \notin given => k + rest[k].by < i - n
    BY <1>1, <1>2, <2>1, <2>2, <2>3
  <2>5. QED
    BY <2>1, <2>2, <2>4 DEF SetsAt
<1>4. rest[i - n].of = s /\ rest[i - n].do \in Puts
  BY <1>1 DEF SetsAt
<1>5. Sets(rest, s, given)
  BY <1>1, <1>3, <1>4 DEF Sets, SetsAt
<1>6. QED
  BY <1>5 DEF rest

\* The first call sets the setting, or one that is left does.
LEMMA SetsOn ==
  ASSUME NEW p \in Program, p # <<>>, NEW s, NEW given, Sets(p, s, given)
  PROVE  /\ p[1].do = "when" => p[1].of \in given
         /\ \/ p[1].do \in Puts /\ p[1].of = s /\ Keeps(SubSeq(p, 2, Len(p)), s)
            \/ Sets(SubSeq(p, 2, Len(p)), s, given)
         /\ p[1].do = "skip" /\ p[1].of \notin given =>
              Sets(SubSeq(p, p[1].by + 2, Len(p)), s, given)
<1>1. PICK i \in DOMAIN p : SetsAt(p, s, given, i)
  BY DEF Sets
<1>2. 1 \in DOMAIN p /\ i \in Nat \ {0} /\ 1 \in Nat /\ 1 > 0 /\ 1 + 1 = 2
  BY RestIs
<1>3. CASE i = 1
  <2>1. p[1].do \in Puts /\ p[1].of = s
    BY <1>1, <1>3 DEF SetsAt
  <2>2. Keeps(SubSeq(p, 1 + 1, Len(p)), s)
    <3> DEFINE rest == SubSeq(p, 1 + 1, Len(p))
    <3>1. \A k \in DOMAIN rest : k \in Nat \ {0} /\ k + 1 \in DOMAIN p /\ rest[k] = p[k + 1]
      BY <1>2, RestIs
    <3> HIDE DEF rest
    <3>2. Keeps(rest, s)
      BY <1>1, <1>3, <3>1 DEF Keeps, SetsAt
    <3>3. QED
      BY <3>2 DEF rest
  <2>3. p[1].do # "when" /\ p[1].do # "skip"
    BY <2>1 DEF Puts
  <2>4. QED
    BY <1>2, <2>1, <2>2, <2>3
<1>4. CASE i > 1
  <2>1. p[1].do = "when" => p[1].of \in given
    BY <1>1, <1>2, <1>4 DEF SetsAt
  <2>2. Sets(SubSeq(p, 1 + 1, Len(p)), s, given)
    BY <1>1, <1>2, <1>4, RestSets
  <2>3. ASSUME p[1].do = "skip", p[1].of \notin given
        PROVE  Sets(SubSeq(p, p[1].by + 2, Len(p)), s, given)
    <3>1. 1 + p[1].by < i
      BY <1>1, <1>2, <1>4, <2>3 DEF SetsAt
    <3>2. p[1].by \in Nat
      BY <1>2, <2>3, SkipBounds
    <3>3. p[1].by + 1 \in Nat /\ p[1].by + 1 > 0 /\ i > p[1].by + 1 /\ p[1].by + 1 + 1 = p[1].by + 2
      BY <1>2, <3>1, <3>2
    <3>4. Sets(SubSeq(p, (p[1].by + 1) + 1, Len(p)), s, given)
      BY <1>1, <3>3, RestSets
    <3>5. QED
      BY <3>3, <3>4
  <2>4. QED
    BY <1>2, <2>1, <2>2, <2>3
<1>5. QED
  BY <1>2, <1>3, <1>4

\* What a plugin is there for is one of the settings: it sets it when all of them are wanted.
LEMMA PromisedAreSettings ==
  ASSUME NEW p \in DOMAIN Settings!Promised
  PROVE  Settings!Promised[p] \subseteq Settings!Settings
<1> DEFINE names == AtOnce \cup Settings!AtBoot
<1>1. Settings!Consistent(names)
  BY NamesAtOnce, AgentNamesAtOnce DEF Settings!Consistent
<1>2. Settings!Promised[p] \subseteq names
  <2>1. /\ {"hostname"} \subseteq names /\ {"san"} \subseteq names
        /\ {"keepalive", "keepalive interval"} \subseteq names /\ {"video idle"} \subseteq names
        /\ {"thumbprint"} \subseteq names /\ {"boot status"} \subseteq names
        /\ {"os device", "application device", "disk id", "auto recovery"} \subseteq names
        /\ {"updates"} \subseteq names /\ {"trim"} \subseteq names
        /\ {"product key", "kms host", "activation"} \subseteq names
        /\ {"warning"} \subseteq names /\ {"ssh keys"} \subseteq names
        /\ {"RdAgent", "WindowsAzureGuestAgent", "agent package", "VM type", "agent version",
            "agent start mode", "agent status"} \subseteq names
    BY NamesAtOnce, AgentNamesAtOnce, BootNames
  <2> HIDE DEF names
  <2>2. /\ Settings!Promised["SetHostName"] \subseteq names
        /\ Settings!Promised["SanPolicy"] \subseteq names
        /\ Settings!Promised["RDPSettings"] \subseteq names
        /\ Settings!Promised["DisplayIdleTimeout"] \subseteq names
        /\ Settings!Promised["RDPPostCertificateThumbprint"] \subseteq names
        /\ Settings!Promised["BootStatusPolicy"] \subseteq names
        /\ Settings!Promised["BCDConfig"] \subseteq names
        /\ Settings!Promised["WindowsAutoUpdates"] \subseteq names
        /\ Settings!Promised["Trim"] \subseteq names
        /\ Settings!Promised["WindowsLicensing"] \subseteq names
        /\ Settings!Promised["EphemeralDisk"] \subseteq names
        /\ Settings!Promised["SSHPublicKeys"] \subseteq names
        /\ Settings!Promised["AzureGuestAgent"] \subseteq names
    BY <2>1, PromisedIs, ZenonT(60)
  <2>3. QED
    BY <2>2, PromisedIs, Zenon
<1> HIDE DEF names
<1>3. ASSUME NEW s \in Settings!Promised[p] PROVE s \in Settings!Settings
  <2>1. Sets(Settings!Calls[p], s, names)
    BY <1>1, <1>2, PluginSets
  <2>2. PICK i \in DOMAIN Settings!Calls[p] : Settings!Calls[p][i].of = s
    BY <2>1 DEF Sets, SetsAt
  <2>3. p \in DOMAIN Settings!Calls
    BY PromisingPlugins
  <2>4. QED
    BY <2>2, <2>3, CallsAreSettings
<1>4. QED
  BY <1>3

\* A call has been made: what it was to set is set, and the others are as they were.
LEMMA FirstCall ==
  ASSUME SettingsTypeInv, CallsInv, settingsPc = "call", calls # <<>>
  PROVE  /\ Settings!Call = calls[1] /\ 1 \in DOMAIN calls /\ calls[1] \in SafeCall
         /\ calls \in Program /\ Settings!Call.of \in Settings!Settings
<1>1. calls \in Program
  BY DEF SettingsTypeInv
<1>2. Settings!Call = calls[1] /\ 1 \in DOMAIN calls /\ calls[1] \in SafeCall
  BY <1>1, RestIs DEF Settings!Call
<1>3. QED
  BY <1>1, <1>2 DEF CallsInv

\* What the call that is made next does to the settings.
Effect ==
  /\ \A s \in Settings!Settings : stored'[s] = "new" \/ stored'[s] = stored[s]
                                   \/ (s = Settings!Call.of /\ Settings!Call.do \in Drops)
  /\ Settings!Call.do \in Puts => stored'[Settings!Call.of] = "new"

LEMMA GoesSet ==
  ASSUME SettingsTypeInv, CallsInv, DoneInv, settingsPc = "call", calls # <<>>, Effect,
         Settings!Goes(1), Settings!Call.do # "skip"
  PROVE  CallsInv' /\ DoneInv'
<1> DEFINE rest == SubSeq(calls, 2, Len(calls))
<1>0. /\ calls' = rest /\ UNCHANGED <<settingsPc, at, settingsHost, settingsDone>>
  BY DEF Settings!Goes
<1>1. /\ Settings!Call = calls[1] /\ 1 \in DOMAIN calls /\ calls \in Program
  BY FirstCall
<1>2. \A i \in DOMAIN rest : i + 1 \in DOMAIN calls /\ rest[i] = calls[i + 1]
  <2>1. 1 \in Nat /\ 1 > 0 /\ 1 + 1 = 2
    OBVIOUS
  <2>2. \A i \in DOMAIN rest : i \in Nat \ {0} /\ i + 1 \in DOMAIN calls /\ rest[i] = calls[i + 1]
    BY <1>1, <2>1, RestIs
  <2>3. QED
    BY <2>2
<1>3. \A s : Keeps(calls, s) => Keeps(rest, s)
  <2>1. 1 \in Nat /\ 1 > 0 /\ 1 + 1 = 2
    OBVIOUS
  <2>2. QED
    BY <1>1, <2>1, RestKeeps
<1>4. \A s, given : Sets(calls, s, given) =>
        \/ Settings!Call.do \in Puts /\ Settings!Call.of = s /\ Keeps(rest, s)
        \/ Sets(rest, s, given)
  BY <1>1, SetsOn
<1> HIDE DEF rest
<1>5. ASSUME NEW s \in Settings!Settings, stored[s] = "new", Keeps(calls, s)
      PROVE  stored'[s] = "new"
  <2>1. ~ (s = Settings!Call.of /\ Settings!Call.do \in Drops)
    BY <1>1, <1>5 DEF Keeps
  <2>2. QED
    BY <1>5, <2>1 DEF Effect
<1>6. \A q \in DOMAIN Settings!Promised : Settings!Promised[q] \subseteq Settings!Settings
  BY PromisedAreSettings
<1>7. DoneInv'
  <2>1. ASSUME NEW p \in settingsDone, NEW s \in Wants(p) PROVE stored'[s] = "new"
    <3>1. p \in DOMAIN Settings!Promised
      BY DonePromise
    <3>2. s \in Settings!Settings /\ s \in Settings!Promised[p]
      BY <1>6, <3>1 DEF Wants
    <3>3. stored[s] = "new"
      BY <2>1 DEF DoneInv
    <3>4. Keeps(calls, s)
      BY <3>2 DEF CallsInv
    <3>5. QED
      BY <1>5, <3>2, <3>3, <3>4
  <2>2. QED
    BY <1>0, <2>1 DEF DoneInv, Wants
<1>8. CallsInv'
  <2>1. \A i \in DOMAIN rest : rest[i].of \in Settings!Settings
    BY <1>2 DEF CallsInv
  <2>2. \A q \in settingsDone : \A s \in Settings!Promised[q] : Keeps(rest, s)
    BY <1>3 DEF CallsInv
  <2>3. ASSUME Settings!Plugin \notin Settings!EachBoot, NEW s \in Wants(Settings!Plugin)
        PROVE  Sets(rest, s, settingsHost.given) \/ (stored'[s] = "new" /\ Keeps(rest, s))
    <3>1. s \in Settings!Settings
      BY <1>6, <2>3, DonePromise, PromisingPlugins DEF Wants
    <3>2. CASE Sets(calls, s, settingsHost.given)
      BY <1>4, <3>2 DEF Effect
    <3>3. CASE stored[s] = "new" /\ Keeps(calls, s)
      BY <1>3, <1>5, <3>1, <3>3
    <3>4. QED
      BY <2>3, <3>2, <3>3 DEF CallsInv
  <2>4. UNCHANGED Settings!Plugin
    BY <1>0 DEF Settings!Plugin
  <2>5. \A p : Wants(p)' = Wants(p)
    BY <1>0 DEF Wants
  <2>6. QED
    BY <1>0, <2>1, <2>2, <2>3, <2>4, <2>5 DEF CallsInv
<1>9. QED
  BY <1>7, <1>8

LEMMA SkipSet ==
  ASSUME SettingsTypeInv, CallsInv, Settings!SkipCalls
  PROVE  CallsInv'
<1>1. /\ settingsPc = "call" /\ calls # <<>> /\ Settings!Call.do = "skip"
      /\ UNCHANGED <<settingsPc, at, settingsHost, settingsDone, stored>>
  BY DEF Settings!SkipCalls, Settings!Making, Settings!Goes, Settings!Same
<1>2. /\ Settings!Call = calls[1] /\ 1 \in DOMAIN calls /\ calls \in Program
      /\ calls[1].by \in Nat
  BY <1>1, FirstCall, SkipBounds
<1> DEFINE n == IF Settings!Given(Settings!Call.of) THEN 1 ELSE 1 + Settings!Call.by
           rest == SubSeq(calls, n + 1, Len(calls))
<1>3. n \in Nat /\ n > 0 /\ calls' = rest
  BY <1>2 DEF Settings!SkipCalls, Settings!Goes
<1>4. \A s : Sets(calls, s, settingsHost.given) => Sets(rest, s, settingsHost.given)
  <2>1. ASSUME NEW s, Sets(calls, s, settingsHost.given)
        PROVE  Sets(rest, s, settingsHost.given)
    <3>1. CASE Settings!Call.of \in settingsHost.given
      <4>1. n + 1 = 2
        BY <3>1 DEF Settings!Given
      <4>2. Settings!Call.do \notin Puts
        BY <1>1 DEF Puts
      <4>3. QED
        BY <1>1, <1>2, <2>1, <4>1, <4>2, SetsOn
    <3>2. CASE Settings!Call.of \notin settingsHost.given
      <4>1. n + 1 = calls[1].by + 2
        BY <1>2, <3>2 DEF Settings!Given
      <4>2. QED
        BY <1>1, <1>2, <2>1, <3>2, <4>1, SetsOn
    <3>3. QED
      BY <3>1, <3>2
  <2>2. QED
    BY <2>1
<1> HIDE DEF n
<1>5. \A i \in DOMAIN rest : i \in Nat \ {0} /\ i + n \in DOMAIN calls /\ rest[i] = calls[i + n]
  BY <1>1, <1>2, <1>3, RestIs
<1>6. \A s : Keeps(calls, s) => Keeps(rest, s)
  BY <1>1, <1>2, <1>3, RestKeeps
<1> HIDE DEF rest
<1>7. \A i \in DOMAIN rest : rest[i].of \in Settings!Settings
  BY <1>1, <1>5 DEF CallsInv
<1>8. UNCHANGED Settings!Plugin /\ \A p : Wants(p)' = Wants(p)
  BY <1>1 DEF Settings!Plugin, Wants
<1>9. QED
  BY <1>1, <1>3, <1>4, <1>6, <1>7, <1>8 DEF CallsInv

LEMMA ExecuteSet ==
  ASSUME SettingsTypeInv, Settings!Execute
  PROVE  CallsInv'
<1>1. /\ Settings!Plugin \notin settingsDone /\ calls' = Settings!Calls[Settings!Plugin]
      /\ at <= Len(settingsHost.plugins)
      /\ UNCHANGED <<at, settingsHost, settingsDone, stored>>
  BY DEF Settings!Execute
<1>2. settingsHost.plugins \in Seq(DOMAIN Settings!Calls) /\ at \in 1 .. Len(settingsHost.plugins) + 1
  BY SettingsHostFacts DEF SettingsTypeInv
<1>3. at \in DOMAIN settingsHost.plugins
  BY <1>1, <1>2
<1>4. Settings!Plugin \in DOMAIN Settings!Calls /\ Settings!Consistent(settingsHost.given)
  BY <1>3, DonePromise
<1>5. settingsDone \subseteq DOMAIN Settings!Promised
  BY DonePromise
<1> DEFINE mine == Settings!Plugin
           made == Settings!Calls[mine]
<1> HIDE DEF mine
<1>6. \A i \in DOMAIN made : made[i].of \in Settings!Settings
  BY <1>4, CallsAreSettings DEF mine
<1>7. \A q \in settingsDone : \A s \in Settings!Promised[q] : Keeps(made, s)
  BY <1>1, <1>4, <1>5, OthersKeep DEF mine
<1>8. ASSUME mine \notin Settings!EachBoot, NEW s \in Wants(mine)
      PROVE  Sets(made, s, settingsHost.given)
  <2>1. mine \in DOMAIN Settings!Promised
    BY <1>4, <1>8, PromisingPlugins DEF mine
  <2>2. QED
    BY <1>4, <2>1, PluginSets DEF Wants
<1> HIDE DEF made
<1>9. Settings!Plugin' = mine /\ (\A p : Wants(p)' = Wants(p)) /\ calls' = made
  BY <1>1 DEF Settings!Plugin, Wants, mine, made
<1>10. mine \notin settingsDone'
  BY <1>1 DEF mine
<1>11. QED
  BY <1>1, <1>6, <1>7, <1>8, <1>9, <1>10 DEF CallsInv

\* The calls are over, or the first one of them finds that nothing is wanted.
LEMMA ReturnSet ==
  ASSUME SettingsTypeInv, CallsInv, DoneInv, settingsPc = "call", NEW result, Settings!Return(result),
         result = "done" => \/ calls = <<>>
                            \/ /\ calls # <<>> /\ Settings!Call.do = "when"
                               /\ ~ Settings!Given(Settings!Call.of)
  PROVE  CallsInv' /\ DoneInv'
<1>1. /\ settingsPc' # "call" /\ UNCHANGED <<settingsHost, stored>>
      /\ settingsDone' \subseteq settingsDone \cup {p \in {Settings!Plugin} \ Settings!EachBoot : result = "done"}
  BY DEF Settings!Return
<1>2. ASSUME result = "done", NEW s, Sets(calls, s, settingsHost.given)
      PROVE  FALSE
  <2>1. CASE calls = <<>>
    BY <1>2, <2>1 DEF Sets
  <2>2. CASE calls # <<>>
    <3>1. calls \in Program /\ Settings!Call = calls[1]
      BY <2>2, FirstCall
    <3>2. calls[1].do = "when" /\ calls[1].of \notin settingsHost.given
      BY <1>2, <2>2, <3>1 DEF Settings!Given
    <3>3. QED
      BY <1>2, <2>2, <3>1, <3>2, SetsOn
  <2>3. QED
    BY <2>1, <2>2
<1>3. ASSUME result = "done", Settings!Plugin \notin Settings!EachBoot,
             NEW s \in Wants(Settings!Plugin)
      PROVE  stored[s] = "new"
  BY <1>2, <1>3 DEF CallsInv
<1>4. DoneInv'
  <2>1. ASSUME NEW p \in settingsDone', NEW s \in Wants(p) PROVE stored[s] = "new"
    <3>1. CASE p \in settingsDone
      BY <2>1, <3>1 DEF DoneInv
    <3>2. CASE p = Settings!Plugin /\ p \notin Settings!EachBoot /\ result = "done"
      BY <1>3, <2>1, <3>2
    <3>3. QED
      BY <1>1, <3>1, <3>2
  <2>2. \A p : Wants(p)' = Wants(p)
    BY <1>1 DEF Wants
  <2>3. QED
    BY <1>1, <2>1, <2>2 DEF DoneInv
<1>5. QED
  BY <1>1, <1>4 DEF CallsInv

LEMMA NextBootInv ==
  ASSUME SettingsTypeInv, ValueInv, BootInv, Settings!Next
  PROVE  BootInv'
<1>1. CASE Settings!Start
  BY <1>1 DEF Settings!Start, BootInv
<1>2. CASE \/ Settings!Pass \/ Settings!Execute \/ Settings!StageOver \/ Settings!End
           \/ Settings!NotWanted \/ Settings!NoAnswer \/ Settings!Raise
           \/ Settings!Wanted \/ Settings!SkipCalls \/ Settings!Answer \/ Settings!Unnoticed
  <2>1. UNCHANGED <<stored, active>>
    BY <1>2
    DEF Settings!Pass, Settings!Execute, Settings!StageOver, Settings!End, Settings!NotWanted,
        Settings!NoAnswer, Settings!Raise, Settings!Wanted, Settings!SkipCalls, Settings!Answer,
        Settings!Unnoticed, Settings!Return, Settings!Goes, Settings!Same
  <2>2. QED
    BY <2>1 DEF BootInv
<1>3. CASE Settings!PutValue \/ Settings!DropValue \/ Settings!TryValue \/ Settings!AskReboot
  <2>1. /\ settingsPc = "call" /\ calls # <<>> /\ UNCHANGED active
        /\ Settings!Call.do \in {"put", "sync", "drop", "trydrop", "try", "stored", "active"}
    BY <1>3 DEF Settings!PutValue, Settings!DropValue, Settings!TryValue, Settings!AskReboot,
                Settings!Making, Settings!Goes
  <2>2. Settings!Call \in SafeCall
    BY <2>1 DEF Settings!Call, SettingsTypeInv, Program
  <2> DEFINE of == Settings!Call.of
  <2>3. CASE Settings!Call.do \in {"put", "sync", "drop", "trydrop", "try"}
    <3>1. of \notin Settings!AtBoot
      BY <2>2, <2>3, KindIs
    <3>2. PICK v \in Value : stored' = [stored EXCEPT ![of] = v]
      BY <1>3, <2>3 DEF Settings!PutValue, Settings!DropValue, Settings!TryValue,
         Settings!AskReboot, Settings!Making, Settings!Set, Value
    <3> HIDE DEF of
    <3>3. \A s \in Settings!AtBoot : stored'[s] = stored[s]
      BY <3>1, <3>2, AtBootAreSettings DEF ValueInv
    <3>4. QED
      BY <2>1, <3>3 DEF BootInv
  <2>4. CASE Settings!Call.do \in {"stored", "active"}
    <3>1. UNCHANGED stored \/ stored' = [stored EXCEPT ![of] = "new"]
      BY <1>3, <2>4 DEF Settings!PutValue, Settings!DropValue, Settings!TryValue,
         Settings!AskReboot, Settings!Making, Settings!Set
    <3> HIDE DEF of
    <3>2. \A s \in Settings!AtBoot : stored'[s] = stored[s] \/ stored'[s] = "new"
      BY <3>1, AtBootAreSettings DEF ValueInv
    <3>3. QED
      BY <2>1, <3>2 DEF BootInv
  <2>5. QED
    BY <2>1, <2>3, <2>4
<1>4. QED
  BY <1>1, <1>2, <1>3 DEF Settings!Next

LEMMA EffectIs ==
  ASSUME SettingsTypeInv, ValueInv, CallsInv, BootInv
  PROVE  /\ Settings!Wanted \/ Settings!Answer \/ Settings!Unnoticed => Effect
         /\ Settings!PutValue \/ Settings!DropValue \/ Settings!TryValue => Effect
         /\ Settings!AskReboot => Effect
<1> DEFINE of == Settings!Call.of
<1>1. ASSUME Settings!Wanted \/ Settings!Answer \/ Settings!Unnoticed
      PROVE  Effect
  <2>1. UNCHANGED stored /\ Settings!Call.do \notin Puts
    BY <1>1 DEF Settings!Wanted, Settings!Answer, Settings!Unnoticed, Settings!Making,
                Settings!Same, Puts
  <2>2. QED
    BY <2>1 DEF Effect
<1>2. ASSUME Settings!PutValue \/ Settings!DropValue \/ Settings!TryValue
      PROVE  Effect
  <2>1. settingsPc = "call" /\ calls # <<>>
    BY <1>2 DEF Settings!PutValue, Settings!DropValue, Settings!TryValue, Settings!Making
  <2>2. of \in Settings!Settings
    BY <2>1, FirstCall
  <2>3. \/ stored' = [stored EXCEPT ![of] = "new"]
        \/ stored' = [stored EXCEPT ![of] = "none"] /\ Settings!Call.do \in Drops
    BY <1>2 DEF Settings!PutValue, Settings!DropValue, Settings!TryValue, Settings!Making,
                Settings!Set, Drops
  <2>4. Settings!Call.do \in Drops => Settings!Call.do \notin Puts
    BY DEF Puts, Drops
  <2> HIDE DEF of
  <2>5. /\ \A s \in Settings!Settings : s # of => stored'[s] = stored[s]
        /\ stored'[of] = "new" \/ Settings!Call.do \in Drops
    BY <2>2, <2>3 DEF ValueInv
  <2>6. QED
    BY <2>4, <2>5 DEF Effect, of
<1>3. ASSUME Settings!AskReboot
      PROVE  Effect
  <2>1. settingsPc = "call" /\ calls # <<>> /\ Settings!Call.do \in {"stored", "active"}
    BY <1>3 DEF Settings!AskReboot, Settings!Making
  <2>2. of \in Settings!Settings /\ of \in Settings!AtBoot
    BY <2>1, FirstCall, KindIs
  <2>3. \/ UNCHANGED stored /\ Settings!Current = "new"
        \/ stored' = [stored EXCEPT ![of] = "new"]
    BY <1>3 DEF Settings!AskReboot, Settings!Set
  <2>4. Settings!Current = "new" => stored[of] = "new"
    BY <2>2 DEF Settings!Current, BootInv
  <2> HIDE DEF of
  <2>5. /\ \A s \in Settings!Settings : s # of => stored'[s] = stored[s]
        /\ stored'[of] = "new"
    BY <2>2, <2>3, <2>4 DEF ValueInv
  <2>6. QED
    BY <2>5 DEF Effect, of
<1>4. QED
  BY <1>1, <1>2, <1>3

LEMMA NextSetInv ==
  ASSUME SettingsTypeInv, ValueInv, SetInv, Settings!Next
  PROVE  SetInv'
<1>0. CallsInv /\ DoneInv /\ BootInv
  BY DEF SetInv
<1>1. BootInv'
  BY <1>0, NextBootInv
<1>2. CASE Settings!Start \/ Settings!Pass \/ Settings!StageOver \/ Settings!Raise
  <2>1. settingsPc' # "call" /\ UNCHANGED <<settingsHost, settingsDone, stored>>
    BY <1>2 DEF Settings!Start, Settings!Pass, Settings!StageOver, Settings!Raise
  <2>2. CallsInv' /\ DoneInv'
    BY <1>0, <2>1 DEF CallsInv, DoneInv, Wants
  <2>3. QED
    BY <1>1, <2>2 DEF SetInv
<1>3. CASE Settings!Execute
  <2>1. CallsInv'
    BY <1>3, ExecuteSet
  <2>2. DoneInv'
    BY <1>0, <1>3 DEF Settings!Execute, DoneInv, Wants
  <2>3. QED
    BY <1>1, <2>1, <2>2 DEF SetInv
<1>4. CASE Settings!End \/ Settings!NotWanted \/ Settings!NoAnswer
  <2>1. PICK result :
          /\ settingsPc = "call" /\ Settings!Return(result)
          /\ result = "done" => \/ calls = <<>>
                                \/ /\ calls # <<>> /\ Settings!Call.do = "when"
                                   /\ ~ Settings!Given(Settings!Call.of)
    <3>1. CASE Settings!End
      BY <3>1 DEF Settings!End
    <3>2. CASE Settings!NotWanted
      BY <3>2 DEF Settings!NotWanted, Settings!Making
    <3>3. CASE Settings!NoAnswer
      <4>1. settingsPc = "call" /\ Settings!Return("again") /\ "again" # "done"
        BY <3>3 DEF Settings!NoAnswer, Settings!Making
      <4>2. QED
        BY <4>1
    <3>4. QED
      BY <1>4, <3>1, <3>2, <3>3
  <2>2. QED
    BY <1>0, <1>1, <2>1, ReturnSet DEF SetInv
<1>5. CASE \/ Settings!Wanted \/ Settings!Answer \/ Settings!Unnoticed \/ Settings!PutValue
           \/ Settings!DropValue \/ Settings!TryValue \/ Settings!AskReboot
  <2>1. Effect
    BY <1>0, <1>5, EffectIs
  <2>2. /\ settingsPc = "call" /\ calls # <<>> /\ Settings!Goes(1) /\ Settings!Call.do # "skip"
    BY <1>5 DEF Settings!Wanted, Settings!Answer, Settings!PutValue, Settings!DropValue,
                Settings!TryValue, Settings!Unnoticed, Settings!AskReboot, Settings!Making
  <2>3. QED
    BY <1>0, <1>1, <2>1, <2>2, GoesSet DEF SetInv
<1>6. CASE Settings!SkipCalls
  <2>1. DoneInv'
    BY <1>0, <1>6 DEF Settings!SkipCalls, Settings!Goes, Settings!Same, DoneInv, Wants
  <2>2. QED
    BY <1>0, <1>1, <1>6, <2>1, SkipSet DEF SetInv
<1>7. QED
  BY <1>2, <1>3, <1>4, <1>5, <1>6 DEF Settings!Next

LEMMA StepSetInv ==
  ASSUME SettingsInv, SetInv, [Next]_vars
  PROVE  SetInv'
<1>1. CASE Settings!Next
  BY <1>1, NextSetInv DEF SettingsInv
<1>2. CASE Settings!Halt
  <2>1. settingsPc' # "call" /\ UNCHANGED <<settingsHost, settingsDone, stored, active>>
    BY <1>2 DEF Settings!Halt
  <2>2. QED
    BY <2>1 DEF SetInv, CallsInv, DoneInv, BootInv, Wants
<1>3. CASE UNCHANGED settingsVars
  BY <1>3 DEF settingsVars, SetInv, CallsInv, DoneInv, BootInv, Wants, Settings!Plugin
<1>4. Settings!Next \/ Settings!Halt \/ UNCHANGED settingsVars
  BY DEF Next, Own, vars, Boot, Reset, ResetOver, Gone, Configure, ConfigureOver, Open, OpenOver,
         Reboot, Crash, Down, Settings!Next
<1>5. QED
  BY <1>1, <1>2, <1>3, <1>4

\* A plugin whose result is recorded, and which is not executed again, has set everything it
\* is there for, whatever raised or was interrupted before.
THEOREM RecordedPluginsAreDone == Spec => []DoneIsSet
<1>1. Init => SetInv
  BY DEF Init, Settings!Init, SetInv, CallsInv, DoneInv, BootInv
<1>2. SettingsInv /\ SetInv /\ [Next]_vars => SetInv'
  BY StepSetInv
<1>3. SetInv => DoneIsSet
  BY DEF SetInv, DoneInv, Wants, DoneIsSet, Settings!DoneIsSet
<1>4. QED
  BY <1>1, <1>2, <1>3, SettingsInvHolds, PTL DEF Spec

-----------------------------------------------------------------------------
(* The types of the whole. *)

CountInv ==
  /\ turn \in {"off", "account", "settings", "remote", "rest"}
  /\ crashes \in 0 .. MaxCrashes /\ failures \in 0 .. MaxFailures

AccountTypeInv ==
  /\ account \in {m.account : m \in Machines} /\ own \in BOOLEAN
  /\ password \in 0 .. 3 /\ credentials \in 0 .. 3

\* A call that raises is counted.
LEMMA FailureCounts ==
  ASSUME failures \in 0 .. MaxFailures
  PROVE  /\ Account!Next \/ Settings!Next \/ Remote!Next => failures' \in 0 .. MaxFailures
         /\ Account!Start \/ Settings!Start \/ Remote!Start => failures' \in 0 .. MaxFailures
<1>0. MaxFailures \in Nat
  BY HostConfigurationAssumption
<1>1. ASSUME failures' = failures \/ (failures < MaxFailures /\ failures' = failures + 1)
      PROVE  failures' \in 0 .. MaxFailures
  BY <1>0, <1>1
<1>2. Account!Next => failures' = failures \/ (failures < MaxFailures /\ failures' = failures + 1)
  BY DEF Account!Next, Account!Start, Account!Keep, Account!SetPassword, Account!SetCredentials,
         Account!OtherUser, Account!Logon, Account!Spawn, Account!Raise, Account!Goes
<1>3. Settings!Next => failures' = failures \/ (failures < MaxFailures /\ failures' = failures + 1)
  BY DEF Settings!Next, Settings!Start, Settings!Pass, Settings!Execute, Settings!StageOver,
         Settings!End, Settings!NotWanted, Settings!NoAnswer, Settings!Raise, Settings!Wanted,
         Settings!SkipCalls, Settings!Answer, Settings!PutValue, Settings!DropValue,
         Settings!TryValue, Settings!Unnoticed, Settings!AskReboot, Settings!Return, Settings!Same
<1>4. Remote!Next => failures' = failures \/ (failures < MaxFailures /\ failures' = failures + 1)
  BY DEF Remote!Next, Remote!Goes, Remote!Raise,
         Remote!Start, Remote!Pass, Remote!Imported, Remote!NoService,
         Remote!NoClientCerts, Remote!Raises, Remote!Certificates, Remote!CheckService,
         Remote!Entries, Remote!ClientCerts, Remote!LiftRaises, Remote!BodyOver,
         Remote!BodyRaises, Remote!RestoreRaises, Remote!SetMode, Remote!StartService,
         Remote!Lift, Remote!Restore, Remote!SetAuth, Remote!Import, Remote!Certificate,
         Remote!DeleteListener, Remote!CreateListener, Remote!CreateRule,
         Remote!ImportClientCert, Remote!DeleteMapping, Remote!CreateMapping
<1>5. Account!Start \/ Settings!Start \/ Remote!Start => failures' = failures
  BY DEF Account!Start, Settings!Start, Remote!Start
<1>6. QED
  BY <1>1, <1>2, <1>3, <1>4, <1>5

LEMMA NextCountInv ==
  ASSUME CountInv, [Next]_vars
  PROVE  CountInv'
<1>1. failures' \in 0 .. MaxFailures
  <2>1. CASE \/ Account!Next \/ Settings!Next \/ Remote!Next
             \/ Account!Start \/ Settings!Start \/ Remote!Start
    BY <2>1, FailureCounts DEF CountInv
  <2>2. CASE UNCHANGED failures
    BY <2>2 DEF CountInv
  <2>3. QED
    BY <2>1, <2>2
    DEF Next, Own, vars, Boot, Reset, ResetOver, Gone, Configure, ConfigureOver, Open, OpenOver,
        Reboot, Crash, Down
<1>2. crashes' \in 0 .. MaxCrashes
  <2>1. UNCHANGED crashes \/ (crashes < MaxCrashes /\ crashes' = crashes + 1)
    BY DEF Next, Own, vars, Boot, Reset, ResetOver, Gone, Configure, ConfigureOver, Open, OpenOver,
        Reboot, Crash
  <2>2. QED
    BY <2>1, HostConfigurationAssumption DEF CountInv
<1>3. turn' \in {"off", "account", "settings", "remote", "rest"}
  BY DEF CountInv, Next, Own, vars, Boot, Reset, ResetOver, Gone, Configure, ConfigureOver, Open,
         OpenOver, Reboot, Crash, Down
<1>4. QED
  BY <1>1, <1>2, <1>3 DEF CountInv

LEMMA NextAccountTypeInv ==
  ASSUME AccountTypeInv, [Next]_vars
  PROVE  AccountTypeInv'
<1>1. UNCHANGED <<account, own>>
  BY DEF Next, Own, vars, Boot, Reset, ResetOver, Gone, Configure, ConfigureOver, Open,
         OpenOver, Reboot, Crash, Down, accountVars, Account!Halt, Account!Next,
         Account!Start, Account!Keep, Account!SetPassword, Account!SetCredentials,
         Account!OtherUser, Account!Logon, Account!Spawn, Account!Raise, Account!Goes
<1>2. password' \in {password, Account!Fresh(password)} /\ credentials' \in {credentials, password}
  BY DEF Next, Own, vars, Boot, Reset, ResetOver, Gone, Configure, ConfigureOver, Open,
         OpenOver, Reboot, Crash, Down, accountVars, Account!Halt, Account!Next,
         Account!Start, Account!Keep, Account!SetPassword, Account!SetCredentials,
         Account!OtherUser, Account!Logon, Account!Spawn, Account!Raise, Account!Goes
<1>3. Account!Fresh(password) \in 0 .. 3
  BY DEF AccountTypeInv, Account!Fresh
<1>4. QED
  BY <1>1, <1>2, <1>3 DEF AccountTypeInv

LEMMA CountInvHolds == Spec => [](CountInv /\ AccountTypeInv)
<1>1. Init => CountInv /\ AccountTypeInv
  BY HostConfigurationAssumption DEF Init, Account!Init, CountInv, AccountTypeInv
<1>2. CountInv /\ AccountTypeInv /\ [Next]_vars => (CountInv /\ AccountTypeInv)'
  BY NextCountInv, NextAccountTypeInv
<1>3. QED
  BY <1>1, <1>2, PTL DEF Spec

LEMMA AccountInvHolds == Spec => []AccountInv
BY InitAccountInv, NextAccountInv, PTL DEF Spec

\* The variables of the composition and of its three parts have their types.
THEOREM HostTypes == Spec => []TypeOK
<1>1. ASSUME CountInv, AccountTypeInv, AccountInv, SettingsInv, RemoteInv PROVE TypeOK
  <2>1. Account!TypeOK
    BY <1>1 DEF AccountInv, ResetInv, AccountTypeInv, Account!TypeOK
  <2>2. Settings!TypeOK
    <3>1. \A s \in DOMAIN stored : {stored[s], active[s]} \subseteq {"old", "new", "none"}
      BY <1>1 DEF SettingsInv, ValueInv, Value
    <3>2. QED
      BY <1>1, <3>1 DEF SettingsInv, SettingsTypeInv, ValueInv, Settings!TypeOK
  <2>3. Remote!TypeOK
    <3>1. remoteDone \subseteq {Remote!Order[n] : n \in DOMAIN Remote!Order}
      BY <1>1 DEF RemoteInv, StepInv, Remote!Order
    <3>2. /\ plugin \in 1 .. 4 /\ running \in BOOLEAN /\ lifted \in BOOLEAN /\ raised \in BOOLEAN
          /\ left \in BOOLEAN
      BY <1>1 DEF RemoteInv, StepInv, FlagInv
    <3>3. QED
      BY <1>1, <3>1, <3>2 DEF RemoteInv, MachineInv, Remote!TypeOK
  <2>4. QED
    BY <1>1, <2>1, <2>2, <2>3 DEF CountInv, TypeOK
<1>2. QED
  BY <1>1, CountInvHolds, AccountInvHolds, SettingsInvHolds, RemoteInvHolds, PTL

=============================================================================
