---------------------------- MODULE RemoteAccess ----------------------------
(***************************************************************************)
(* Windows Remote Management: the plugins that import certificates, create *)
(* the listeners and map client certificates to the user.  Windows before  *)
(* 8 denies such changes while the UAC remote restrictions are on, so both *)
(* configuring plugins switch the restrictions off and on again.           *)
(***************************************************************************)
EXTENDS Naturals, Sequences, FiniteSets

CONSTANTS
  Hosts,        \* [legacy, restricted, service, mode, existing, server, listeners, client, bare]
  Self,         \* a certificate the plugin generates
  NoCert,       \* no certificate: a listener over HTTP
  NoListener,
  MaxFailures

VARIABLES
  pc, plugin,   \* the step, and the plugin under execution or to be executed next
  host,         \* what the image and the metadata are like
  mode,         \* start mode of the WinRM service
  running,      \* the service runs
  restrictions, \* the UAC remote restrictions are "on" or "off"
  lifted,       \* disable_uac_remote_restrictions: this execution puts them back
  todo,         \* entries of the metadata still to be handled
  store,        \* certificates in the machine's stores
  listener,     \* for each protocol its certificate, NoCert or NoListener
  ports,        \* protocols with a firewall rule
  mappings,     \* client certificates mapped to the user
  auth,         \* enabled kinds of authentication
  raised,       \* the body has raised
  done,         \* plugins that need not run again
  left,         \* restrictions left off by a crash, or by a failure to put them back
  failures

vars == <<pc, plugin, host, mode, running, restrictions, lifted, todo, store,
          listener, ports, mappings, auth, raised, done, left, failures>>

system == <<mode, running, restrictions, store, listener, ports, mappings, auth>>

Protocols == {"HTTP", "HTTPS"}
Order == <<"certificates", "listener", "certauth">>

Init ==
  /\ pc = "idle" /\ plugin = 1
  /\ host \in Hosts
  /\ mode = host.mode /\ running = (host.mode = "auto")
  /\ restrictions = host.restricted /\ lifted = FALSE
  /\ todo = <<>> /\ store = {}
  /\ listener = [p \in Protocols |-> IF p \in host.existing THEN NoCert ELSE NoListener]
  /\ ports = {} /\ mappings = {} /\ auth = {}
  /\ raised = FALSE /\ done = {} /\ left = FALSE

Start ==
  /\ pc = "idle"
  /\ pc' = "next" /\ plugin' = 1 /\ running' = (mode = "auto" /\ host.service)
  /\ UNCHANGED <<host, mode, restrictions, lifted, todo, store, listener, ports, mappings, auth, raised, done, left, failures>>

Halt ==
  /\ pc' = "idle" /\ plugin' = 1 /\ lifted' = FALSE /\ todo' = <<>> /\ raised' = FALSE
  /\ left' = (left \/ lifted)
  /\ UNCHANGED <<host, system, done>>

Goes(next) == pc' = next /\ UNCHANGED <<plugin, host, raised, done, left, failures>>

Over(result) ==
  /\ done' = IF result = "done" THEN done \cup {Order[plugin]} ELSE done
  /\ plugin' = plugin + 1
  /\ pc' = IF plugin = Len(Order) THEN "over" ELSE "next"
  /\ todo' = <<>> /\ raised' = FALSE /\ lifted' = FALSE

Due(p) == pc = "next" /\ Order[plugin] = p /\ p \notin done

Pass ==
  /\ pc = "next" /\ Order[plugin] \in done
  /\ Over("done")
  /\ UNCHANGED <<host, system, left, failures>>

Raise(where) ==
  /\ pc \in where
  /\ failures < MaxFailures /\ failures' = failures + 1

\* Outside the bodies: nothing to put back, the plugin runs again at the next boot.
Raises ==
  /\ \/ Raise({"import", "mode", "status", "entries", "lift"})
     \/ Due("certauth") /\ Raise({"next"})
  /\ Over("again")
  /\ UNCHANGED <<host, system, left>>

-----------------------------------------------------------------------------
(* ServerCertificatesPlugin: every certificate is imported, or the next boot *)
(* starts with the first again.                                            *)

Certificates ==
  /\ Due("certificates")
  /\ todo' = host.server
  /\ Goes("import") /\ UNCHANGED <<system, lifted>>

Import ==
  /\ pc = "import" /\ todo # <<>>
  /\ store' = store \cup {Head(todo)} /\ todo' = Tail(todo)
  /\ Goes("import")
  /\ UNCHANGED <<mode, running, restrictions, listener, ports, mappings, auth, lifted>>

Imported ==
  /\ pc = "import" /\ todo = <<>>
  /\ Over("done")
  /\ UNCHANGED <<host, system, left, failures>>


-----------------------------------------------------------------------------
(* ConfigWinRMListenerPlugin: the service first. *)

NoService ==
  /\ Due("listener") /\ ~host.service
  /\ Over("again")
  /\ UNCHANGED <<host, system, left, failures>>

CheckService ==
  /\ Due("listener") /\ host.service
  /\ Goes("mode") /\ UNCHANGED <<system, lifted, todo>>

SetMode ==
  /\ pc = "mode"
  /\ mode' = "auto"
  /\ Goes("status")
  /\ UNCHANGED <<running, restrictions, store, listener, ports, mappings, auth, lifted, todo>>

StartService ==
  /\ pc = "status"
  /\ running' = TRUE
  /\ Goes("entries")
  /\ UNCHANGED <<mode, restrictions, store, listener, ports, mappings, auth, lifted, todo>>

Entries ==
  /\ pc = "entries"
  /\ IF host.listeners = <<>>
     THEN Over("done") /\ UNCHANGED <<host, left, failures>>
     ELSE todo' = host.listeners /\ Goes("lift") /\ UNCHANGED lifted
  /\ UNCHANGED system

-----------------------------------------------------------------------------
(* Both plugins: the body runs with the restrictions lifted, and a finally *)
(* clause puts them back.                                                  *)

Restricted == restrictions = "on"
SetRestrictions(value) == restrictions' = value

\* Mutant: Windows 7 and 2008 R2 are taken for newer ones.
Mut_Lift ==
  /\ pc = "lift"
  /\ lifted' = FALSE
  /\ Goes("auth")
  /\ UNCHANGED <<system, todo>>

Lift ==
  /\ pc = "lift"
  /\ lifted' = (host.legacy /\ Restricted)
  /\ SetRestrictions(IF lifted' THEN "off" ELSE restrictions)
  /\ Goes("auth")
  /\ UNCHANGED <<mode, running, store, listener, ports, mappings, auth, todo>>

Entry == Head(todo)

\* A listener over HTTPS without a certificate gets one of its own.
CertOf(e) == IF e.protocol = "HTTP" THEN NoCert ELSE IF e.cert = NoCert THEN Self ELSE e.cert

\* The service knows the certificate.
Creatable == CertOf(Entry) \in store \cup {NoCert}

\* Switching them off raises inside the try block: they are switched on all the same.
LiftRaises ==
  /\ Raise({"lift"}) /\ host.legacy /\ Restricted
  /\ pc' = "restore" /\ lifted' = TRUE /\ raised' = TRUE
  /\ UNCHANGED <<plugin, host, system, todo, done, left>>

\* The service refuses changes: "Access is denied".
Denied == host.legacy /\ Restricted

SetAuth ==
  /\ pc = "auth" /\ ~Denied /\ running
  /\ auth' = auth \cup {IF Order[plugin] = "listener" THEN "basic" ELSE "certificate"}
  /\ Goes("entry")
  /\ UNCHANGED <<mode, running, restrictions, store, listener, ports, mappings, lifted, todo>>

BodyOver ==
  /\ pc = "entry" /\ todo = <<>>
  /\ Goes("restore") /\ UNCHANGED <<system, lifted, todo>>

BodyRaises ==
  /\ \/ Raise({"auth", "entry", "delete", "create", "rule", "mapping"}) /\ (pc = "entry" => todo # <<>>)
     \/ /\ \/ pc \in {"auth", "delete", "create", "mapping"} /\ (Denied \/ ~running)
           \/ pc = "create" /\ ~Creatable
        /\ UNCHANGED failures
  /\ pc' = "restore" /\ raised' = TRUE
  /\ UNCHANGED <<plugin, host, system, lifted, todo, done, left>>

\* Mutant: the restrictions are put back after the body only, not in a finally clause.
Mut_Restore ==
  /\ pc = "restore"
  /\ restrictions' = IF lifted /\ ~raised THEN "on" ELSE restrictions
  /\ Over(IF raised THEN "again" ELSE "done")
  /\ UNCHANGED <<host, mode, running, store, listener, ports, mappings, auth, left, failures>>

Restore ==
  /\ pc = "restore"
  /\ SetRestrictions(IF lifted THEN "on" ELSE restrictions)
  /\ Over(IF raised THEN "again" ELSE "done")
  /\ UNCHANGED <<host, mode, running, store, listener, ports, mappings, auth, left, failures>>

RestoreRaises ==
  /\ Raise({"restore"}) /\ lifted
  /\ left' = TRUE
  /\ Over("again")
  /\ UNCHANGED <<host, system>>

-----------------------------------------------------------------------------
(* The listeners, one entry of the configuration after the other. *)

Certificate ==
  /\ pc = "entry" /\ todo # <<>> /\ Order[plugin] = "listener"
  /\ store' = IF CertOf(Entry) = Self THEN store \cup {Self} ELSE store
  /\ Goes("delete")
  /\ UNCHANGED <<mode, running, restrictions, listener, ports, mappings, auth, lifted, todo>>

DeleteListener ==
  /\ pc = "delete" /\ ~Denied /\ running
  /\ listener' = [listener EXCEPT ![Entry.protocol] = NoListener]
  /\ Goes("create")
  /\ UNCHANGED <<mode, running, restrictions, store, ports, mappings, auth, lifted, todo>>

CreateListener ==
  /\ pc = "create" /\ ~Denied /\ running /\ Creatable
  /\ listener' = [listener EXCEPT ![Entry.protocol] = CertOf(Entry)]
  /\ Goes("rule")
  /\ UNCHANGED <<mode, running, restrictions, store, ports, mappings, auth, lifted, todo>>

\* Mutant: the loop ends with its first entry.
Mut_CreateRule ==
  /\ pc = "rule"
  /\ ports' = ports \cup {Entry.protocol} /\ todo' = <<>>
  /\ Goes("entry")
  /\ UNCHANGED <<mode, running, restrictions, store, listener, mappings, auth, lifted>>

CreateRule ==
  /\ pc = "rule"
  /\ ports' = ports \cup {Entry.protocol} /\ todo' = Tail(todo)
  /\ Goes("entry")
  /\ UNCHANGED <<mode, running, restrictions, store, listener, mappings, auth, lifted>>

-----------------------------------------------------------------------------
(* ConfigWinRMCertificateAuthPlugin. *)

NoClientCerts ==
  /\ Due("certauth") /\ host.client = <<>>
  /\ Over("done")
  /\ UNCHANGED <<host, system, left, failures>>

ClientCerts ==
  /\ Due("certauth") /\ host.client # <<>>
  /\ todo' = host.client
  /\ Goes("lift") /\ UNCHANGED <<system, lifted>>

\* A certificate that names no user is imported and not mapped.
ImportClientCert ==
  /\ pc = "entry" /\ todo # <<>> /\ Order[plugin] = "certauth"
  /\ store' = store \cup {Entry}
  /\ IF Entry \in host.bare
     THEN todo' = Tail(todo) /\ Goes("entry")
     ELSE UNCHANGED todo /\ Goes("mapping")
  /\ UNCHANGED <<mode, running, restrictions, listener, ports, mappings, auth, lifted>>

DeleteMapping ==
  /\ pc = "mapping" /\ ~Denied /\ running /\ Entry \in mappings
  /\ mappings' = mappings \ {Entry}
  /\ Goes("mapping")
  /\ UNCHANGED <<mode, running, restrictions, store, listener, ports, auth, lifted, todo>>

CreateMapping ==
  /\ pc = "mapping" /\ ~Denied /\ running /\ Entry \notin mappings
  /\ mappings' = mappings \cup {Entry} /\ todo' = Tail(todo)
  /\ Goes("entry")
  /\ UNCHANGED <<mode, running, restrictions, store, listener, ports, auth, lifted>>

Next ==
  \/ Start \/ Pass
  \/ Certificates \/ Import \/ Imported \/ Raises
  \/ NoService \/ CheckService \/ SetMode \/ StartService \/ Entries
  \/ Lift \/ LiftRaises \/ SetAuth \/ BodyOver \/ BodyRaises \/ Restore \/ RestoreRaises
  \/ Certificate \/ DeleteListener \/ CreateListener \/ CreateRule
  \/ NoClientCerts \/ ClientCerts \/ ImportClientCert \/ DeleteMapping \/ CreateMapping

-----------------------------------------------------------------------------
Certs == {NoCert, Self} \cup UNION {{h.server[n] : n \in DOMAIN h.server} : h \in Hosts}
  \cup UNION {{h.client[n] : n \in DOMAIN h.client} : h \in Hosts}
  \cup UNION {{h.listeners[n].cert : n \in DOMAIN h.listeners} : h \in Hosts}

TypeOK ==
  /\ plugin \in 1..4 /\ host \in Hosts
  /\ mode \in {"manual", "disabled", "auto"} /\ running \in BOOLEAN
  /\ restrictions \in {"on", "off"} /\ lifted \in BOOLEAN
  /\ store \subseteq Certs
  /\ listener \in [Protocols -> Certs \cup {NoListener}]
  /\ ports \subseteq Protocols /\ mappings \subseteq Certs
  /\ auth \subseteq {"basic", "certificate"}
  /\ raised \in BOOLEAN /\ done \subseteq {Order[n] : n \in DOMAIN Order} /\ left \in BOOLEAN

\* The last entry of the configuration for a protocol.
LastFor(p) ==
  LET at == {n \in DOMAIN host.listeners : host.listeners[n].protocol = p}
  IN host.listeners[CHOOSE n \in at : \A m \in at : m <= n]

\* Once the plugins need not run again, each configured protocol has the listener
\* of its last entry and an open port, and each client certificate its mapping:
\* listeners and mappings deleted on the way are back.
RemoteAccessAsConfigured ==
  /\ "listener" \in done =>
       \A n \in DOMAIN host.listeners :
         LET p == host.listeners[n].protocol
         IN listener[p] = CertOf(LastFor(p)) /\ p \in ports /\ listener[p] \in store \cup {NoCert}
  /\ "certauth" \in done => \A n \in DOMAIN host.client : host.client[n] \in mappings \cup host.bare

\* Outside the two bodies the UAC remote restrictions are what they were on the
\* image, unless a crash or a failing restore left them off.
RestrictionsComeBack ==
  pc \in {"idle", "next", "over"} /\ ~left => restrictions = host.restricted

\* The order of the calls never runs into "Access is denied".
NeverDenied ==
  pc \in {"auth", "delete", "create", "mapping"} => ~Denied

=============================================================================
