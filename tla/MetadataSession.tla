-------------------------- MODULE MetadataSession --------------------------
(***************************************************************************)
(* A metadata service while one process uses it: what it reads, in which   *)
(* order, with the cache and the retries of the base class, from a source  *)
(* that the cloud may change and that does not always answer.              *)
(*                                                                         *)
(* A method of a service is the sequence of the items it reads: each one   *)
(* is read under the first of its names that exists.                       *)
(***************************************************************************)
EXTENDS Naturals, Sequences

CONSTANTS
  RetryCount,   \* CONF.retry_count
  MaxChanges,   \* bound: changes of what the cloud publishes
  MaxAsked      \* bound: methods that plugins call in a run

VARIABLES
  pc,           \* "idle" or "read"
  service,      \* the one in use
  source,       \* name -> its value, or Absent
  method,       \* the method that is running
  item,         \* position in its sequence
  name,         \* position in the names of the item
  tries,        \* repetitions of the request
  cache,        \* name -> value, or Absent when it is not cached
  told,         \* name -> the values that the methods have seen in this run
  result,       \* of the last method: "none", "ok", "absent" or "failed"
  changes,
  asked

vars == <<pc, service, source, method, item, name, tries, cache, told, result, changes, asked>>

Absent == 0

-----------------------------------------------------------------------------
(* The methods of the services. *)

\* An item without which the method raises, one it can do without, and one whose
\* failure is taken for its absence.
Must(n) == [names |-> <<n>>, must |-> TRUE, lenient |-> FALSE]
May(n) == [names |-> <<n>>, must |-> FALSE, lenient |-> FALSE]
Any(names) == [names |-> names, must |-> TRUE, lenient |-> FALSE]
Lenient(i) == [i EXCEPT !.lenient = TRUE]

\* What load() reads, and the other methods; a remote source may not answer.
Service(remote, retry, load, others) ==
  [remote |-> remote, retry |-> retry, load |-> load, methods |-> others]

EC2Service ==
  Service(TRUE, TRUE, <<Must("hostname")>>,
          {<<Must("hostname")>>, <<Must("id")>>, <<Must("userdata")>>,
           <<Must("keys"), Must("key 0")>>})

GCEUserData == <<Must("userdata"), May("encoding")>>
GCEPublicKeys(blocked) ==
  <<May("blocked"), May("keys")>> \o (IF blocked THEN <<>> ELSE <<May("project keys")>>)
GCEService ==
  Service(TRUE, TRUE, <<Must("hostname")>>,
          {<<Must("hostname")>>, <<Must("id")>>, GCEUserData,
           GCEPublicKeys(TRUE), GCEPublicKeys(FALSE)})

\* Identifier, host name and keys are in the metadata.
PacketService ==
  Service(TRUE, TRUE, <<Must("metadata")>>,
          {<<Must("metadata")>>, <<Must("userdata")>>, <<Must("metadata"), Must("key")>>})

MaaSHttpService ==
  Service(TRUE, TRUE, <<Must("metadata")>>,
          {<<Must(n)>> : n \in {"hostname", "id", "keys", "x509", "userdata"}})

NetworkDetails == <<Must("metadata"), Must("content")>>
NetworkDetailsV2 == <<May("network")>>
ClientAuthCerts == <<Must("metadata"), May("userdata")>>
OpenStackMethods ==
  {<<Must("metadata")>>, <<Must("userdata")>>, NetworkDetails, NetworkDetailsV2, ClientAuthCerts}
\* can_post_password asks for another version of the metadata.
CanPostPassword == <<May("metadata 2013-04-04")>>
HttpService == Service(TRUE, TRUE, <<Must("metadata")>>, OpenStackMethods \cup {CanPostPassword})
ConfigDriveService == Service(FALSE, FALSE, <<>>, OpenStackMethods)

NoCloudConfigDriveService ==
  Service(FALSE, FALSE, <<>>, {<<Must("metadata")>>, <<Must("userdata")>>, NetworkDetailsV2})

\* The hosts that may be the API's are tried one by one, whatever goes wrong.
TestApi == <<Lenient(Any(<<"offering", "offering of the DHCP server">>))>>
CloudStack ==
  Service(TRUE, FALSE, TestApi, {<<Must(n)>> : n \in {"id", "hostname", "userdata", "keys"}})

OpenNebulaService ==
  Service(FALSE, FALSE, <<Must("context")>>,
          {<<Any(<<"set hostname", "hostname">>)>>, <<Any(<<"user data", "userdata">>)>>,
           <<Any(<<"public key", "keys">>)>>})

\* One file, parsed once.
OvfService == Service(FALSE, FALSE, <<Must("ovf-env")>>, {<<Must("ovf-env")>>})

\* All is read by load(), through a program whose failure looks like a missing value.
GuestData(key, enc) == <<Lenient(May(key)), Lenient(May(enc))>>
VMwareGuestInfoService ==
  Service(TRUE, FALSE, GuestData("metadata", "encoding") \o GuestData("userdata", "data encoding"), {})

EmptyMetadataService == Service(FALSE, FALSE, <<>>, {})

Services ==
  [EC2Service |-> EC2Service, GCEService |-> GCEService, PacketService |-> PacketService,
   MaaSHttpService |-> MaaSHttpService, HttpService |-> HttpService, CloudStack |-> CloudStack,
   ConfigDriveService |-> ConfigDriveService, NoCloudConfigDriveService |-> NoCloudConfigDriveService,
   OpenNebulaService |-> OpenNebulaService, OvfService |-> OvfService,
   VMwareGuestInfoService |-> VMwareGuestInfoService, EmptyMetadataService |-> EmptyMetadataService]

NamesOf(s) ==
  UNION {UNION {{m[i].names[j] : j \in DOMAIN m[i].names} : i \in DOMAIN m} :
           m \in Services[s].methods \cup {Services[s].load}}

None(s) == [n \in NamesOf(s) |-> Absent]
Untold(s) == [n \in NamesOf(s) |-> {}]

Used == Services[service]

-----------------------------------------------------------------------------
Init ==
  /\ pc = "idle" /\ service = "EmptyMetadataService" /\ source = None(service)
  /\ method = <<>> /\ item = 1 /\ name = 1 /\ tries = 0
  /\ cache = None(service) /\ told = Untold(service)
  /\ result = "none" /\ changes = 0 /\ asked = 0

Begin(m) ==
  /\ pc = "idle" /\ pc' = "read"
  /\ method' = m /\ item' = 1 /\ name' = 1 /\ tries' = 0 /\ result' = "none"
  /\ UNCHANGED changes

\* load(): the cache is emptied, and the source asked for something it must have.
Load(s, published) ==
  /\ Begin(Services[s].load)
  /\ service' = s /\ asked' = 0
  /\ source' = [n \in NamesOf(s) |-> IF n \in published THEN 1 ELSE Absent]
  /\ cache' = None(s) /\ told' = Untold(s)

\* A plugin calls a method.
Ask ==
  /\ asked < MaxAsked /\ asked' = asked + 1
  /\ \E m \in Used.methods : Begin(m)
  /\ UNCHANGED <<service, source, cache, told>>

Item == method[item]
Wanted == Item.names[name]
Reading == pc = "read" /\ item <= Len(method)

End(outcome) ==
  /\ pc' = "idle" /\ result' = outcome /\ method' = <<>> /\ item' = 1 /\ name' = 1 /\ tries' = 0
  /\ UNCHANGED <<service, source, changes, asked>>

Finished ==
  /\ pc = "read" /\ item > Len(method)
  /\ End("ok")
  /\ UNCHANGED <<cache, told>>

MoveTo(i, n) ==
  /\ item' = i /\ name' = n /\ tries' = 0
  /\ UNCHANGED <<pc, service, source, method, result, changes, asked>>

Tell(v) == told' = [told EXCEPT ![Wanted] = @ \cup {v}]

Cached ==
  /\ Reading /\ cache[Wanted] # Absent
  /\ Tell(cache[Wanted]) /\ MoveTo(item + 1, 1)
  /\ UNCHANGED cache

Uncached == Reading /\ cache[Wanted] = Absent

\* Mutant: the answer is not cached.
Mut_Answer ==
  /\ Uncached /\ source[Wanted] # Absent
  /\ Tell(source[Wanted]) /\ MoveTo(item + 1, 1)
  /\ UNCHANGED cache

Answer ==
  /\ Uncached /\ source[Wanted] # Absent
  /\ cache' = [cache EXCEPT ![Wanted] = source[Wanted]]
  /\ Tell(source[Wanted]) /\ MoveTo(item + 1, 1)

Missing(next) ==
  \/ /\ name < Len(Item.names) /\ MoveTo(item, name + 1)
  \/ /\ name = Len(Item.names) /\ ~Item.must /\ MoveTo(item + 1, 1)
  \/ /\ name = Len(Item.names) /\ Item.must /\ End(next)

\* NotExistingMetadataException is not retried, and nothing is cached.
NotExisting ==
  /\ Uncached /\ source[Wanted] = Absent
  /\ Missing("absent")
  /\ UNCHANGED <<cache, told>>

\* The base class asks the source.
Requesting == Uncached /\ Used.remote

\* The request fails.
Unanswered == Requesting /\ UNCHANGED <<cache, told>>

\* Mutant: one attempt too many.
Mut_CanRetry == Used.retry /\ tries <= RetryCount

CanRetry == Used.retry /\ tries < RetryCount

Retry ==
  /\ Unanswered /\ CanRetry
  /\ tries' = tries + 1
  /\ UNCHANGED <<pc, service, source, method, item, name, result, changes, asked>>

Overlook ==
  /\ Unanswered /\ ~CanRetry /\ Item.lenient
  /\ Missing("failed")

GiveUp ==
  /\ Unanswered /\ ~CanRetry /\ ~Item.lenient
  /\ End("failed")

Next == Finished \/ Cached \/ Answer \/ NotExisting \/ Retry \/ Overlook \/ GiveUp

\* The cloud changes, adds or removes something.
Publish ==
  /\ Used.remote /\ changes < MaxChanges /\ changes' = changes + 1
  /\ \E n \in DOMAIN source :
       \E v \in {Absent, changes + 2} : source' = [source EXCEPT ![n] = v]
  /\ UNCHANGED <<pc, service, method, item, name, tries, cache, told, result, asked>>

\* What load() returns; guest info needs at least one of the two.
Loaded ==
  /\ result = "ok"
  /\ service = "VMwareGuestInfoService" => told["metadata"] \cup told["userdata"] # {}

-----------------------------------------------------------------------------
(* Properties *)

TypeOK ==
  /\ pc \in {"idle", "read"} /\ service \in DOMAIN Services
  /\ {source, cache} \subseteq [NamesOf(service) -> 0..MaxChanges + 1]
  /\ item \in 1..Len(method) + 1 /\ tries \in 0..RetryCount
  /\ result \in {"none", "ok", "absent", "failed"}
  /\ changes \in 0..MaxChanges /\ asked \in 0..MaxAsked

\* What a run has read once it reads again, whatever the cloud publishes meanwhile: all
\* plugins of a run agree on the metadata.
SteadyReads == \A n \in DOMAIN told : \A v, w \in told[n] : v = w

=============================================================================
