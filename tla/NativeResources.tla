--------------------------- MODULE NativeResources ---------------------------
(***************************************************************************)
(* Memory, handles and certificates that the program gets from Windows and *)
(* has to give back itself.  A function is the sequence of its calls, with *)
(* try/finally blocks, alternatives and loops; every call may fail, and    *)
(* the exception runs the finally blocks it passes on its way out.         *)
(***************************************************************************)
EXTENDS Naturals, Sequences

CONSTANTS
  Functions,    \* the functions that are called
  MaxRounds     \* bound: repetitions of loops in a call

VARIABLES
  function,     \* the one that runs, or "none"
  frames,       \* what remains of its blocks, the innermost one first
  held,         \* resource -> "none", "live", "invalid" or "freed"
  wrong,        \* something was used or freed that is not held
  raised,       \* a call raised
  rounds

vars == <<function, frames, held, wrong, raised, rounds>>

Resources ==
  {"thumbprint", "key container", "provider", "key", "name", "context", "store", "pfx store",
   "encoded", "stored certificate", "token", "profile", "process", "thread", "manager", "service",
   "heap", "disks", "detail", "disk", "volumes", "volume name", "extents"}

-----------------------------------------------------------------------------
(* What functions consist of. *)

Step(do, r) == [do |-> do, r |-> r]
Call == Step("call", "none")        \* may raise
Get(r) == Step("get", r)            \* raises when it gets nothing
Have(r) == Step("have", r)          \* gets it, the failure is another alternative
Find(r) == Step("find", r)          \* an invalid handle is not noticed
Use(r) == Step("use", r)            \* may raise
Free(r) == Step("free", r)
FreeIf(r) == Step("free if", r)     \* unless the pointer is null
Null(r) == Step("null", r)          \* the variable no longer points to it
Block(body, final) == [do |-> "try", body |-> body, final |-> final]
Either(this, other) == [do |-> "either", this |-> this, other |-> other]
Many(body) == [do |-> "many", body |-> body]

\* x509.py
Thumbprint ==
  <<Block(<<Use("context"), Get("thumbprint"), Use("context")>>, <<FreeIf("thumbprint")>>)>>

GenerateKey ==
  <<Block(<<Either(<<Get("provider")>>, <<Get("key container"), Get("provider")>>),
            Get("key")>>,
          <<FreeIf("key"), FreeIf("provider")>>)>>

CertStr == <<Use("context"), Use("context")>>

CreateSelfSignedCert ==
  GenerateKey \o
  <<Block(<<Call, Get("name"), Use("name"), Call, Call, Get("context"), Use("context"),
            Get("store"), Use("store"), Get("stored certificate")>>
            \o Thumbprint \o CertStr,
          <<FreeIf("store"), FreeIf("context"), FreeIf("name")>>)>>

FindCertificate ==
  <<Block(<<Get("store"), Get("context")>>, <<FreeIf("store")>>)>>

\* CertDeleteCertificateFromStore frees the context, whether it succeeds or not.
DeleteCertificate ==
  <<Block(FindCertificate \o <<Free("context"), Call, Free("stored certificate")>>,
          <<FreeIf("context")>>)>>

ImportPfxCertificate ==
  <<Block(<<Get("pfx store"), Get("context"), Get("store"), Use("context")>>,
          <<FreeIf("pfx store"), FreeIf("context"), FreeIf("store")>>)>>

\* The store it links the certificate to is another one than the one it is found in.
DecodePkcs7 ==
  <<Block(<<Call, Call, Get("pfx store")>> \o FindCertificate
            \o <<Use("pfx store"), Use("context"), Use("context")>>,
          <<FreeIf("context"), FreeIf("pfx store")>>)>>

\* Mutant: the certificate is added before the try statement.
Mut_ImportCert ==
  <<Call, Get("encoded"), Use("encoded"), Get("store"), Get("context"),
    Block(<<Use("context")>> \o Thumbprint,
          <<FreeIf("context"), FreeIf("store"), FreeIf("encoded")>>)>>

ImportCert ==
  <<Block(<<Call, Get("encoded"), Use("encoded"), Get("store"), Get("context"),
            Either(<<Use("context")>>, <<>>)>> \o Thumbprint,
          <<FreeIf("context"), FreeIf("store"), FreeIf("encoded")>>)>>

\* azureservice.py: between the creation of the transport certificate and the try
\* statement nothing can fail, but the creation may fail with the certificate stored.
ServerCerts ==
  CreateSelfSignedCert \o <<Block(<<Call>> \o DecodePkcs7, DeleteCertificate)>> \o <<Call>>

\* osutils/windows.py
LogonSession ==
  <<Get("token"),
    Either(<<>>, <<Either(<<Have("profile")>>, <<Free("token"), Step("raise", "none")>>)>>)>>

ProcessAsUser ==
  <<Block(<<Use("token"), Get("process"), Get("thread"),
            Either(<<>>, <<Use("process"), Use("process")>>)>>,
          <<FreeIf("process"), FreeIf("thread")>>)>>

\* createuser.py and users.py: the first logon makes the profile.
FirstLogon == LogonSession \o <<Free("token")>>

\* init.py: the token is kept until the process ends.
Respawn == LogonSession \o ProcessAsUser

ServiceManager(body) == <<Get("manager"), Block(body, <<Free("manager")>>)>>

ServiceHandle ==
  ServiceManager(<<Get("service"),
                   Block(<<Use("service"), Many(<<Use("service")>>)>>, <<Free("service")>>)>>)

CreateService == ServiceManager(<<Use("manager"), Get("service"), Free("service")>>)

\* A larger table needs other memory; an error is compared with a name that the
\* library does not export, which raises as well.
ForwardTable ==
  <<Get("heap"),
    Block(<<Either(<<Use("heap")>>, <<Use("heap"), Free("heap"), Get("heap"), Use("heap")>>),
            Many(<<Use("heap")>>)>>,
          <<Free("heap")>>)>>

\* The invalid handle is compared with 32 bits of it.
PhysicalDisks ==
  <<Find("disks"),
    Block(<<Many(<<Use("disks"), Null("disk"), Call, Get("detail"),
                   Block(<<Use("disks"), Find("disk"), Use("disk")>>,
                         <<Free("detail"), FreeIf("disk")>>)>>)>>,
          <<FreeIf("disks")>>)>>

Volumes ==
  <<Find("volumes"), Block(<<Use("volumes"), Many(<<Use("volumes")>>)>>, <<FreeIf("volumes")>>)>>

\* utils/windows/network.py
AdapterAddresses ==
  <<Call, Get("heap"), Call, Block(<<Use("heap"), Many(<<Use("heap")>>)>>, <<Free("heap")>>)>>

\* disk.py: __exit__ is not called when __enter__ raises.
Geometry == <<Use("disk")>>
Device ==
  <<Get("disk")>> \o Geometry
    \o <<Block(<<Use("disk"), Many(<<Use("disk")>>)>>, <<FreeIf("disk")>>)>>

\* storage/vds_storage_manager.py and wsm_storage_manager.py
VolumeExtents ==
  <<Many(<<Get("extents"), Block(<<Use("extents")>>, <<Free("extents")>>)>>)>>
ExtendVolumes ==
  <<Call, Many(<<Get("volume name"),
                 Block(<<Use("volume name"),
                         Either(<<>>, VolumeExtents \o <<Use("volume name"), Call>>)>>,
                       <<Free("volume name")>>)>>)>>

SanPolicyControl == <<Get("disk"), Block(<<Use("disk")>>, <<Free("disk")>>)>>

Body ==
  [generate_key |-> GenerateKey, create_self_signed_cert |-> CreateSelfSignedCert,
   delete_certificate_from_store |-> DeleteCertificate,
   import_pfx_certificate |-> ImportPfxCertificate, decode_pkcs7 |-> DecodePkcs7,
   import_cert |-> ImportCert, get_server_certs |-> ServerCerts, first_logon |-> FirstLogon,
   respawn |-> Respawn, service |-> ServiceHandle, create_service |-> CreateService,
   forward_table |-> ForwardTable, physical_disks |-> PhysicalDisks, volumes |-> Volumes,
   adapter_addresses |-> AdapterAddresses, device |-> Device, extend_volumes |-> ExtendVolumes,
   san_policy |-> SanPolicyControl]

-----------------------------------------------------------------------------
Init ==
  /\ function = "none" /\ frames = <<>> /\ held = [r \in Resources |-> "none"]
  /\ wrong = FALSE /\ raised = FALSE /\ rounds = 0

\* A certificate that is deleted by itself was stored before.
Begin ==
  /\ function = "none"
  /\ \E f \in Functions :
       /\ function' = f
       /\ frames' = <<[rest |-> Body[f], final |-> <<>>, raising |-> FALSE]>>
       /\ held' = [r \in Resources |->
                     IF f = "delete_certificate_from_store" /\ r = "stored certificate"
                       THEN "live" ELSE "none"]
  /\ UNCHANGED <<wrong, raised, rounds>>

Top == frames[1]
Running == frames # <<>> /\ Top.rest # <<>>
Op == Head(Top.rest)
Doing(kinds) == Running /\ Op.do \in kinds

Continue(rest) == frames' = <<[Top EXCEPT !.rest = rest]>> \o Tail(frames)
Proceed == Continue(Tail(Top.rest))

\* An exception that leaves the innermost block.
Out(fs) ==
  IF fs = <<>> THEN <<>>
  ELSE <<[rest |-> fs[1].final, final |-> <<>>, raising |-> TRUE]>> \o Tail(fs)

Raise ==
  /\ Doing({"call", "get", "use", "raise"})
  /\ frames' = Out(frames) /\ raised' = TRUE
  /\ wrong' = (wrong \/ (Op.do = "use" /\ held[Op.r] \in {"none", "freed"}))
  /\ UNCHANGED <<function, held, rounds>>

Succeed ==
  /\ Doing({"call"}) /\ Proceed
  /\ UNCHANGED <<function, held, wrong, raised, rounds>>

Obtain ==
  /\ Doing({"get", "have", "find"}) /\ Proceed
  /\ held' = [held EXCEPT ![Op.r] = "live"]
  /\ wrong' = (wrong \/ held[Op.r] = "live")
  /\ UNCHANGED <<function, raised, rounds>>

NotFound ==
  /\ Doing({"find"}) /\ Proceed
  /\ held' = [held EXCEPT ![Op.r] = "invalid"]
  /\ UNCHANGED <<function, wrong, raised, rounds>>

\* A call with an invalid handle fails.
Apply ==
  /\ Doing({"use"}) /\ held[Op.r] # "invalid" /\ Proceed
  /\ wrong' = (wrong \/ held[Op.r] # "live")
  /\ UNCHANGED <<function, held, raised, rounds>>

Release ==
  /\ Doing({"free", "free if"}) /\ Proceed
  /\ LET skip == Op.do = "free if" /\ held[Op.r] = "none" IN
       /\ held' = IF skip THEN held ELSE [held EXCEPT ![Op.r] = "freed"]
       /\ wrong' = (wrong \/ (~skip /\ held[Op.r] \in {"none", "freed"}))
  /\ UNCHANGED <<function, raised, rounds>>

Forget ==
  /\ Doing({"null"}) /\ Proceed
  /\ held' = [held EXCEPT ![Op.r] = "none"] /\ wrong' = (wrong \/ held[Op.r] = "live")
  /\ UNCHANGED <<function, raised, rounds>>

Enter ==
  /\ Doing({"try"})
  /\ frames' = <<[rest |-> Op.body, final |-> Op.final, raising |-> FALSE],
                 [Top EXCEPT !.rest = Tail(@)]>> \o Tail(frames)
  /\ UNCHANGED <<function, held, wrong, raised, rounds>>

Choose ==
  /\ Doing({"either"})
  /\ \E path \in {Op.this, Op.other} : Continue(path \o Tail(Top.rest))
  /\ UNCHANGED <<function, held, wrong, raised, rounds>>

Again ==
  /\ Doing({"many"}) /\ rounds < MaxRounds
  /\ rounds' = rounds + 1 /\ Continue(Op.body \o Top.rest)
  /\ UNCHANGED <<function, held, wrong, raised>>

Enough ==
  /\ Doing({"many"}) /\ Proceed
  /\ UNCHANGED <<function, held, wrong, raised, rounds>>

\* The end of a block: its finally clause, then what is around it.
Exit ==
  /\ frames # <<>> /\ Top.rest = <<>>
  /\ frames' = CASE Top.final # <<>> ->
                      <<[rest |-> Top.final, final |-> <<>>, raising |-> FALSE]>> \o Tail(frames)
                 [] Top.final = <<>> /\ Top.raising -> Out(Tail(frames))
                 [] OTHER -> Tail(frames)
  /\ UNCHANGED <<function, held, wrong, raised, rounds>>

Next ==
  \/ Raise \/ Succeed \/ Obtain \/ NotFound \/ Apply \/ Release \/ Forget
  \/ Enter \/ Choose \/ Again \/ Enough \/ Exit

-----------------------------------------------------------------------------
(* Properties *)

Over == function # "none" /\ frames = <<>>
Left == {r \in Resources : held[r] = "live"}

TypeOK ==
  /\ function \in Functions \cup {"none"} /\ held \in [Resources -> {"none", "live", "invalid", "freed"}]
  /\ wrong \in BOOLEAN /\ raised \in BOOLEAN /\ rounds \in 0..MaxRounds

\* What a function is for, and what it leaves behind: a key container is never deleted,
\* not even with its certificate; a profile stays loaded, and the token of the respawned
\* process open.
Kept(f) ==
  CASE f = "generate_key" -> {"key container"}
    [] f = "create_self_signed_cert" -> {"key container", "stored certificate"}
    [] f = "get_server_certs" -> {"key container"}
    [] f = "first_logon" -> {"profile"}
    [] f = "respawn" -> {"token", "profile"}
    [] OTHER -> {}

\* What an exception may leave: a transport certificate that was not handed over or
\* could not be deleted, memory whose try statement begins too late, a device whose
\* geometry could not be read.
KeptByException(f) ==
  CASE f = "get_server_certs" -> {"stored certificate"}
    [] f = "delete_certificate_from_store" -> {"stored certificate"}
    [] f = "adapter_addresses" -> {"heap"}
    [] f = "device" -> {"disk"}
    [] OTHER -> {}

\* A context that its deletion has freed is freed again, and so is the first table when
\* there is no memory for the larger one.
FreedTwice(f, after_exception) ==
  \/ f \in {"delete_certificate_from_store", "get_server_certs"}
  \/ f = "forward_table" /\ after_exception

\* Whatever fails, nothing is used that is not held, nothing is freed twice, and at the
\* end everything is freed, but for what is named above.
NothingLeft ==
  /\ wrong => FreedTwice(function, raised)
  /\ Over =>
       Left \subseteq Kept(function) \cup (IF raised THEN KeptByException(function) ELSE {})

=============================================================================
