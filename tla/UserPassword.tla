---------------------------- MODULE UserPassword ----------------------------
(***************************************************************************)
(* How the password of the cloud user gets to its owner. Three MAIN plugins *)
(* share it: CreateUser sets a temporary password, SetUserPassword replaces *)
(* it and posts it to the metadata service (OpenStack) or takes it from the *)
(* password server (CloudStack), ConfigWinRMCertificateAuth maps a client   *)
(* certificate to it. They hand it over in shared_data, which lives as long *)
(* as the process; their saved statuses survive it, and any plugin between  *)
(* them may reboot the machine.                                             *)
(***************************************************************************)
EXTENDS Integers

CONSTANTS
  Users,            \* account names
  ConfUser,         \* CONF.username
  Administrator,    \* the name the built-in administrator has in the image
  NoUser,           \* no user name: the None of get_admin_username
  Configs,          \* the configurations and metadata services considered
  Existing,         \* the sets of accounts the image may have beside the administrator
  NoPassword,       \* None, and the empty password of the metadata service
  Absent,           \* in place of a password: there is no such account
  Taken,            \* saved_password: the password server's password was deleted
  AdminPassword,    \* admin_pass of the OpenStack metadata
  ImagePassword,    \* the password an account has in the image
  RetryCount,       \* CONF.retry_count
  Faults,           \* what may go wrong, see FaultKinds
  MaxInterruptions, \* bound on crashes, reboots and failed calls of a behaviour
  MaxResets         \* bound on password resets of the cloud user

\* A metadata service and the options that matter for the password: inject_user_password,
\* rename_admin_user, whether the metadata holds admin_pass and an SSH public key, and the
\* user name it gives; CloudStack gives none.
Config == [kind : {"openstack", "cloudstack"}, inject : BOOLEAN, rename : BOOLEAN,
           admin : BOOLEAN, key : BOOLEAN, metaUser : Users \cup {NoUser}]

\* crash: the machine goes down in the middle of a plugin; reboot: a plugin between CreateUser and
\* SetUserPassword reboots; create, apply, logon: a call of CreateUser, set_user_password,
\* _change_logon_behaviour raises; service: a metadata request raises; reply: the answer
\* to a POST or a deletion is lost; server: the password server does not answer; cert: a call of the
\* certificate plugin raises.
FaultKinds == {"crash", "reboot", "create", "apply", "logon", "service", "reply", "server", "cert"}

\* Where a behaviour has left the path on which the owner of the account gets its password.
Windows == {"lost", "overtaken", "recreated", "reposted", "wronguser", "nouser",
            "metadata", "unshared"}

Special == {NoPassword, Absent, Taken, AdminPassword, ImagePassword}

ASSUME PasswordAssumption ==
  /\ {ConfUser, Administrator} \subseteq Users
  /\ NoUser \notin Users
  /\ Configs \subseteq Config
  /\ \A c \in Configs : c.kind = "cloudstack" => c.metaUser = NoUser
  /\ Existing \subseteq SUBSET Users
  /\ NoPassword \notin {Absent, Taken, AdminPassword, ImagePassword}
  /\ Absent \notin {Taken, AdminPassword, ImagePassword}
  /\ Taken \notin {AdminPassword, ImagePassword}
  /\ AdminPassword # ImagePassword
  /\ Special \cap Nat = {}
  /\ RetryCount \in Nat
  /\ Faults \subseteq FaultKinds
  /\ MaxInterruptions \in Nat
  /\ MaxResets \in Nat

VARIABLES
  pc,            \* where the three plugins are
  config,        \* the configuration of this machine, never changes
  saved,         \* plugins saved as DONE
  account,       \* user -> its password, or Absent
  builtin,       \* the name of the built-in administrator
  sharedUser,    \* shared_data["admin_username"]
  sharedPwd,     \* shared_data["admin_password"]
  user,          \* the user name of the running plugin
  pwd,           \* the password of the running plugin
  tries,         \* failed attempts of the POST
  slot,          \* the password posted to the OpenStack metadata
  server,        \* what the CloudStack password server holds
  wanted,        \* the last password the cloud user chose on the password server
  random,        \* number of passwords generated so far
  mapping,       \* the WinRM certificate mapping: a user and its password, or nothing
  windows,       \* the ways the protocol has gone astray on this machine
  interruptions, \* crashes, reboots and failed calls so far
  resets         \* password resets so far

process == <<sharedUser, sharedPwd, user, pwd, tries>>
machine == <<saved, account, builtin, mapping>>
cloud   == <<slot, server, wanted>>
bounds  == <<interruptions, resets>>
vars    == <<pc, config, process, machine, cloud, random, windows, bounds>>

Fresh == random + 1

NoMapping == [user |-> NoUser, pwd |-> NoPassword]

\* service.get_admin_username() or CONF.username
EffectiveUser == IF config.metaUser = NoUser THEN ConfUser ELSE config.metaUser

\* shared_data.get("admin_username", CONF.username)
SharedOrConfUser == IF sharedUser = NoUser THEN ConfUser ELSE sharedUser

MetadataPassword == IF config.admin THEN AdminPassword ELSE NoPassword

\* What a request to the password server finds, when the server answers.
OnServer == IF server = Taken THEN NoPassword ELSE server

Init ==
  /\ pc = "off"
  /\ config \in Configs
  /\ saved = {}
  /\ \E e \in Existing :
       account = [u \in Users |-> IF u \in e \cup {Administrator} THEN ImagePassword ELSE Absent]
  /\ builtin = Administrator
  /\ sharedUser = NoUser /\ sharedPwd = NoPassword
  /\ user = NoUser /\ pwd = NoPassword /\ tries = 0
  /\ slot = NoPassword /\ server = NoPassword /\ wanted = NoPassword
  /\ mapping = NoMapping
  /\ random = 0
  /\ windows = {}
  /\ interruptions = 0 /\ resets = 0

-----------------------------------------------------------------------------
(* The machine and the cloud. *)

Interrupted(fault) ==
  /\ fault \in Faults
  /\ interruptions < MaxInterruptions
  /\ interruptions' = interruptions + 1

\* The process ends and shared_data with it.
Gone ==
  /\ pc' = "off"
  /\ sharedUser' = NoUser /\ sharedPwd' = NoPassword
  /\ user' = NoUser /\ pwd' = NoPassword /\ tries' = 0

Boot ==
  /\ pc = "off"
  /\ pc' = "create"
  /\ UNCHANGED <<config, process, machine, cloud, random, windows, bounds>>

\* The owner reboots the machine.
Restart ==
  /\ pc = "rest"
  /\ interruptions < MaxInterruptions
  /\ interruptions' = interruptions + 1
  /\ Gone
  /\ UNCHANGED <<config, machine, cloud, random, windows, resets>>

\* The password that the cloud user chose is deleted on the server and not yet set: it ends
\* with the plugin.
Discarded ==
  IF pc = "apply" /\ wanted \notin {server, account[ConfUser]} THEN {"lost"} ELSE {}

Crash ==
  /\ pc \notin {"off", "rest"}
  /\ Interrupted("crash")
  /\ Gone
  /\ windows' = windows \cup Discarded
  /\ UNCHANGED <<config, machine, cloud, random, resets>>

\* The cloud user asks CloudStack for a new password of the instance: what became of the
\* one before no longer matters.
Reset ==
  /\ config.kind = "cloudstack"
  /\ resets < MaxResets
  /\ resets' = resets + 1
  /\ random' = Fresh
  /\ server' = Fresh
  /\ wanted' = Fresh
  /\ windows' = windows \ {"lost", "overtaken", "recreated"}
  /\ UNCHANGED <<pc, config, process, machine, slot, interruptions>>

-----------------------------------------------------------------------------
(* CreateUserPlugin. *)

\* A plugin goes on to the next one: without its status saved when it failed.
EndOfPlugin(next) ==
  /\ pc' = next
  /\ user' = NoUser /\ pwd' = NoPassword /\ tries' = 0

CreateSkip ==
  /\ pc = "create" /\ "create" \in saved
  /\ pc' = "between"
  /\ UNCHANGED <<config, process, machine, cloud, random, windows, bounds>>

CreateStart ==
  /\ pc = "create" /\ "create" \notin saved
  /\ sharedUser' = EffectiveUser
  /\ user' = EffectiveUser
  /\ pwd' = Fresh
  /\ random' = Fresh
  /\ pc' = IF config.rename THEN "rename" ELSE "temporary"
  /\ UNCHANGED <<config, sharedPwd, tries, machine, cloud, windows, bounds>>

\* rename_user fails when the new name is taken.
CreateRename ==
  /\ pc = "rename" /\ builtin # user /\ account[user] = Absent
  /\ account' = [account EXCEPT ![user] = account[builtin], ![builtin] = Absent]
  /\ builtin' = user
  /\ pc' = "renamed"
  /\ UNCHANGED <<config, process, saved, mapping, cloud, random, windows, bounds>>

CreateRenamed ==
  /\ pc = "rename" /\ builtin = user
  /\ pc' = "created"
  /\ UNCHANGED <<config, process, machine, cloud, random, windows, bounds>>

\* The temporary password overwrites one that SetUserPassword has already delivered.
Overwritten == IF "set" \in saved \/ account[user] = wanted THEN {"recreated"} ELSE {}

CreateExisting ==
  /\ \/ pc = "renamed"
     \/ pc = "temporary" /\ account[user] # Absent
  /\ account' = [account EXCEPT ![user] = pwd]
  /\ pc' = "created"
  /\ windows' = windows \cup Overwritten
  /\ UNCHANGED <<config, process, saved, builtin, mapping, cloud, random, bounds>>

CreateNew ==
  /\ pc = "temporary" /\ account[user] = Absent
  /\ account' = [account EXCEPT ![user] = pwd]
  /\ sharedPwd' = pwd
  /\ pc' = "created"
  /\ UNCHANGED <<config, sharedUser, user, pwd, tries, saved, builtin, mapping, cloud, random, windows,
                 bounds>>

CreateDone ==
  /\ pc = "created"
  /\ saved' = saved \cup {"create"}
  /\ EndOfPlugin("between")
  /\ UNCHANGED <<config, sharedUser, sharedPwd, account, builtin, mapping, cloud, random, windows,
                 bounds>>

\* The metadata service, rename_user, create_user, set_user_password or the registry raises.
CreateFails ==
  /\ \/ pc \in {"create", "rename", "renamed", "temporary", "created"} /\ "create" \notin saved
        /\ Interrupted("create")
     \/ pc = "rename" /\ builtin # user /\ account[user] # Absent
        /\ UNCHANGED interruptions
  /\ EndOfPlugin("between")
  /\ UNCHANGED <<config, sharedUser, sharedPwd, machine, cloud, random, windows, resets>>

\* NetworkConfig, UserData and the other plugins in between, which may reboot.
Between ==
  /\ pc = "between"
  /\ \/ pc' = "set" /\ UNCHANGED <<process, interruptions>>
     \/ Interrupted("reboot") /\ Gone
  /\ UNCHANGED <<config, machine, cloud, random, windows, resets>>

-----------------------------------------------------------------------------
(* SetUserPasswordPlugin. *)

SetSkip ==
  /\ pc = "set" /\ "set" \in saved
  /\ pc' = "cert"
  /\ UNCHANGED <<config, process, machine, cloud, random, windows, bounds>>

\* Mutant: the user of the configuration file wins.
Mut_SetStart ==
  /\ pc = "set" /\ "set" \notin saved
  /\ user' = ConfUser
  /\ pc' = IF account[user'] = Absent THEN "setdone"
           ELSE IF config.kind = "cloudstack" THEN "poll" ELSE "choose"
  /\ UNCHANGED <<config, sharedUser, sharedPwd, pwd, tries, machine, cloud, random, windows,
                 bounds>>

\* A plugin that no longer finds the name of the metadata in shared_data works on another
\* account, or on none at all.
SetStart ==
  /\ pc = "set" /\ "set" \notin saved
  /\ user' = SharedOrConfUser
  /\ pc' = IF account[user'] = Absent THEN "setdone"
           ELSE IF config.kind = "cloudstack" THEN "poll" ELSE "choose"
  /\ windows' = windows \cup (IF user' # EffectiveUser THEN {"wronguser"} ELSE {})
                        \cup (IF account[user'] = Absent THEN {"nouser"} ELSE {})
  /\ UNCHANGED <<config, sharedUser, sharedPwd, pwd, tries, machine, cloud, random, bounds>>

\* Mutant: asking whether there is a password takes it.
Mut_Poll ==
  /\ pc = "poll"
  /\ pc' = IF OnServer # NoPassword THEN "choose" ELSE "setdone"
  /\ server' = IF OnServer # NoPassword THEN Taken ELSE server
  /\ UNCHANGED <<config, process, machine, slot, wanted, random, windows, bounds>>

\* is_password_changed() of CloudStack: is there a password on the server?
Poll ==
  /\ pc = "poll"
  /\ \/ pc' = (IF OnServer # NoPassword THEN "choose" ELSE "setdone")
        /\ UNCHANGED interruptions
     \/ Interrupted("server") /\ pc' = "setdone"
  /\ UNCHANGED <<config, process, machine, cloud, random, windows, resets>>

\* The password of shared_data if there is one, a random one otherwise.
Fallback ==
  IF sharedPwd # NoPassword THEN pwd' = sharedPwd /\ UNCHANGED random
                            ELSE pwd' = Fresh /\ random' = Fresh

\* Mutant: the password is posted before the account has it.
Mut_Choose ==
  /\ pc = "choose"
  /\ IF config.inject /\ config.kind = "openstack" /\ MetadataPassword # NoPassword
       THEN pwd' = MetadataPassword /\ UNCHANGED random
       ELSE Fallback
  /\ pc' = IF config.kind = "openstack" THEN "check" ELSE "apply"
  /\ UNCHANGED <<config, sharedUser, sharedPwd, user, tries, machine, cloud, windows, bounds>>

\* _get_password, and the random password when it gives none.
Choose ==
  /\ pc = "choose"
  /\ IF ~config.inject
       THEN Fallback /\ pc' = "apply" /\ UNCHANGED interruptions
       ELSE \/ /\ config.kind = "openstack"
               /\ IF MetadataPassword # NoPassword THEN pwd' = MetadataPassword /\ UNCHANGED random
                                                   ELSE Fallback
               /\ pc' = "apply"
               /\ UNCHANGED interruptions
            \/ /\ config.kind = "cloudstack"
               /\ pwd' = OnServer
               /\ pc' = "delete"
               /\ UNCHANGED <<interruptions, random>>
            \/ /\ config.kind = "cloudstack"
               /\ Interrupted("server")
               /\ Fallback
               /\ pc' = "apply"
  /\ UNCHANGED <<config, sharedUser, sharedPwd, user, tries, machine, cloud, windows, resets>>

\* _delete_password of CloudStack: whatever the server holds by now is deleted. A server
\* that does not answer keeps its password, which is logged and forgotten.
Delete ==
  /\ pc = "delete"
  /\ \/ /\ server' = Taken
        /\ windows' = windows \cup (IF server # pwd THEN {"overtaken"} ELSE {})
        /\ UNCHANGED interruptions
     \/ Interrupted("server") /\ UNCHANGED <<server, windows>>
  /\ pc' = "apply"
  /\ UNCHANGED <<config, process, machine, slot, wanted, random, resets>>

\* The deletion gets no answer in time: an error other than a refused connection is raised
\* on, and the plugin ends with a password that only it knew.
DeleteUnanswered ==
  /\ pc = "delete"
  /\ Interrupted("reply")
  /\ server' = Taken
  /\ windows' = windows \cup {"lost"}
  /\ EndOfPlugin("cert")
  /\ UNCHANGED <<config, sharedUser, sharedPwd, machine, slot, wanted, random, resets>>

\* osutils.set_user_password, which may also refuse the password (SetFails): a password
\* generated again replaces the posted one.
Apply ==
  /\ pc = "apply"
  /\ account' = [account EXCEPT ![user] = pwd]
  /\ windows' = windows \cup (IF slot \notin {NoPassword, pwd} THEN {"reposted"} ELSE {})
  /\ pc' = "logon"
  /\ UNCHANGED <<config, process, saved, builtin, mapping, cloud, random, bounds>>

\* _change_logon_behaviour, then the password goes to shared_data.
Logon ==
  /\ pc = "logon"
  /\ sharedPwd' = pwd
  /\ pc' = IF config.kind = "openstack" THEN "check" ELSE "setdone"
  /\ UNCHANGED <<config, sharedUser, user, pwd, tries, machine, cloud, random, windows, bounds>>

\* can_post_password, is_password_set and the encryption key.
Check ==
  /\ pc = "check"
  /\ pc' = IF slot = NoPassword /\ config.key THEN "post" ELSE "setdone"
  /\ UNCHANGED <<config, process, machine, cloud, random, windows, bounds>>

\* Mutant: the attempts are not counted.
Mut_AttemptFailed ==
  tries' = tries + 1 /\ pc' = "post" /\ UNCHANGED <<user, pwd>>

\* The end of one attempt that raised: _exec_with_retry tries again or gives up, and the
\* plugin has failed.
AttemptFailed ==
  IF tries < RetryCount THEN tries' = tries + 1 /\ pc' = "post" /\ UNCHANGED <<user, pwd>>
                        ELSE EndOfPlugin("cert")

Posted ==
  /\ pc = "post" /\ slot = NoPassword
  /\ slot' = pwd
  /\ pc' = "setdone"
  /\ UNCHANGED <<config, process, machine, server, wanted, random, windows, bounds>>

PostedUnanswered ==
  /\ pc = "post" /\ slot = NoPassword
  /\ Interrupted("reply")
  /\ slot' = pwd
  /\ AttemptFailed
  /\ UNCHANGED <<config, sharedUser, sharedPwd, machine, server, wanted, random, windows, resets>>

\* The service answers 409 to a second password: requests raises its own HTTPError, which
\* the handler of urllib's HTTPError does not catch.
Refused ==
  /\ pc = "post" /\ slot # NoPassword
  /\ AttemptFailed
  /\ UNCHANGED <<config, sharedUser, sharedPwd, machine, cloud, random, windows, bounds>>

\* A request or a call raises: the plugin ends and its status is not saved. The account
\* refuses the password (a password policy, an account deleted meanwhile) after the
\* deletion on the server.
SetFails ==
  /\ \/ pc \in {"poll", "choose", "delete", "check", "post"} /\ Interrupted("service")
     \/ pc = "apply" /\ Interrupted("apply")
     \/ pc = "logon" /\ Interrupted("logon")
  /\ EndOfPlugin("cert")
  /\ windows' = windows \cup Discarded \cup (IF pc = "logon" THEN {"unshared"} ELSE {})
  /\ UNCHANGED <<config, sharedUser, sharedPwd, machine, cloud, random, resets>>

\* With a service that can update the password the plugin runs at every boot.
SetDone ==
  /\ pc = "setdone"
  /\ saved' = saved \cup (IF config.kind = "cloudstack" THEN {} ELSE {"set"})
  /\ EndOfPlugin("cert")
  /\ UNCHANGED <<config, sharedUser, sharedPwd, account, builtin, mapping, cloud, random, windows, bounds>>

-----------------------------------------------------------------------------
(* ConfigWinRMCertificateAuthPlugin. *)

CertSkip ==
  /\ pc = "cert" /\ "cert" \in saved
  /\ pc' = "rest"
  /\ UNCHANGED <<config, process, machine, cloud, random, windows, bounds>>

\* Mutant: the password of the metadata comes before the one in shared_data.
Mut_Credentials ==
  /\ pc = "cert" /\ "cert" \notin saved
  /\ user' = SharedOrConfUser
  /\ pwd' = IF MetadataPassword # NoPassword THEN MetadataPassword ELSE sharedPwd
  /\ pwd' # NoPassword
  /\ sharedPwd' = NoPassword
  /\ pc' = IF config.kind = "openstack" THEN "map" ELSE "certdone"
  /\ UNCHANGED <<config, sharedUser, tries, machine, cloud, random, windows, bounds>>

\* The password is taken out of shared_data; without one the metadata is asked, whatever
\* inject_user_password says.
Credentials ==
  /\ pc = "cert" /\ "cert" \notin saved
  /\ sharedPwd # NoPassword \/ (config.kind = "openstack" /\ MetadataPassword # NoPassword)
  /\ user' = SharedOrConfUser
  /\ pwd' = IF sharedPwd # NoPassword THEN sharedPwd ELSE MetadataPassword
  /\ sharedPwd' = NoPassword
  /\ windows' = windows \cup (IF sharedPwd = NoPassword THEN {"metadata"} ELSE {})
                        \cup (IF user' # EffectiveUser THEN {"wronguser"} ELSE {})
  /\ pc' = IF config.kind = "openstack" THEN "map" ELSE "certdone"
  /\ UNCHANGED <<config, sharedUser, tries, machine, cloud, random, bounds>>

\* get_admin_password() of CloudStack takes and deletes a password that nobody will set.
CredentialsTaken ==
  /\ pc = "cert" /\ "cert" \notin saved
  /\ sharedPwd = NoPassword /\ config.kind = "cloudstack" /\ OnServer # NoPassword
  /\ server' = Taken
  /\ windows' = windows \cup {"lost"}
  /\ pc' = "certdone"
  /\ UNCHANGED <<config, process, machine, slot, wanted, random, bounds>>

\* No password anywhere: the plugin fails, at this boot and at the next ones.
NoCredentials ==
  /\ pc = "cert" /\ "cert" \notin saved
  /\ sharedPwd = NoPassword
  /\ IF config.kind = "openstack" THEN MetadataPassword = NoPassword ELSE OnServer = NoPassword
  /\ EndOfPlugin("rest")
  /\ UNCHANGED <<config, sharedUser, sharedPwd, machine, cloud, random, windows, bounds>>

\* An existing mapping is deleted before it is created with the new password.
Unmap ==
  /\ pc = "map" /\ mapping # NoMapping
  /\ mapping' = NoMapping
  /\ UNCHANGED <<pc, config, process, saved, account, builtin, cloud, random, windows, bounds>>

Map ==
  /\ pc = "map" /\ mapping = NoMapping
  /\ mapping' = [user |-> user, pwd |-> pwd]
  /\ pc' = "certdone"
  /\ UNCHANGED <<config, process, saved, account, builtin, cloud, random, windows, bounds>>

\* A WinRM, certificate or registry call raises: the password is gone from shared_data.
CertFails ==
  /\ pc \in {"map", "certdone"}
  /\ Interrupted("cert")
  /\ EndOfPlugin("rest")
  /\ UNCHANGED <<config, sharedUser, sharedPwd, machine, cloud, random, windows, resets>>

CertDone ==
  /\ pc = "certdone"
  /\ saved' = saved \cup {"cert"}
  /\ EndOfPlugin("rest")
  /\ UNCHANGED <<config, sharedUser, sharedPwd, account, builtin, mapping, cloud, random,
                 windows, bounds>>

\* Nothing more happens before the next boot.
Rest ==
  /\ pc = "rest"
  /\ UNCHANGED vars

-----------------------------------------------------------------------------

CreateUser ==
  \/ CreateSkip
  \/ CreateStart
  \/ CreateRename
  \/ CreateRenamed
  \/ CreateExisting
  \/ CreateNew
  \/ CreateDone
  \/ CreateFails

SetUserPassword ==
  \/ SetSkip
  \/ SetStart
  \/ Poll
  \/ Choose
  \/ Delete
  \/ DeleteUnanswered
  \/ Apply
  \/ Logon
  \/ Check
  \/ Posted
  \/ PostedUnanswered
  \/ Refused
  \/ SetFails
  \/ SetDone

CertificateAuth ==
  \/ CertSkip
  \/ Credentials
  \/ CredentialsTaken
  \/ NoCredentials
  \/ Unmap
  \/ Map
  \/ CertFails
  \/ CertDone

Next ==
  \/ Boot
  \/ Restart
  \/ Crash
  \/ Reset
  \/ CreateUser
  \/ Between
  \/ SetUserPassword
  \/ CertificateAuth
  \/ Rest

Spec == Init /\ [][Next]_vars

-----------------------------------------------------------------------------
(* Properties. *)

Password == Nat \cup (Special \ {Absent})

\* Type invariant of the three plugins, the machine and the two password stores.
TypeOK ==
  /\ pc \in {"off", "create", "rename", "renamed", "temporary", "created", "between", "set",
             "poll", "choose", "delete", "apply", "logon", "check", "post", "setdone",
             "cert", "map", "certdone", "rest"}
  /\ config \in Configs
  /\ saved \subseteq {"create", "set", "cert"}
  /\ account \in [Users -> Password \cup {Absent}]
  /\ builtin \in Users
  /\ mapping \in [user : Users \cup {NoUser}, pwd : Password]
  /\ sharedUser \in Users \cup {NoUser}
  /\ sharedPwd \in Password \ {Taken}
  /\ user \in Users \cup {NoUser}
  /\ pwd \in Password \ {Taken}
  /\ tries \in 0 .. RetryCount
  /\ slot \in Password \ {Taken}
  /\ server \in Password
  /\ wanted \in Password
  /\ random \in Nat
  /\ windows \subseteq Windows
  /\ interruptions \in 0 .. MaxInterruptions
  /\ resets \in 0 .. MaxResets

\* Somebody can know the password once SetUserPassword is done: it is the one of the
\* metadata or the one posted, never the temporary password of CreateUser nor one that
\* was generated and thrown away. Crashes, failed calls, lost answers and reboots between
\* the plugins break it only through four windows: the plugin runs again after it has
\* posted, CreateUser runs (again) after it, it acts on another user, or on no user.
PasswordKnown ==
  config.kind = "openstack" /\ "set" \in saved /\ (config.key \/ (config.inject /\ config.admin))
    => \/ account[EffectiveUser] \in {slot, AdminPassword}
       \/ windows \cap {"reposted", "recreated", "wronguser", "nouser"} # {}

\* Only a password that the account already has is posted.
PostedIsSet ==
  [][slot' # slot => slot' = account[user]]_vars

\* The certificate mapping holds the password the account has: it opens a session. The
\* ways around it: the user name or the password is gone from shared_data and the
\* configuration or the metadata stand in for them, or the password was set and the
\* plugin failed before it shared it.
MappingOpensSession ==
  [][mapping' \notin {mapping, NoMapping} =>
       \/ account[mapping'.user] = mapping'.pwd
       \/ windows \cap {"metadata", "wronguser", "unshared"} # {}]_vars

\* The password that the cloud user chose last on the CloudStack server is not lost: at rest
\* the account has it or the server still holds it. The ways around it: it was lost after
\* the deletion (a crash, an account that refuses it, an unanswered deletion) or deleted
\* for the certificate; it arrived between the request for the one before and the deletion;
\* CreateUser ran again over it.
ChosenIsNotLost ==
  pc = "rest" /\ wanted # NoPassword /\ config.inject =>
    \/ server = wanted
    \/ account[ConfUser] = wanted
    \/ windows \cap {"lost", "overtaken", "recreated"} # {}

\* createuser.py calls the password of CreateUser temporary, to be replaced by
\* SetUserPassword: once both are done the account must have the password of the metadata
\* or the one posted.
TemporaryIsReplaced ==
  pc = "rest" /\ {"create", "set"} \subseteq saved =>
    account[EffectiveUser] \in {slot, AdminPassword}

\* plugins.rst says of SetUserPassword that a user name given by the metadata service
\* overrides the one of the configuration: it must act on no other account.
ActsOnMetadataUser ==
  [][pc = "set" /\ user' # NoUser => user' = EffectiveUser]_vars

\* httpservice.py answers a 409 of the metadata service with "Password already set" and
\* goes on: a password that is already there must not make the plugin fail.
ConflictIsNoFailure ==
  [][pc = "post" /\ slot # NoPassword => pc' \in {"post", "setdone"}]_vars

=============================================================================
