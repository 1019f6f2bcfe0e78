------------------------- MODULE UserPasswordProofs -------------------------
(***************************************************************************)
(* Proofs about UserPassword: its state is well typed, only a password that *)
(* the account has is posted, a certificate mapping opens a session,        *)
(* somebody knows the password once SetUserPassword is done, and a password *)
(* chosen in CloudStack is not lost, for any accounts, configurations,      *)
(* faults, retries and resets.                                              *)
(***************************************************************************)
EXTENDS UserPassword, TLAPS

\* Where CreateUser has started, and where SetUserPassword has.
InCreate == {"rename", "renamed", "temporary", "created"}
InSet    == {"poll", "choose", "delete", "apply", "logon", "check", "post"}

\* A running plugin has chosen its user: CreateUser that of the metadata, which it shares,
\* SetUserPassword the shared one.
UserInv ==
  /\ pc \in InCreate => user = EffectiveUser /\ sharedUser = user
  /\ pc \in InSet => user = SharedOrConfUser
  /\ pc = "map" => user \in Users

TypeInv == TypeOK /\ UserInv

LEMMA Constants ==
  /\ ConfUser \in Users /\ Administrator \in Users /\ NoUser \notin Users
  /\ RetryCount \in Nat /\ MaxInterruptions \in Nat /\ MaxResets \in Nat
  /\ Nat \subseteq Password
  /\ {NoPassword, Taken, AdminPassword, ImagePassword} \subseteq Password
  /\ Taken \notin {NoPassword, AdminPassword, ImagePassword} \cup Nat
  /\ NoPassword \notin {AdminPassword, ImagePassword} \cup Nat
  /\ Absent \notin Password
BY PasswordAssumption DEF Password, Special

\* The user of the metadata and the one of shared_data are users.
LEMMA UsersKnown ==
  ASSUME TypeOK
  PROVE  /\ EffectiveUser \in Users
         /\ SharedOrConfUser \in Users
         /\ config \in Config
BY PasswordAssumption, Constants DEF TypeOK, Config, EffectiveUser, SharedOrConfUser

LEMMA InitTypeInv == Init => TypeInv
<1> SUFFICES ASSUME Init PROVE TypeInv
  OBVIOUS
<1>1. account \in [Users -> Password \cup {Absent}]
  BY Constants DEF Init
<1>2. mapping \in [user : Users \cup {NoUser}, pwd : Password]
  BY Constants DEF Init, NoMapping
<1>3. QED
  BY <1>1, <1>2, Constants DEF Init, TypeInv, TypeOK, UserInv, InCreate, InSet

LEMMA EnvironmentTypeInv ==
  ASSUME TypeInv, Boot \/ Restart \/ Crash \/ Reset \/ Between \/ Rest
  PROVE  TypeInv'
<1> USE DEF TypeInv, TypeOK, UserInv, InCreate, InSet, process, machine, cloud, bounds
<1>1. CASE Boot
  BY <1>1 DEF Boot
<1>2. CASE Restart
  BY <1>2, Constants DEF Restart, Gone
<1>3. CASE Crash
  BY <1>3, Constants DEF Crash, Gone, Interrupted, Discarded, Windows
<1>4. CASE Reset
  BY <1>4, Constants DEF Reset, Fresh, EffectiveUser, SharedOrConfUser
<1>5. CASE Between
  BY <1>5, Constants DEF Between, Gone, Interrupted
<1>6. CASE Rest
  BY <1>6 DEF Rest, vars, EffectiveUser, SharedOrConfUser
<1>7. QED
  BY <1>1, <1>2, <1>3, <1>4, <1>5, <1>6

LEMMA CreateUserTypeInv ==
  ASSUME TypeInv, CreateUser
  PROVE  TypeInv'
<1> USE DEF TypeInv, TypeOK, UserInv, InCreate, InSet, process, machine, cloud, bounds,
            EffectiveUser
<1>0. EffectiveUser \in Users
  BY UsersKnown
<1>1. CASE CreateSkip
  BY <1>1 DEF CreateSkip
<1>2. CASE CreateStart
  BY <1>2, <1>0, Constants DEF CreateStart, Fresh
<1>3. CASE CreateRename
  BY <1>3, <1>0, Constants DEF CreateRename
<1>4. CASE CreateRenamed
  BY <1>4, <1>0 DEF CreateRenamed
<1>5. CASE CreateExisting
  BY <1>5, <1>0 DEF CreateExisting, Overwritten, Windows
<1>6. CASE CreateNew
  BY <1>6, <1>0 DEF CreateNew
<1>7. CASE CreateDone
  BY <1>7, Constants DEF CreateDone, EndOfPlugin
<1>8. CASE CreateFails
  BY <1>8, Constants DEF CreateFails, EndOfPlugin, Interrupted
<1>9. QED
  BY <1>1, <1>2, <1>3, <1>4, <1>5, <1>6, <1>7, <1>8 DEF CreateUser

LEMMA SetUserPasswordTypeInv ==
  ASSUME TypeInv, SetUserPassword
  PROVE  TypeInv'
<1> USE DEF TypeInv, TypeOK, UserInv, InCreate, InSet, process, machine, cloud, bounds
<1>0. SharedOrConfUser \in Users
  BY UsersKnown
<1> USE DEF SharedOrConfUser
<1>1. CASE SetSkip
  BY <1>1 DEF SetSkip
<1>2. CASE SetStart
  BY <1>2, <1>0, Constants DEF SetStart, Windows
<1>3. CASE Poll
  BY <1>3, Constants DEF Poll, Interrupted
<1>4. CASE Choose
  <2>1. /\ OnServer \in Password \ {Taken}
        /\ MetadataPassword \in Password \ {Taken}
        /\ Fresh \in Nat
    BY Constants DEF OnServer, MetadataPassword, Fresh
  <2>2. /\ pwd' \in Password \ {Taken}
        /\ random' \in Nat
        /\ interruptions' \in 0 .. MaxInterruptions
        /\ pc' \in {"apply", "delete"}
    BY <1>4, <2>1, Constants DEF Choose, Fallback, Interrupted
  <2>3. UNCHANGED <<config, sharedUser, sharedPwd, user, tries, machine, cloud, windows, resets>>
    BY <1>4 DEF Choose
  <2>4. QED
    BY <1>4, <2>2, <2>3 DEF Choose
<1>5. CASE Delete
  <2>1. server' \in Password
    BY <1>5, Constants DEF Delete
  <2>2. windows' \subseteq Windows
    BY <1>5 DEF Delete, Windows
  <2>3. interruptions' \in 0 .. MaxInterruptions
    BY <1>5, Constants DEF Delete, Interrupted
  <2>4. /\ pc = "delete" /\ pc' = "apply"
        /\ UNCHANGED <<config, process, machine, slot, wanted, random, resets>>
    BY <1>5 DEF Delete
  <2>5. QED
    BY <2>1, <2>2, <2>3, <2>4
<1>6. CASE DeleteUnanswered
  BY <1>6, Constants DEF DeleteUnanswered, EndOfPlugin, Interrupted, Windows
<1>7. CASE Apply
  BY <1>7, <1>0 DEF Apply, Windows
<1>8. CASE Logon
  BY <1>8 DEF Logon
<1>9. CASE Check
  BY <1>9 DEF Check
<1>10. CASE Posted
  BY <1>10 DEF Posted
<1>11. CASE PostedUnanswered
  BY <1>11, Constants DEF PostedUnanswered, AttemptFailed, EndOfPlugin, Interrupted
<1>12. CASE Refused
  BY <1>12, Constants DEF Refused, AttemptFailed, EndOfPlugin
<1>13. CASE SetFails
  BY <1>13, Constants DEF SetFails, EndOfPlugin, Interrupted, Discarded, Windows
<1>14. CASE SetDone
  BY <1>14, Constants DEF SetDone, EndOfPlugin
<1>15. QED
  BY <1>1, <1>2, <1>3, <1>4, <1>5, <1>6, <1>7, <1>8, <1>9, <1>10, <1>11, <1>12, <1>13, <1>14
  DEF SetUserPassword

LEMMA CertificateAuthTypeInv ==
  ASSUME TypeInv, CertificateAuth
  PROVE  TypeInv'
<1> USE DEF TypeInv, TypeOK, UserInv, InCreate, InSet, process, machine, cloud, bounds
<1>0. SharedOrConfUser \in Users
  BY UsersKnown
<1>1. CASE CertSkip
  BY <1>1 DEF CertSkip
<1>2. CASE Credentials
  BY <1>2, <1>0, Constants DEF Credentials, MetadataPassword, Windows
<1>3. CASE CredentialsTaken
  BY <1>3, Constants DEF CredentialsTaken, Windows
<1>4. CASE NoCredentials
  BY <1>4, Constants DEF NoCredentials, EndOfPlugin
<1>5. CASE Unmap
  BY <1>5, Constants DEF Unmap, NoMapping
<1>6. CASE Map
  BY <1>6, Constants DEF Map
<1>7. CASE CertFails
  BY <1>7, Constants DEF CertFails, EndOfPlugin, Interrupted
<1>8. CASE CertDone
  BY <1>8, Constants DEF CertDone, EndOfPlugin
<1>9. QED
  BY <1>1, <1>2, <1>3, <1>4, <1>5, <1>6, <1>7, <1>8 DEF CertificateAuth

LEMMA NextTypeInv ==
  ASSUME TypeInv, [Next]_vars
  PROVE  TypeInv'
<1>1. CASE UNCHANGED vars
  BY <1>1 DEF vars, process, machine, cloud, bounds, TypeInv, TypeOK, UserInv, InCreate, InSet,
              EffectiveUser, SharedOrConfUser
<1>2. QED
  BY <1>1, EnvironmentTypeInv, CreateUserTypeInv, SetUserPasswordTypeInv, CertificateAuthTypeInv
  DEF Next

\* The state of the plugins, the machine and the password stores is always well typed.
THEOREM TypeCorrect == Spec => []TypeOK
<1>1. Spec => []TypeInv
  BY InitTypeInv, NextTypeInv, PTL DEF Spec
<1>2. TypeInv => TypeOK
  BY DEF TypeInv
<1>3. QED
  BY <1>1, <1>2, PTL

-----------------------------------------------------------------------------
(* The password that is set, shared, posted and mapped. *)

\* What the plugins hold is what the account has: from the step that sets the password on
\* in SetUserPassword, in shared_data, and in the certificate plugin.
HeldInv ==
  /\ pc \in {"off", "create", "rename", "renamed", "temporary"} => sharedPwd = NoPassword
  /\ pc \in {"logon", "check", "post"} => account[user] = pwd
  /\ sharedPwd # NoPassword /\ pc # "logon" =>
       account[SharedOrConfUser] = sharedPwd \/ "unshared" \in windows
  /\ pc = "map" =>
       account[user] = pwd \/ windows \cap {"metadata", "wronguser", "unshared"} # {}

LEMMA InitHeldInv == Init => HeldInv
  BY DEF Init, HeldInv

\* Steps that leave the accounts, the plugin's password and the handed over one alone, and
\* do not go to a place where something new is promised.
LEMMA QuietHeldInv ==
  ASSUME HeldInv, UNCHANGED <<account, sharedUser, sharedPwd>>,
         windows \subseteq windows', pc # "logon",
         pc' \notin {"off", "create", "rename", "renamed", "temporary", "logon", "check",
                    "post", "map"}
  PROVE  HeldInv'
  BY DEF HeldInv, SharedOrConfUser

LEMMA EnvironmentHeldInv ==
  ASSUME HeldInv, Boot \/ Restart \/ Crash \/ Reset \/ Between \/ Rest
  PROVE  HeldInv'
<1> USE DEF HeldInv, SharedOrConfUser, process, machine, cloud, bounds
<1>1. CASE Boot
  BY <1>1 DEF Boot
<1>2. CASE Restart
  BY <1>2 DEF Restart, Gone
<1>3. CASE Crash
  BY <1>3 DEF Crash, Gone
<1>4. CASE Reset
  BY <1>4 DEF Reset
<1>5. CASE Between
  BY <1>5 DEF Between, Gone
<1>6. CASE Rest
  BY <1>6 DEF Rest, vars
<1>7. QED
  BY <1>1, <1>2, <1>3, <1>4, <1>5, <1>6

LEMMA CreateUserHeldInv ==
  ASSUME TypeInv, HeldInv, CreateUser
  PROVE  HeldInv'
<1> USE DEF HeldInv, process, machine, cloud, bounds
<1>0. EffectiveUser \in Users /\ NoUser \notin Users /\ account \in [Users -> Password \cup {Absent}]
  BY UsersKnown, Constants DEF TypeInv, TypeOK
<1>1. CASE CreateSkip
  BY <1>1 DEF CreateSkip, SharedOrConfUser
<1>2. CASE CreateStart
  BY <1>2 DEF CreateStart
<1>3. CASE CreateRename
  BY <1>3 DEF CreateRename
<1>4. CASE CreateRenamed
  BY <1>4 DEF CreateRenamed, SharedOrConfUser
<1>5. CASE CreateExisting
  BY <1>5 DEF CreateExisting
<1>6. CASE CreateNew
  <2>1. user \in Users /\ sharedUser = user
    BY <1>6, <1>0 DEF CreateNew, TypeInv, UserInv, InCreate
  <2>2. account'[user] = pwd /\ sharedPwd' = pwd
    BY <1>6, <1>0, <2>1 DEF CreateNew
  <2>3. SharedOrConfUser' = user /\ pc' = "created"
    BY <1>6, <1>0, <2>1 DEF CreateNew, SharedOrConfUser
  <2>4. QED
    BY <2>2, <2>3
<1>7. CASE CreateDone
  BY <1>7 DEF CreateDone, EndOfPlugin, SharedOrConfUser
<1>8. CASE CreateFails
  BY <1>8 DEF CreateFails, EndOfPlugin, SharedOrConfUser
<1>9. QED
  BY <1>1, <1>2, <1>3, <1>4, <1>5, <1>6, <1>7, <1>8 DEF CreateUser

LEMMA SetUserPasswordHeldInv ==
  ASSUME TypeInv, HeldInv, SetUserPassword
  PROVE  HeldInv'
<1> USE DEF process, machine, cloud, bounds
<1>1. CASE SetSkip
  BY <1>1, QuietHeldInv DEF SetSkip
<1>2. CASE SetStart
  BY <1>2, QuietHeldInv DEF SetStart
<1>3. CASE Poll
  BY <1>3, QuietHeldInv DEF Poll
<1>4. CASE Choose
  BY <1>4, QuietHeldInv DEF Choose
<1>5. CASE Delete
  BY <1>5, QuietHeldInv DEF Delete
<1>6. CASE DeleteUnanswered
  BY <1>6, QuietHeldInv DEF DeleteUnanswered, EndOfPlugin
<1>7. CASE Apply
  <2>1. user \in Users /\ account \in [Users -> Password \cup {Absent}]
    BY <1>7, UsersKnown DEF Apply, TypeInv, TypeOK, UserInv, InSet
  <2>2. account'[user'] = pwd' /\ pc' = "logon"
    BY <1>7, <2>1 DEF Apply
  <2>3. QED
    BY <2>2 DEF HeldInv
<1>8. CASE Logon
  <2>1. account[user] = pwd /\ user = SharedOrConfUser
    BY <1>8 DEF Logon, HeldInv, TypeInv, UserInv, InSet
  <2>2. /\ UNCHANGED <<account, user, pwd, sharedUser>>
        /\ sharedPwd' = pwd /\ pc' \in {"check", "setdone"}
    BY <1>8 DEF Logon
  <2>3. QED
    BY <2>1, <2>2 DEF HeldInv, SharedOrConfUser
<1>9. CASE Check
  BY <1>9 DEF Check, HeldInv, SharedOrConfUser
<1>10. CASE Posted
  BY <1>10, QuietHeldInv DEF Posted
<1>11. CASE PostedUnanswered
  BY <1>11 DEF PostedUnanswered, AttemptFailed, EndOfPlugin, HeldInv, SharedOrConfUser
<1>12. CASE Refused
  BY <1>12 DEF Refused, AttemptFailed, EndOfPlugin, HeldInv, SharedOrConfUser
<1>13. CASE SetFails
  BY <1>13 DEF SetFails, EndOfPlugin, HeldInv, SharedOrConfUser
<1>14. CASE SetDone
  BY <1>14, QuietHeldInv DEF SetDone, EndOfPlugin
<1>15. QED
  BY <1>1, <1>2, <1>3, <1>4, <1>5, <1>6, <1>7, <1>8, <1>9, <1>10, <1>11, <1>12, <1>13, <1>14
  DEF SetUserPassword

LEMMA CertificateAuthHeldInv ==
  ASSUME HeldInv, CertificateAuth
  PROVE  HeldInv'
<1> USE DEF process, machine, cloud, bounds
<1>1. CASE CertSkip
  BY <1>1, QuietHeldInv DEF CertSkip
<1>2. CASE Credentials
  BY <1>2 DEF Credentials, HeldInv, SharedOrConfUser
<1>3. CASE CredentialsTaken
  BY <1>3, QuietHeldInv DEF CredentialsTaken
<1>4. CASE NoCredentials
  BY <1>4, QuietHeldInv DEF NoCredentials, EndOfPlugin
<1>5. CASE Unmap
  BY <1>5 DEF Unmap, HeldInv, SharedOrConfUser
<1>6. CASE Map
  BY <1>6, QuietHeldInv DEF Map
<1>7. CASE CertFails
  BY <1>7, QuietHeldInv DEF CertFails, EndOfPlugin
<1>8. CASE CertDone
  BY <1>8, QuietHeldInv DEF CertDone, EndOfPlugin
<1>9. QED
  BY <1>1, <1>2, <1>3, <1>4, <1>5, <1>6, <1>7, <1>8 DEF CertificateAuth

LEMMA NextHeldInv ==
  ASSUME TypeInv, HeldInv, [Next]_vars
  PROVE  HeldInv'
<1>1. CASE UNCHANGED vars
  BY <1>1 DEF vars, process, machine, cloud, bounds, HeldInv, SharedOrConfUser
<1>2. QED
  BY <1>1, EnvironmentHeldInv, CreateUserHeldInv, SetUserPasswordHeldInv, CertificateAuthHeldInv
  DEF Next

\* Only the two outcomes of a POST write the slot, and only Map makes a mapping.
LEMMA WhoPostsAndMaps ==
  ASSUME [Next]_vars
  PROVE  /\ slot' # slot => Posted \/ PostedUnanswered
         /\ mapping' \notin {mapping, NoMapping} => Map
<1> USE DEF process, machine, cloud, bounds
<1>1. CASE UNCHANGED vars
  BY <1>1 DEF vars
<1>2. CASE Boot \/ Restart \/ Crash \/ Reset \/ Between \/ Rest
  BY <1>2 DEF Boot, Restart, Crash, Reset, Between, Rest, vars
<1>3. CASE CreateUser
  BY <1>3 DEF CreateUser, CreateSkip, CreateStart, CreateRename, CreateRenamed, CreateExisting,
              CreateNew, CreateDone, CreateFails
<1>4. CASE SetUserPassword
  BY <1>4 DEF SetUserPassword, SetSkip, SetStart, Poll, Choose, Delete, DeleteUnanswered, Apply,
              Logon, Check, Posted, PostedUnanswered, Refused, SetFails, SetDone
<1>5. CASE CertificateAuth
  <2>1. slot' = slot
    BY <1>5 DEF CertificateAuth, CertSkip, Credentials, CredentialsTaken, NoCredentials, Unmap,
                Map, CertFails, CertDone
  <2>2. CASE ~Map
    BY <1>5, <2>2 DEF CertificateAuth, CertSkip, Credentials, CredentialsTaken, NoCredentials,
                      Unmap, CertFails, CertDone
  <2>3. QED
    BY <2>1, <2>2
<1>6. QED
  BY <1>1, <1>2, <1>3, <1>4, <1>5 DEF Next

LEMMA HeldAlways == Spec => [](TypeInv /\ HeldInv)
  BY InitTypeInv, NextTypeInv, InitHeldInv, NextHeldInv, PTL DEF Spec

\* A password is posted only when the account has it, whatever failed or was repeated.
THEOREM PostedPasswordsAreSet == Spec => PostedIsSet
<1>1. ASSUME HeldInv, [Next]_vars, slot' # slot
      PROVE  slot' = account[user]
  BY <1>1, WhoPostsAndMaps DEF Posted, PostedUnanswered, HeldInv
<1>2. QED
  BY <1>1, HeldAlways, PTL DEF Spec, PostedIsSet

\* A mapping that was made opens a session, but for the three named ways around it.
THEOREM MappingsOpenSessions == Spec => MappingOpensSession
<1>1. ASSUME HeldInv, [Next]_vars, mapping' \notin {mapping, NoMapping}
      PROVE  \/ account[mapping'.user] = mapping'.pwd
             \/ windows \cap {"metadata", "wronguser", "unshared"} # {}
  BY <1>1, WhoPostsAndMaps DEF Map, HeldInv
<1>2. QED
  BY <1>1, HeldAlways, PTL DEF Spec, MappingOpensSession

-----------------------------------------------------------------------------
(* The password that somebody knows. *)

Astray == windows \cap {"reposted", "recreated", "wronguser", "nouser"} # {}

\* The user's password is in the metadata or can be posted there.
Deliverable ==
  config.kind = "openstack" /\ (config.key \/ (config.inject /\ config.admin))

Known == account[EffectiveUser] \in {slot, AdminPassword}

\* Unless the protocol has gone astray: SetUserPassword works on the user of the metadata
\* and asks no password server, it holds the password of the metadata when it must, the slot is free or holds the
\* password it is about to post, and the password is known from "setdone" on.
KnownInv ==
  ~Astray /\ Deliverable =>
    /\ pc \in InSet => user = EffectiveUser /\ "set" \notin saved
    /\ pc \notin {"poll", "delete"}
    /\ pc \in {"apply", "logon", "check", "post"} /\ config.inject /\ config.admin =>
         pwd = AdminPassword
    /\ pc \in {"logon", "check", "post"} => slot \in {NoPassword, pwd}
    /\ pc = "setdone" \/ "set" \in saved => Known

LEMMA InitKnownInv == Init => KnownInv
  BY DEF Init, KnownInv, InSet

\* Steps that change nothing KnownInv speaks of but the place, and do not begin anything.
LEMMA QuietKnownInv ==
  ASSUME KnownInv, UNCHANGED <<config, account, slot, saved>>, windows \subseteq windows',
         pc' \notin InSet \cup {"setdone"}
  PROVE  KnownInv'
  BY DEF KnownInv, Known, Astray, Deliverable, EffectiveUser, InSet

LEMMA EnvironmentKnownInv ==
  ASSUME KnownInv, Boot \/ Restart \/ Crash \/ Reset \/ Between \/ Rest
  PROVE  KnownInv'
<1> USE DEF process, machine, cloud, bounds
<1>1. CASE Boot
  BY <1>1, QuietKnownInv DEF Boot, InSet
<1>2. CASE Restart
  BY <1>2, QuietKnownInv DEF Restart, Gone, InSet
<1>3. CASE Crash
  BY <1>3, QuietKnownInv DEF Crash, Gone, InSet
<1>4. CASE Reset
  BY <1>4 DEF Reset, KnownInv, Deliverable
<1>5. CASE Between
  BY <1>5, QuietKnownInv DEF Between, Gone, InSet
<1>6. CASE Rest
  BY <1>6, QuietKnownInv DEF Rest, vars, InSet
<1>7. QED
  BY <1>1, <1>2, <1>3, <1>4, <1>5, <1>6

\* CreateUser touches a known password only in the step that goes astray: the account
\* exists, so it is neither renamed onto nor created.
LEMMA CreateUserKnownInv ==
  ASSUME TypeInv, KnownInv, CreateUser
  PROVE  KnownInv'
<1> USE DEF process, machine, cloud, bounds
<1>0. /\ pc \in InCreate => user = EffectiveUser
      /\ Known => account[EffectiveUser] # Absent
  BY Constants DEF TypeInv, TypeOK, UserInv, Known
<1>1. CASE CreateSkip
  BY <1>1, QuietKnownInv DEF CreateSkip, InSet
<1>2. CASE CreateStart
  BY <1>2, QuietKnownInv DEF CreateStart, InSet
<1>3. CASE CreateRename
  <2>1. user = EffectiveUser /\ account[user] = Absent
    BY <1>3, <1>0 DEF CreateRename, InCreate
  <2>2. /\ UNCHANGED <<config, slot, saved, windows>>
        /\ pc' = "renamed" /\ pc = "rename"
    BY <1>3 DEF CreateRename
  <2>3. QED
    BY <1>0, <2>1, <2>2 DEF KnownInv, Astray, Deliverable, InSet
<1>4. CASE CreateRenamed
  BY <1>4, QuietKnownInv DEF CreateRenamed, InSet
<1>5. CASE CreateExisting
  BY <1>5 DEF CreateExisting, Overwritten, KnownInv, Astray, Deliverable, InSet
<1>6. CASE CreateNew
  <2>1. user = EffectiveUser /\ account[user] = Absent
    BY <1>6, <1>0 DEF CreateNew, InCreate
  <2>2. /\ UNCHANGED <<config, slot, saved, windows>>
        /\ pc' = "created" /\ pc = "temporary"
    BY <1>6 DEF CreateNew
  <2>3. QED
    BY <1>0, <2>1, <2>2 DEF KnownInv, Astray, Deliverable, InSet
<1>7. CASE CreateDone
  BY <1>7 DEF CreateDone, EndOfPlugin, KnownInv, Known, Astray, Deliverable, EffectiveUser, InSet
<1>8. CASE CreateFails
  BY <1>8, QuietKnownInv DEF CreateFails, EndOfPlugin, InSet
<1>9. QED
  BY <1>1, <1>2, <1>3, <1>4, <1>5, <1>6, <1>7, <1>8 DEF CreateUser

LEMMA SetUserPasswordKnownInv ==
  ASSUME TypeInv, HeldInv, KnownInv, SetUserPassword
  PROVE  KnownInv'
<1> USE DEF process, machine, cloud, bounds
<1>1. CASE SetSkip
  BY <1>1, QuietKnownInv DEF SetSkip, InSet
<1>2. CASE SetStart
  BY <1>2 DEF SetStart, KnownInv, Astray, Deliverable, EffectiveUser, InSet
<1>3. CASE Poll
  BY <1>3 DEF Poll, KnownInv, Astray, Deliverable
<1>4. CASE Choose
  BY <1>4, Constants DEF Choose, Fallback, MetadataPassword, KnownInv, Astray, Deliverable,
                         EffectiveUser, InSet
<1>5. CASE Delete
  BY <1>5 DEF Delete, KnownInv, Astray, Deliverable
<1>6. CASE DeleteUnanswered
  BY <1>6, QuietKnownInv DEF DeleteUnanswered, EndOfPlugin, InSet
<1>7. CASE Apply
  BY <1>7 DEF Apply, KnownInv, Astray, Deliverable, EffectiveUser, InSet
<1>8. CASE Logon
  BY <1>8 DEF Logon, KnownInv, Astray, Deliverable, EffectiveUser, InSet
<1>9. CASE Check
  BY <1>9 DEF Check, HeldInv, KnownInv, Known, Astray, Deliverable, EffectiveUser, InSet
<1>10. CASE Posted
  BY <1>10 DEF Posted, HeldInv, KnownInv, Known, Astray, Deliverable, EffectiveUser, InSet
<1>11. CASE PostedUnanswered
  BY <1>11 DEF PostedUnanswered, AttemptFailed, EndOfPlugin, KnownInv, Astray, Deliverable,
               EffectiveUser, InSet
<1>12. CASE Refused
  BY <1>12 DEF Refused, AttemptFailed, EndOfPlugin, KnownInv, Astray, Deliverable,
               EffectiveUser, InSet
<1>13. CASE SetFails
  BY <1>13, QuietKnownInv DEF SetFails, EndOfPlugin, InSet
<1>14. CASE SetDone
  BY <1>14 DEF SetDone, EndOfPlugin, KnownInv, Known, Astray, Deliverable, EffectiveUser, InSet
<1>15. QED
  BY <1>1, <1>2, <1>3, <1>4, <1>5, <1>6, <1>7, <1>8, <1>9, <1>10, <1>11, <1>12, <1>13, <1>14
  DEF SetUserPassword

LEMMA CertificateAuthKnownInv ==
  ASSUME KnownInv, CertificateAuth
  PROVE  KnownInv'
<1> USE DEF process, machine, cloud, bounds
<1>1. CASE CertDone
  BY <1>1 DEF CertDone, EndOfPlugin, KnownInv, Known, Astray, Deliverable, EffectiveUser, InSet
<1>2. CASE Unmap \/ Map
  BY <1>2, QuietKnownInv DEF Unmap, Map, InSet
<1>3. CASE CertSkip \/ NoCredentials \/ CertFails
  BY <1>3, QuietKnownInv DEF CertSkip, NoCredentials, CertFails, EndOfPlugin, InSet
<1>4. CASE Credentials \/ CredentialsTaken
  BY <1>4, QuietKnownInv DEF Credentials, CredentialsTaken, InSet
<1>5. QED
  BY <1>1, <1>2, <1>3, <1>4 DEF CertificateAuth

LEMMA NextKnownInv ==
  ASSUME TypeInv, HeldInv, KnownInv, [Next]_vars
  PROVE  KnownInv'
<1>1. CASE UNCHANGED vars
  BY <1>1 DEF vars, process, machine, cloud, bounds, KnownInv, Known, Astray, Deliverable,
              EffectiveUser, InSet
<1>2. QED
  BY <1>1, EnvironmentKnownInv, CreateUserKnownInv, SetUserPasswordKnownInv,
     CertificateAuthKnownInv
  DEF Next

\* Once SetUserPassword is done, the account has the password of the metadata or the one
\* posted there, unless the protocol went astray in one of four named ways.
THEOREM DeliveredPasswordsAreKnown == Spec => []PasswordKnown
<1>1. Spec => []KnownInv
  BY HeldAlways, InitKnownInv, NextKnownInv, PTL DEF Spec
<1>2. KnownInv => PasswordKnown
  BY DEF KnownInv, Known, Astray, Deliverable, PasswordKnown
<1>3. QED
  BY <1>1, <1>2, PTL

-----------------------------------------------------------------------------
(* The password that the cloud user has chosen. *)

\* On a cloud with a password server everything is about the user of the configuration,
\* and the server holds the password that was chosen last, if it holds any.
ServerInv ==
  /\ wanted # NoPassword => config.kind = "cloudstack" /\ wanted \in Nat
  /\ config.kind = "cloudstack" => sharedUser \in {NoUser, ConfUser}
  /\ server \in {NoPassword, Taken, wanted}

Mislaid == windows \cap {"lost", "overtaken", "recreated"} # {}

\* Where the chosen password is: on the server until it is deleted there, then with the
\* plugin, then with the account.
ChosenInv ==
  wanted # NoPassword /\ config.inject /\ ~Mislaid =>
    /\ pc \in {"choose", "delete"} => server = wanted
    /\ pc = "apply" => wanted \in {server, pwd}
    /\ pc # "apply" => wanted \in {server, account[ConfUser]}

LEMMA CloudStackUser ==
  ASSUME TypeOK, config.kind = "cloudstack"
  PROVE  EffectiveUser = ConfUser
BY PasswordAssumption DEF TypeOK, EffectiveUser

LEMMA InitChosenInv == Init => ServerInv /\ ChosenInv
BY DEF Init, ServerInv, ChosenInv

LEMMA NextServerInv ==
  ASSUME TypeInv, ServerInv, [Next]_vars
  PROVE  ServerInv'
<1> USE DEF ServerInv, process, machine, cloud, bounds
<1>1. CASE UNCHANGED vars
  BY <1>1 DEF vars
<1>2. CASE Reset
  BY <1>2, Constants DEF Reset, Fresh, TypeInv, TypeOK
<1>3. CASE Boot \/ Restart \/ Crash \/ Between \/ Rest
  BY <1>3 DEF Boot, Restart, Crash, Between, Rest, Gone, vars
<1>4. CASE CreateStart
  BY <1>4, CloudStackUser DEF CreateStart, TypeInv
<1>5. CASE CreateUser /\ ~CreateStart
  BY <1>5 DEF CreateUser, CreateSkip, CreateRename, CreateRenamed, CreateExisting, CreateNew,
              CreateDone, CreateFails, EndOfPlugin
<1>6. CASE SetUserPassword
  BY <1>6 DEF SetUserPassword, SetSkip, SetStart, Poll, Choose, Delete, DeleteUnanswered, Apply,
              Logon, Check, Posted, PostedUnanswered, Refused, SetFails, SetDone
<1>7. CASE CertificateAuth
  BY <1>7 DEF CertificateAuth, CertSkip, Credentials, CredentialsTaken, NoCredentials, Unmap, Map,
              CertFails, CertDone
<1>8. QED
  BY <1>1, <1>2, <1>3, <1>4, <1>5, <1>6, <1>7 DEF Next

\* Steps that leave the passwords alone, and neither reach nor leave the choice.
LEMMA QuietChosenInv ==
  ASSUME ChosenInv, UNCHANGED <<config, account, server, wanted>>, windows \subseteq windows',
         pc # "apply", pc' \notin {"choose", "delete", "apply"}
  PROVE  ChosenInv'
BY DEF ChosenInv, Mislaid

\* When the plugin ends before the account has the chosen password, the server or the
\* account still has it, or it is discarded.
LEMMA LossIsDiscarded ==
  ASSUME ServerInv, ChosenInv, UNCHANGED <<config, account, server, wanted>>,
         windows \cup Discarded \subseteq windows', pc' \notin {"choose", "delete", "apply"}
  PROVE  ChosenInv'
<1>1. SUFFICES ASSUME wanted # NoPassword, config.inject, ~Mislaid'
               PROVE  wanted \in {server, account[ConfUser]}
  BY DEF ChosenInv
<1>2. ~Mislaid /\ Discarded = {}
  BY <1>1 DEF Mislaid, Discarded
<1>3. CASE pc = "apply"
  BY <1>2, <1>3 DEF Discarded
<1>4. CASE pc # "apply"
  BY <1>1, <1>2, <1>4 DEF ChosenInv
<1>5. QED
  BY <1>3, <1>4

LEMMA EnvironmentChosenInv ==
  ASSUME TypeInv, ServerInv, ChosenInv, Boot \/ Restart \/ Crash \/ Reset \/ Between \/ Rest
  PROVE  ChosenInv'
<1> USE DEF process, machine, cloud, bounds
<1>1. CASE Boot \/ Restart \/ Between
  BY <1>1, QuietChosenInv DEF Boot, Restart, Between, Gone
<1>2. CASE Crash
  BY <1>2, LossIsDiscarded DEF Crash, Gone
<1>3. CASE Reset
  BY <1>3 DEF Reset, ChosenInv
<1>4. CASE Rest
  BY <1>4, QuietChosenInv DEF Rest, vars
<1>5. QED
  BY <1>1, <1>2, <1>3, <1>4

\* CreateUser acts on the user of the configuration: it makes the account that was absent,
\* or overwrites the chosen password and goes astray.
LEMMA CreateUserChosenInv ==
  ASSUME TypeInv, ServerInv, ChosenInv, CreateUser
  PROVE  ChosenInv'
<1> USE DEF process, machine, cloud, bounds
<1>0. ASSUME wanted # NoPassword, pc \in InCreate
      PROVE  user = ConfUser /\ wanted # Absent
  BY <1>0, CloudStackUser, Constants DEF ServerInv, TypeInv, UserInv
<1>1. CASE CreateRename \/ CreateNew
  <2>1. /\ account[user] = Absent /\ UNCHANGED <<config, server, wanted, windows>>
        /\ pc \in InCreate /\ pc' \in InCreate
    BY <1>1 DEF CreateRename, CreateNew, InCreate
  <2>2. ASSUME wanted # NoPassword, config.inject, ~Mislaid PROVE server = wanted
    BY <2>1, <2>2, <1>0 DEF ChosenInv, InCreate
  <2>3. QED
    BY <2>1, <2>2 DEF ChosenInv, Mislaid, InCreate
<1>2. CASE CreateExisting
  <2>1. /\ account' = [account EXCEPT ![user] = pwd] /\ windows' = windows \cup Overwritten
        /\ pc \in InCreate /\ pc' \in InCreate /\ UNCHANGED <<config, server, wanted>>
    BY <1>2 DEF CreateExisting, InCreate
  <2>2. ASSUME wanted # NoPassword, config.inject, ~Mislaid' PROVE wanted = server
    <3>1. user = ConfUser /\ wanted # account[user]
      BY <2>1, <2>2, <1>0 DEF Overwritten, Mislaid
    <3>2. QED
      BY <2>1, <2>2, <3>1 DEF ChosenInv, Mislaid, InCreate
  <2>3. QED
    BY <2>1, <2>2 DEF ChosenInv, Mislaid, InCreate
<1>3. CASE CreateSkip \/ CreateStart \/ CreateRenamed \/ CreateDone \/ CreateFails
  BY <1>3, QuietChosenInv
  DEF CreateSkip, CreateStart, CreateRenamed, CreateDone, CreateFails, EndOfPlugin
<1>4. QED
  BY <1>1, <1>2, <1>3 DEF CreateUser

LEMMA SetUserPasswordChosenInv ==
  ASSUME TypeInv, ServerInv, ChosenInv, SetUserPassword
  PROVE  ChosenInv'
<1> USE DEF process, machine, cloud, bounds
<1>1. CASE SetStart
  BY <1>1 DEF SetStart, ServerInv, ChosenInv, Mislaid
<1>2. CASE Poll
  BY <1>2 DEF Poll, OnServer, ServerInv, ChosenInv, Mislaid
<1>3. CASE Choose
  <2>1. UNCHANGED <<config, account, server, wanted, windows>> /\ pc = "choose"
    BY <1>3 DEF Choose
  <2>2. ASSUME wanted # NoPassword, config.inject, ~Mislaid PROVE server = wanted
    BY <2>1, <2>2 DEF ChosenInv
  <2>3. QED
    BY <2>1, <2>2 DEF ChosenInv, Mislaid
<1>4. CASE Delete
  <2>1. /\ UNCHANGED <<config, account, wanted, pwd>> /\ pc = "delete" /\ pc' = "apply"
        /\ windows \subseteq windows'
    BY <1>4 DEF Delete
  <2>2. server' = server \/ server = pwd \/ "overtaken" \in windows'
    BY <1>4 DEF Delete
  <2>3. QED
    BY <2>1, <2>2 DEF ChosenInv, Mislaid
<1>5. CASE Apply
  <2>1. /\ UNCHANGED <<config, server, wanted>> /\ pc = "apply" /\ pc' = "logon"
        /\ windows \subseteq windows'
    BY <1>5 DEF Apply
  <2>2. ASSUME wanted # NoPassword PROVE account'[ConfUser] = pwd
    <3>1. user = ConfUser
      BY <2>1, <2>2 DEF ServerInv, TypeInv, UserInv, InSet, SharedOrConfUser
    <3>2. QED
      BY <1>5, <3>1, Constants DEF Apply, TypeInv, TypeOK
  <2>3. QED
    BY <2>1, <2>2 DEF ChosenInv, Mislaid
<1>6. CASE DeleteUnanswered
  BY <1>6 DEF DeleteUnanswered, ChosenInv, Mislaid
<1>7. CASE SetSkip \/ Logon \/ Check
  BY <1>7, QuietChosenInv DEF SetSkip, Logon, Check
<1>8. CASE Posted \/ PostedUnanswered \/ Refused
  BY <1>8, QuietChosenInv DEF Posted, PostedUnanswered, Refused, AttemptFailed, EndOfPlugin
<1>9. CASE SetDone
  BY <1>9, QuietChosenInv DEF SetDone, EndOfPlugin
<1>10. CASE SetFails
  BY <1>10, LossIsDiscarded DEF SetFails, EndOfPlugin
<1>11. QED
  BY <1>1, <1>2, <1>3, <1>4, <1>5, <1>6, <1>7, <1>8, <1>9, <1>10 DEF SetUserPassword

LEMMA CertificateAuthChosenInv ==
  ASSUME ChosenInv, CertificateAuth
  PROVE  ChosenInv'
<1> USE DEF process, machine, cloud, bounds
<1>1. CASE CredentialsTaken
  BY <1>1 DEF CredentialsTaken, ChosenInv, Mislaid
<1>2. CASE CertSkip \/ Credentials \/ NoCredentials \/ Unmap \/ Map \/ CertFails \/ CertDone
  BY <1>2, QuietChosenInv
  DEF CertSkip, Credentials, NoCredentials, Unmap, Map, CertFails, CertDone, EndOfPlugin
<1>3. QED
  BY <1>1, <1>2 DEF CertificateAuth

LEMMA NextChosenInv ==
  ASSUME TypeInv, ServerInv, ChosenInv, [Next]_vars
  PROVE  ChosenInv'
<1>1. CASE UNCHANGED vars
  BY <1>1 DEF vars, process, machine, cloud, bounds, ChosenInv, Mislaid
<1>2. QED
  BY <1>1, EnvironmentChosenInv, CreateUserChosenInv, SetUserPasswordChosenInv,
     CertificateAuthChosenInv
  DEF Next

\* At rest the account has the password that the cloud user has chosen, or the server still
\* holds it, unless it was mislaid in one of three named ways.
THEOREM ChosenPasswordsAreKept == Spec => []ChosenIsNotLost
<1>1. Spec => [](ServerInv /\ ChosenInv)
  BY HeldAlways, InitChosenInv, NextServerInv, NextChosenInv, PTL DEF Spec
<1>2. ChosenInv => ChosenIsNotLost
  BY DEF ChosenInv, Mislaid, ChosenIsNotLost
<1>3. QED
  BY <1>1, <1>2, PTL

=============================================================================
