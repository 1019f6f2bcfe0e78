--------------------------- MODULE ServiceAccount ---------------------------
(***************************************************************************)
(* The account cloudbase-init's own service runs under.  At each start the *)
(* program gives it a new random password, hands the password to the       *)
(* service manager, and, when it runs under that very account itself,      *)
(* starts over in a child process with a fresh logon.                      *)
(***************************************************************************)
EXTENDS Naturals

CONSTANTS
  Accounts,     \* what the service may run as: "missing", "builtin", "domain", "local"
  MaxFailures   \* bound: calls that raise

VARIABLES
  pc,           \* "idle", a step, "over" (the plugins may run) or "gone" (it raised)
  account,      \* what the service runs as
  own,          \* the process runs under the service's account
  process,      \* "parent" or "child"
  password,     \* password of the account, by its number
  credentials,  \* password the service manager logs the service on with
  resets,       \* resets since the boot
  failures

vars == <<pc, account, own, process, password, credentials, resets, failures>>

Init ==
  /\ pc = "idle" /\ account \in Accounts /\ own \in BOOLEAN
  /\ process = "parent" /\ password = 0 /\ credentials = 0 /\ resets = 0

\* The service manager can log the service on.
Startable == account = "local" => credentials = password

\* Mutant: the child resets the password as well.
Mut_NoReset == FALSE

\* The service is started without the option, a child with it.
NoReset == process = "child"

Start ==
  /\ pc = "idle" /\ Startable
  /\ pc' = "service" /\ process' = "parent" /\ resets' = 0
  /\ UNCHANGED <<account, own, password, credentials, failures>>

Halt ==
  /\ pc' = "idle" /\ process' = "parent" /\ resets' = 0
  /\ UNCHANGED <<account, own, password, credentials>>

Goes(next) == pc' = next /\ UNCHANGED <<account, own, failures>>

\* configure_host: nothing to reset for a child, without a service, and for an
\* account that is not local.
Keep ==
  /\ pc = "service"
  /\ NoReset \/ account # "local"
  /\ Goes("over") /\ UNCHANGED <<process, password, credentials, resets>>

\* Mutant: a counter that never wraps.
Mut_Fresh(old) == old + 1

\* Passwords repeat after a while so that the counter stays small.
Fresh(old) == (old + 1) % 4

SetPassword ==
  /\ pc = "service" /\ ~NoReset /\ account = "local"
  /\ password' = Fresh(password) /\ resets' = resets + 1
  /\ Goes("credentials") /\ UNCHANGED <<process, credentials>>

\* Mutant: the service keeps its old credentials when another user runs the program.
Mut_SetCredentials ==
  /\ pc = "credentials"
  /\ credentials' = IF own THEN password ELSE credentials
  /\ Goes("user") /\ UNCHANGED <<process, password, resets>>

SetCredentials ==
  /\ pc = "credentials"
  /\ credentials' = password
  /\ Goes("user") /\ UNCHANGED <<process, password, resets>>

OtherUser ==
  /\ pc = "user" /\ ~own
  /\ Goes("over") /\ UNCHANGED <<process, password, credentials, resets>>

\* The arguments get the option, the account is logged on with the new password.
Logon ==
  /\ pc = "user" /\ own
  /\ Goes("spawn") /\ UNCHANGED <<process, password, credentials, resets>>

\* The child runs configure_host from its beginning; the parent waits for it and
\* exits with its code.
Spawn ==
  /\ pc = "spawn"
  /\ process' = "child"
  /\ Goes("service") /\ UNCHANGED <<password, credentials, resets>>

\* No handler: the process ends with the exception, before any plugin.
Raise ==
  /\ pc \in {"service", "credentials", "user", "spawn"}
  /\ failures < MaxFailures /\ failures' = failures + 1
  /\ pc' = "gone"
  /\ UNCHANGED <<account, own, process, password, credentials, resets>>

Next ==
  \/ Start \/ Keep \/ SetPassword \/ SetCredentials
  \/ OtherUser \/ Logon \/ Spawn \/ Raise

-----------------------------------------------------------------------------
TypeOK ==
  /\ pc \in {"idle", "service", "credentials", "user", "spawn", "over", "gone"}
  /\ account \in Accounts /\ own \in BOOLEAN /\ process \in {"parent", "child"}
  /\ password \in 0..3 /\ credentials \in 0..3 /\ resets \in 0..2

\* The plugins run at most one reset after the start, and never in a process that
\* still holds the logon of the old password.
OneReset ==
  /\ resets <= 1
  /\ pc = "over" /\ account = "local" => process = IF own THEN "child" ELSE "parent"

=============================================================================
