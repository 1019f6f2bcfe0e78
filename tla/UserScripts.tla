---------------------------- MODULE UserScripts ----------------------------
(***************************************************************************)
(* The two MAIN plugins that run what the user wrote: UserData (a script,   *)
(* EC2 sections, a cloud-config or a multi-part message with part handlers) *)
(* and LocalScripts (the files of a directory). The exit codes of the       *)
(* scripts ask for reboots and for another execution at the next boot.      *)
(***************************************************************************)
EXTENDS Integers, Sequences, FiniteSets

CONSTANTS
  Contents,     \* the user data considered
  Directories,  \* the LocalScripts directories considered
  Types,        \* content types that no user data plugin manages
  Codes,        \* what the scripts may return
  Faults,       \* "handler": a part handler raises
  MaxBoots      \* bound on the boots of a behaviour

\* A task is run piece by piece: one script, the sections of an EC2 config, the
\* directives of a cloud-config.
Task == [kind : {"script"}, pieces : {1}]
          \cup [kind : {"ec2", "hostname", "runcmd"}, pieces : 1 .. 2]

\* A part is a task, a part handler with the types it lists, a part of a type that only a
\* part handler may manage, or a part that nothing is done with.
Handler == [kind : {"handler"}, types : SUBSET Types]
Custom  == [kind : {"custom"}, type : Types]
Ignored == [kind : {"ignored"}]

ASSUME ScriptsAssumption ==
  /\ Contents \subseteq [multipart : BOOLEAN, items : Seq(Task \cup Handler \cup Custom \cup Ignored)]
  /\ \A c \in Contents : ~c.multipart => c.items \in Seq(Task) /\ Len(c.items) = 1
  /\ Directories \subseteq Seq(Task)
  /\ Codes \subseteq Nat
  /\ Faults \subseteq {"handler"}
  /\ MaxBoots \in Nat

NoHandler == 0

VARIABLES
  pc,         \* where the two plugins are
  content,    \* the user data of this machine
  directory,  \* the local scripts of this machine
  saved,      \* plugin -> its saved status
  item,       \* the part or script being processed
  piece,      \* the piece of the task being run
  total,      \* the value the task has come to so far
  status,     \* plugin_status
  reboot,     \* reboot
  handlers,   \* user_handlers: content type -> position of the part that handles it
  begun,      \* handlers that were sent "__begin__"
  given,      \* which part was given to which handler
  ended,      \* handlers that were sent "__end__"
  named,      \* the machine has the host name of the cloud-config
  asked,      \* what the scripts of this execution asked for, as the documentation has it
  windows,    \* where the exit codes of this execution were not taken as documented
  boots       \* boots so far

execution == <<item, piece, total, status, reboot, handlers, begun, given, ended, asked, windows>>
vars == <<pc, content, directory, saved, execution, named, boots>>

Running == pc \in {"userdata", "begin", "ending", "local"}

InLoop == pc \in {"userdata", "local"}

Plugin == IF pc = "local" THEN "local" ELSE "userdata"

Items == IF pc = "local" THEN directory ELSE content.items

Current == Items[item]

\* get_plugin_return_value: bit 0 asks for a reboot, bit 1 for another execution.
RebootOf(code) == code \in 1001 .. 1003 /\ code % 2 = 1

StatusOf(code) ==
  IF code \in 1001 .. 1003 /\ (code \div 2) % 2 = 1 THEN "NEXT_BOOT" ELSE "DONE"

\* The exit codes of the documentation.
Asks(code) ==
  CASE code = 1001 -> {"reboot"}
    [] code = 1002 -> {"rerun"}
    [] code = 1003 -> {"reboot", "rerun"}
    [] OTHER -> {}

Init ==
  /\ pc = "off"
  /\ content \in Contents
  /\ directory \in Directories
  /\ saved = [p \in {"userdata", "local"} |-> "none"]
  /\ item = 1 /\ piece = 1 /\ total = 0
  /\ status = "DONE" /\ reboot = FALSE
  /\ handlers = [t \in Types |-> NoHandler]
  /\ begun = {} /\ given = {} /\ ended = {}
  /\ named = FALSE
  /\ asked = {} /\ windows = {}
  /\ boots = 0

-----------------------------------------------------------------------------
(* Boots, and the beginning and the end of a plugin. *)

\* Mutant: the position in the loop is kept from one plugin to the next.
Mut_Fresh ==
  /\ piece' = 1 /\ total' = 0
  /\ status' = "DONE" /\ reboot' = FALSE
  /\ handlers' = [t \in Types |-> NoHandler]
  /\ begun' = {} /\ given' = {} /\ ended' = {}
  /\ asked' = {} /\ windows' = {}
  /\ UNCHANGED item

\* The locals of the next plugin to be executed.
Fresh ==
  /\ item' = 1 /\ piece' = 1 /\ total' = 0
  /\ status' = "DONE" /\ reboot' = FALSE
  /\ handlers' = [t \in Types |-> NoHandler]
  /\ begun' = {} /\ given' = {} /\ ended' = {}
  /\ asked' = {} /\ windows' = {}

Boot ==
  /\ pc \in {"off", "rest"}
  /\ boots < MaxBoots
  /\ boots' = boots + 1
  /\ pc' = "start"
  /\ Fresh
  /\ UNCHANGED <<content, directory, saved, named>>

\* A plugin saved as DONE is skipped.
StartUserData ==
  /\ pc = "start"
  /\ pc' = IF saved["userdata"] = "DONE" THEN "between" ELSE "userdata"
  /\ UNCHANGED <<content, directory, saved, execution, named, boots>>

StartLocal ==
  /\ pc = "between"
  /\ pc' = IF saved["local"] = "DONE" THEN "rest" ELSE "local"
  /\ Fresh
  /\ UNCHANGED <<content, directory, saved, named, boots>>

\* The plugin returns: its status is saved and the machine reboots if it asked for it.
Return(next) ==
  /\ saved' = [saved EXCEPT ![Plugin] = status]
  /\ pc' = IF reboot THEN "off" ELSE next
  /\ UNCHANGED <<content, directory, execution, named, boots>>

\* Mutant: the break after a reboot was asked for is missing.
Mut_More == item <= Len(Items)

\* A script or part follows: the loop has neither ended nor met a reboot.
More == item <= Len(Items) /\ ~reboot

ReturnLocal ==
  /\ pc = "local" /\ ~More
  /\ Return("rest")

\* The "__end__" events are sent unless the machine is to reboot.
LeaveParts ==
  /\ pc = "userdata" /\ ~More /\ ~reboot
  /\ pc' = "ending"
  /\ UNCHANGED <<content, directory, saved, execution, named, boots>>

ReturnRebooting ==
  /\ pc = "userdata" /\ reboot
  /\ Return("between")

-----------------------------------------------------------------------------
(* Tasks. *)

IsTask == More /\ Current.kind \in {"script", "ec2", "hostname", "runcmd"}

\* Mutant: the last directive decides about the reboot.
Mut_Combine(kind, code) ==
  CASE kind = "script" -> code
    [] kind = "ec2"    -> total + code
    [] kind = "runcmd" -> IF RebootOf(code) THEN 1003 ELSE 0

\* How an exit code changes what the task has come to: the codes of EC2 sections are
\* added up, a directive that wants a reboot makes the cloud-config return RET_END.
Combine(kind, code) ==
  CASE kind = "script" -> code
    [] kind = "ec2"    -> total + code
    [] kind = "runcmd" -> IF RebootOf(code) THEN 1003 ELSE total

\* A script runs (or fails to: then it counts as 0).
RunPiece ==
  /\ InLoop /\ IsTask /\ piece <= Current.pieces
  /\ Current.kind # "hostname"
  /\ \E code \in Codes :
       /\ total' = Combine(Current.kind, code)
       /\ asked' = asked \cup Asks(code)
  /\ piece' = piece + 1
  /\ UNCHANGED <<pc, content, directory, saved, item, status, reboot, handlers, begun, given,
                 ended, named, windows, boots>>

\* The set_hostname directive wants a reboot when it changed the name; runcmd follows.
RunHostname ==
  /\ InLoop /\ IsTask /\ piece <= Current.pieces
  /\ Current.kind = "hostname"
  /\ \E code \in IF piece = 1 THEN {IF named THEN 0 ELSE 1001} ELSE Codes :
       /\ total' = Combine("runcmd", code)
       /\ asked' = asked \cup Asks(code)
  /\ named' = TRUE
  /\ piece' = piece + 1
  /\ UNCHANGED <<pc, content, directory, saved, item, status, reboot, handlers, begun, given,
                 ended, windows, boots>>

\* Where the result of a task is not what its scripts asked for.
Strayed ==
  (IF Current.kind = "ec2" /\ Current.pieces > 1 THEN {"summed"} ELSE {})
    \cup (IF Current.kind \in {"hostname", "runcmd"} THEN {"cloudconfig"} ELSE {})
    \cup (IF pc = "userdata" /\ status = "NEXT_BOOT" /\ StatusOf(total) = "DONE"
            THEN {"overwritten"} ELSE {})

NextItem ==
  /\ item' = item + 1
  /\ piece' = 1
  /\ total' = 0

\* A part of the message has been processed: its result replaces that of the earlier ones.
PartOver ==
  /\ pc = "userdata" /\ IsTask /\ piece > Current.pieces
  /\ status' = StatusOf(total)
  /\ reboot' = RebootOf(total)
  /\ windows' = windows \cup Strayed
  /\ NextItem
  /\ UNCHANGED <<pc, content, directory, saved, handlers, begun, given, ended, named, asked, boots>>

\* Mutant: the status of the last script replaces that of the earlier ones.
Mut_ScriptOver ==
  /\ pc = "local" /\ IsTask /\ piece > Current.pieces
  /\ status' = StatusOf(total)
  /\ reboot' = (reboot \/ RebootOf(total))
  /\ windows' = windows \cup Strayed
  /\ NextItem
  /\ UNCHANGED <<pc, content, directory, saved, handlers, begun, given, ended, named, asked, boots>>

\* A local script has ended: plugin_status is the maximum, reboot the disjunction.
ScriptOver ==
  /\ pc = "local" /\ IsTask /\ piece > Current.pieces
  /\ status' = IF StatusOf(total) = "NEXT_BOOT" THEN "NEXT_BOOT" ELSE status
  /\ reboot' = (reboot \/ RebootOf(total))
  /\ windows' = windows \cup Strayed
  /\ NextItem
  /\ UNCHANGED <<pc, content, directory, saved, handlers, begun, given, ended, named, asked, boots>>

-----------------------------------------------------------------------------
(* Part handlers. *)

\* Any part that is not a task comes to the result of no return value at all.
NoResult ==
  /\ status' = "DONE"
  /\ reboot' = FALSE
  /\ windows' = windows \cup (IF status = "NEXT_BOOT" THEN {"overwritten"} ELSE {})
  /\ NextItem

\* Mutant: a type that is already registered keeps its handler.
Mut_RegisterHandler ==
  /\ pc = "userdata" /\ More /\ Current.kind = "handler" /\ Current.types # {}
  /\ handlers' = [t \in Types |-> IF t \in Current.types /\ handlers[t] = NoHandler THEN item
                                                                                  ELSE handlers[t]]
  /\ pc' = "begin"
  /\ UNCHANGED <<content, directory, saved, item, piece, total, status, reboot, begun, given,
                 ended, named, asked, windows, boots>>

\* _add_part_handlers registers the handler for the types it lists, whoever had them.
RegisterHandler ==
  /\ pc = "userdata" /\ More /\ Current.kind = "handler" /\ Current.types # {}
  /\ handlers' = [t \in Types |-> IF t \in Current.types THEN item ELSE handlers[t]]
  /\ pc' = "begin"
  /\ UNCHANGED <<content, directory, saved, item, piece, total, status, reboot, begun, given,
                 ended, named, asked, windows, boots>>

\* Then it sends "__begin__" to the handler: an exception is logged and leaves it registered.
BeginHandler ==
  /\ pc = "begin"
  /\ begun' = begun \cup {item}
  /\ NoResult
  /\ pc' = "userdata"
  /\ UNCHANGED <<content, directory, saved, handlers, given, ended, named, asked, boots>>

\* A handler that lists no type but those of the user data plugins is not begun.
SkipHandler ==
  /\ pc = "userdata" /\ More /\ Current.kind = "handler" /\ Current.types = {}
  /\ NoResult
  /\ UNCHANGED <<pc, content, directory, saved, handlers, begun, given, ended, named, asked, boots>>

\* A module without list_types or handle_part, or one that does not load: logged.
HandlerUnusable ==
  /\ pc = "userdata" /\ More /\ Current.kind = "handler"
  /\ "handler" \in Faults
  /\ NoResult
  /\ UNCHANGED <<pc, content, directory, saved, handlers, begun, given, ended, named, asked, boots>>

\* A part of a registered type goes to its handler, whose exception is logged; other parts
\* are left alone.
CallHandler ==
  /\ pc = "userdata" /\ More /\ Current.kind \in {"custom", "ignored"}
  /\ given' = given \cup {<<item, handlers[t]>> : t \in {u \in Types : /\ Current.kind = "custom"
                                                                   /\ u = Current.type
                                                                   /\ handlers[u] # NoHandler}}
  /\ NoResult
  /\ UNCHANGED <<pc, content, directory, saved, handlers, begun, ended, named, asked, boots>>

Registered == {handlers[t] : t \in Types} \ {NoHandler}

\* Mutant: every handler is ended.
Mut_EndHandler(h) ==
  /\ pc = "ending" /\ h \in begun \ ended
  /\ ended' = ended \cup {h}
  /\ UNCHANGED <<pc, content, directory, saved, item, piece, total, status, reboot, handlers,
                 begun, given, asked, windows, named, boots>>

\* The "__end__" event, once for each handler that still manages a type.
EndHandler(h) ==
  /\ pc = "ending" /\ h \in Registered \ ended
  /\ ended' = ended \cup {h}
  /\ UNCHANGED <<pc, content, directory, saved, item, piece, total, status, reboot, handlers,
                 begun, given, asked, windows, named, boots>>

\* An exception of "__end__" leaves the plugin: it has failed and its status is not saved.
EndFails ==
  /\ pc = "ending" /\ "handler" \in Faults
  /\ Registered \ ended # {}
  /\ pc' = "between"
  /\ UNCHANGED <<content, directory, saved, execution, named, boots>>

ReturnUserData ==
  /\ pc = "ending" /\ Registered \subseteq ended
  /\ Return("between")

Rest ==
  /\ pc \in {"off", "rest"}
  /\ boots = MaxBoots
  /\ UNCHANGED vars

-----------------------------------------------------------------------------

Next ==
  \/ Boot
  \/ StartUserData
  \/ StartLocal
  \/ ReturnLocal
  \/ LeaveParts
  \/ ReturnRebooting
  \/ RunPiece
  \/ RunHostname
  \/ PartOver
  \/ ScriptOver
  \/ RegisterHandler
  \/ BeginHandler
  \/ SkipHandler
  \/ HandlerUnusable
  \/ CallHandler
  \/ \E h \in 1 .. Len(content.items) : EndHandler(h)
  \/ EndFails
  \/ ReturnUserData
  \/ Rest

Spec == Init /\ [][Next]_vars

-----------------------------------------------------------------------------
(* Properties. *)

Statuses == {"DONE", "NEXT_BOOT"}

\* Type invariant of the two plugins.
TypeOK ==
  /\ pc \in {"off", "start", "userdata", "begin", "ending", "between", "local", "rest"}
  /\ content \in Contents
  /\ directory \in Directories
  /\ saved \in [{"userdata", "local"} -> Statuses \cup {"none"}]
  /\ Running => item \in 1 .. Len(Items) + 1
  /\ piece \in 1 .. 3
  /\ total \in Nat
  /\ status \in Statuses
  /\ reboot \in BOOLEAN
  /\ handlers \in [Types -> 0 .. Len(content.items)]
  /\ begun \subseteq 1 .. Len(content.items)
  /\ given \subseteq (1 .. Len(content.items)) \X (1 .. Len(content.items))
  /\ ended \subseteq 1 .. Len(content.items)
  /\ named \in BOOLEAN
  /\ asked \subseteq {"reboot", "rerun"}
  /\ windows \subseteq {"summed", "cloudconfig", "overwritten"}
  /\ boots \in 0 .. MaxBoots

Returning == Running /\ pc' \in {"off", "between", "rest"}

\* The machine reboots after a plugin exactly when one of its scripts, in whatever part or
\* directive, returned a code that asks for it. Only EC2 sections escape it: their codes
\* are added up.
RebootAsAsked ==
  [][Returning => \/ (pc' = "off") <=> ("reboot" \in asked)
                  \/ "summed" \in windows]_vars

\* A plugin runs again at the next boot exactly when one of its scripts asked for it. The
\* ways around it: added codes, a cloud-config (any reboot of it asks for another
\* execution), and a part whose request is overwritten by a later part.
RerunAsAsked ==
  [][Returning /\ (pc = "ending" => Registered \subseteq ended) =>
       \/ (saved'[Plugin] = "NEXT_BOOT") <=> ("rerun" \in asked)
       \/ windows # {}]_vars

\* What the processing of scripts and parts leaves behind.
Progress == <<item, piece, handlers, begun, given, ended>>

\* Once a script or part has ended with a request for a reboot nothing more is processed: no
\* script is run, no handler is registered, begun or ended, and no part is given to one.
\* Only the request of EC2 sections whose codes are added up may be missed.
NothingAfterRebootRequest ==
  [][Running /\ Running' /\ piece = 1 /\ Progress' # Progress =>
       "reboot" \notin asked \/ "summed" \in windows]_vars

\* Handler h manages the parts of type t at position i: of the handlers that were begun
\* before i and list t, it is the last.
Manages(h, t, i) ==
  /\ h \in begun /\ h < i /\ t \in content.items[h].types
  /\ \A k \in begun : k < i /\ t \in content.items[k].types => k <= h

\* Every part of the message goes to the handler that listed its type last, to that one only
\* and after its "__begin__", and to none when no handler did; a handler that cannot be
\* loaded takes over nothing.
GivenToManager ==
  pc \in {"userdata", "begin", "ending"} =>
    \A i \in 1 .. item - 1 : content.items[i].kind = "custom" =>
      {g[2] : g \in {x \in given : x[1] = i}} = {h \in begun : Manages(h, content.items[i].type, i)}

Managing == {h \in begun : \E t \in Types : Manages(h, t, item)}

\* A handler that was begun gets its "__end__" before UserData returns, unless a later one
\* has taken over every type it lists: such a handler is never ended.
EndedUnlessReplaced ==
  [][pc = "ending" /\ pc' # "ending" =>
       /\ ended \subseteq Managing
       /\ saved' # saved => ended = Managing]_vars

\* tutorial.rst says that 1001 means "reboot and don't run the plugin again on next boot",
\* and userdata.rst that the exit codes of runcmd follow it.
NotRunAgain ==
  [][Returning /\ asked = {"reboot"} => saved'[Plugin] = "DONE"]_vars

=============================================================================
