-------------------------- MODULE UserScriptsProofs --------------------------
(***************************************************************************)
(* Proofs about UserScripts: its state is well typed, parts go to the       *)
(* handlers that manage their types and these are ended, and reboots and    *)
(* further executions happen as the exit codes ask, but for the named ways  *)
(* around it, for any user data, scripts and exit codes.                    *)
(***************************************************************************)
EXTENDS UserScripts, TLAPS

Part == Task \cup Handler \cup Custom \cup Ignored

LEMMA ItemsAreParts ==
  ASSUME content \in Contents, directory \in Directories
  PROVE  /\ content.items \in Seq(Part)
         /\ directory \in Seq(Part)
         /\ Items \in Seq(Part)
         /\ Len(content.items) \in Nat
         /\ Len(Items) \in Nat
<1>1. content.items \in Seq(Part)
  BY ScriptsAssumption DEF Part
<1>2. directory \in Seq(Part)
  <2>1. directory \in Seq(Task)
    BY ScriptsAssumption
  <2>2. Task \subseteq Part
    BY DEF Part
  <2>3. QED
    BY <2>1, <2>2
<1>3. QED
  BY <1>1, <1>2 DEF Items

\* A task has one piece or two, and a script has one.
LEMMA CurrentTask ==
  ASSUME TypeOK, Running, IsTask
  PROVE  /\ Current \in Task
         /\ item \in 1 .. Len(Items)
<1>1. item \in 1 .. Len(Items)
  BY ItemsAreParts DEF TypeOK, IsTask, More
<1>2. Current \in Part
  BY <1>1, ItemsAreParts DEF TypeOK, Current
<1>3. QED
  BY <1>1, <1>2 DEF Part, Task, Handler, Custom, Ignored, IsTask

\* A code is taken to ask for what the documentation says it asks for: 1001 to 1003 read
\* bit by bit are the three documented codes.
LEMMA CodesAsDocumented ==
  ASSUME NEW c \in Nat
  PROVE  /\ RebootOf(c) <=> "reboot" \in Asks(c)
         /\ StatusOf(c) = "NEXT_BOOT" <=> "rerun" \in Asks(c)
         /\ StatusOf(c) \in Statuses
         /\ Asks(c) \subseteq {"reboot", "rerun"}
<1>1. CASE c = 1001
  BY <1>1 DEF RebootOf, StatusOf, Asks, Statuses
<1>2. CASE c = 1002
  BY <1>2 DEF RebootOf, StatusOf, Asks, Statuses
<1>3. CASE c = 1003
  BY <1>3 DEF RebootOf, StatusOf, Asks, Statuses
<1>4. CASE c \notin 1001 .. 1003
  BY <1>4 DEF RebootOf, StatusOf, Asks, Statuses
<1>5. c \in 1001 .. 1003 => c = 1001 \/ c = 1002 \/ c = 1003
  OBVIOUS
<1>6. QED
  BY <1>1, <1>2, <1>3, <1>4, <1>5

\* What a runcmd adds to: nothing so far, or the fixed answer of a cloud-config.
LEMMA NoCode == ~RebootOf(0) /\ RebootOf(1003)
BY DEF RebootOf

-----------------------------------------------------------------------------
(* Types. *)

\* The first plugin of a boot finds its locals fresh.
FreshInv ==
  pc = "start" =>
    /\ item = 1 /\ piece = 1 /\ total = 0
    /\ status = "DONE" /\ reboot = FALSE
    /\ handlers = [t \in Types |-> NoHandler]
    /\ begun = {} /\ given = {} /\ ended = {}
    /\ asked = {} /\ windows = {}

\* A handler is begun at the position where it was registered.
BeginInv ==
  pc = "begin" => More /\ Current.kind = "handler" /\ Current.types # {}

TypeInv == TypeOK /\ FreshInv /\ BeginInv

LEMMA InitTypeInv == Init => TypeInv
<1> SUFFICES ASSUME Init PROVE TypeInv
  OBVIOUS
<1>1. content \in Contents /\ directory \in Directories
  BY DEF Init
<1>2. handlers \in [Types -> 0 .. Len(content.items)]
  BY <1>1, ItemsAreParts DEF Init, NoHandler
<1>3. saved \in [{"userdata", "local"} -> Statuses \cup {"none"}]
  BY DEF Init
<1>4. ~Running /\ pc = "off" /\ boots \in 0 .. MaxBoots
  BY ScriptsAssumption DEF Init, Running
<1>5. /\ piece \in 1 .. 3 /\ total \in Nat /\ status \in Statuses
      /\ begun = {} /\ given = {} /\ ended = {} /\ asked = {} /\ windows = {}
  BY DEF Init, Statuses
<1>6. reboot \in BOOLEAN /\ named \in BOOLEAN
  BY DEF Init
<1>7. QED
  BY <1>1, <1>2, <1>3, <1>4, <1>5, <1>6 DEF TypeInv, TypeOK, FreshInv, BeginInv

\* Between the scripts: boots, and plugins that begin, move on or return.
LEMMA PluginTypeInv ==
  ASSUME TypeInv,
         \/ Boot \/ StartUserData \/ StartLocal \/ ReturnLocal \/ LeaveParts
         \/ ReturnRebooting \/ EndFails \/ ReturnUserData \/ Rest
  PROVE  TypeInv'
<1> USE DEF TypeInv, TypeOK, FreshInv, BeginInv
<1>0. Len(content.items) \in Nat /\ Len(directory) \in Nat
  BY ItemsAreParts
<1>1. ASSUME Fresh, UNCHANGED content
      PROVE  /\ item' = 1 /\ piece' = 1 /\ total' = 0
             /\ status' = "DONE" /\ reboot' = FALSE
             /\ handlers' \in [Types -> 0 .. Len(content.items)]
             /\ begun' = {} /\ given' = {} /\ ended' = {}
             /\ asked' = {} /\ windows' = {}
  BY <1>0, <1>1 DEF Fresh, NoHandler
<1>2. CASE Boot
  <2>1. pc' = "start" /\ ~Running' /\ boots' \in 0 .. MaxBoots
    BY <1>2, ScriptsAssumption DEF Boot, Running
  <2>2. Fresh /\ UNCHANGED <<content, directory, saved, named>>
    BY <1>2 DEF Boot
  <2>3. TypeOK'
    BY <1>1, <2>1, <2>2 DEF Statuses
  <2>4. FreshInv'
    BY <2>2 DEF Fresh
  <2>5. QED
    BY <2>1, <2>3, <2>4
<1>3. CASE StartUserData
  <2>1. pc' \in {"between", "userdata"} /\ item = 1
    BY <1>3 DEF StartUserData
  <2>2. (Running => item \in 1 .. Len(Items) + 1)'
    BY <1>0, <1>3, <2>1 DEF StartUserData, execution, Running, Items
  <2>3. QED
    BY <1>3, <2>1, <2>2 DEF StartUserData, execution
<1>4. CASE StartLocal
  <2>1. pc' \in {"rest", "local"} /\ Fresh /\ UNCHANGED <<content, directory, saved, named, boots>>
    BY <1>4 DEF StartLocal
  <2>2. (Running => item \in 1 .. Len(Items) + 1)'
    BY <1>0, <1>1, <2>1 DEF Running, Items
  <2>3. QED
    BY <1>1, <2>1, <2>2 DEF Statuses
<1>5. ASSUME NEW next \in {"between", "rest"}, Return(next)
      PROVE  TypeInv'
  <2>1. /\ pc' \in {"off", "between", "rest"}
        /\ UNCHANGED <<content, directory, execution, named, boots>>
    BY <1>5 DEF Return
  <2>2. saved' \in [{"userdata", "local"} -> Statuses \cup {"none"}]
    BY <1>5 DEF Return
  <2>3. QED
    BY <2>1, <2>2 DEF execution, Running
<1>6. CASE ReturnLocal
  BY <1>5, <1>6 DEF ReturnLocal
<1>7. CASE LeaveParts
  BY <1>7 DEF LeaveParts, execution, Running, Items
<1>8. CASE ReturnRebooting
  BY <1>5, <1>8 DEF ReturnRebooting
<1>9. CASE EndFails
  BY <1>9 DEF EndFails, execution, Running
<1>10. CASE ReturnUserData
  BY <1>5, <1>10 DEF ReturnUserData
<1>11. CASE Rest
  BY <1>11 DEF Rest, vars, execution, Running, Items, More, Current
<1>12. QED
  BY <1>2, <1>3, <1>4, <1>6, <1>7, <1>8, <1>9, <1>10, <1>11

\* The code of a script, added to what its task has come to, is a number.
LEMMA CombineType ==
  ASSUME TypeInv, NEW code \in Nat, NEW kind \in {"script", "ec2", "runcmd"}
  PROVE  Combine(kind, code) \in Nat
<1>1. total \in Nat
  BY DEF TypeInv, TypeOK
<1>2. CASE kind = "script"
  BY <1>2 DEF Combine
<1>3. CASE kind = "ec2"
  BY <1>1, <1>3 DEF Combine
<1>4. CASE kind = "runcmd"
  BY <1>1, <1>4 DEF Combine
<1>5. QED
  BY <1>2, <1>3, <1>4

\* A piece of a task is run.
LEMMA PieceTypeInv ==
  ASSUME TypeInv, RunPiece \/ RunHostname
  PROVE  TypeInv'
<1>1. Running /\ IsTask /\ piece <= Current.pieces /\ piece' = piece + 1
  BY DEF RunPiece, RunHostname, InLoop, Running
<1>2. Current \in Task
  BY <1>1, CurrentTask DEF TypeInv
<1>3. piece' \in 1 .. 3
  BY <1>1, <1>2 DEF Task, TypeInv, TypeOK
<1>4. /\ UNCHANGED <<pc, content, directory, saved, item, status, reboot, handlers, begun, given,
                     ended, windows, boots>>
      /\ named' \in BOOLEAN
  BY DEF RunPiece, RunHostname, TypeInv, TypeOK
<1>5. total' \in Nat /\ asked' \subseteq {"reboot", "rerun"}
  <2>1. CASE RunPiece
    <3>1. PICK code \in Codes : total' = Combine(Current.kind, code) /\ asked' = asked \cup Asks(code)
      BY <2>1 DEF RunPiece
    <3>2. code \in Nat
      BY ScriptsAssumption
    <3>3. Current.kind \in {"script", "ec2", "runcmd"}
      BY <1>2, <2>1 DEF RunPiece, Task
    <3>4. QED
      BY <3>1, <3>2, <3>3, CombineType, CodesAsDocumented DEF TypeInv, TypeOK
  <2>2. CASE RunHostname
    <3>1. PICK code \in Codes \cup {0, 1001} :
            total' = Combine("runcmd", code) /\ asked' = asked \cup Asks(code)
      BY <2>2 DEF RunHostname
    <3>2. code \in Nat
      BY ScriptsAssumption
    <3>3. QED
      BY <3>1, <3>2, CombineType, CodesAsDocumented, ZenonT(60) DEF TypeInv, TypeOK
  <2>3. QED
    BY <2>1, <2>2
<1>6. Running' => Running /\ Items' = Items
  BY <1>4 DEF Running, Items
<1>7. pc # "begin"
  BY DEF RunPiece, RunHostname, InLoop
<1>8. QED
  BY <1>1, <1>3, <1>4, <1>5, <1>6, <1>7 DEF TypeInv, TypeOK, FreshInv, BeginInv, Running

\* A script or part is done with.
ItemOver ==
  PartOver \/ ScriptOver \/ BeginHandler \/ SkipHandler \/ HandlerUnusable \/ CallHandler

\* At every end of an item there was an item.
LEMMA ItemThere ==
  ASSUME TypeInv, ItemOver
  PROVE  /\ More /\ ~reboot
         /\ item \in 1 .. Len(Items) /\ Len(Items) \in Nat /\ Items' = Items
         /\ pc \in {"userdata", "begin", "local"} /\ pc' \in {"userdata", "local"}
         /\ pc = "local" <=> pc' = "local"
         /\ item' = item + 1 /\ piece' = 1 /\ total' = 0
         /\ UNCHANGED <<content, directory, saved, handlers, ended, named, asked, boots>>
<1>1. More /\ ~reboot
  BY DEF ItemOver, PartOver, ScriptOver, BeginHandler, SkipHandler, HandlerUnusable, CallHandler, IsTask,
         More, TypeInv, BeginInv
<1>2. /\ pc \in {"userdata", "begin", "local"} /\ pc' \in {"userdata", "local"}
      /\ pc = "local" <=> pc' = "local"
  BY DEF ItemOver, PartOver, ScriptOver, BeginHandler, SkipHandler, HandlerUnusable, CallHandler
<1>3. item' = item + 1 /\ piece' = 1 /\ total' = 0
  BY DEF ItemOver, PartOver, ScriptOver, BeginHandler, SkipHandler, HandlerUnusable, CallHandler,
         NoResult, NextItem
<1>4. UNCHANGED <<content, directory, saved, handlers, ended, named, asked, boots>>
  BY DEF ItemOver, PartOver, ScriptOver, BeginHandler, SkipHandler, HandlerUnusable, CallHandler
<1>5. item \in 1 .. Len(Items) /\ Len(Items) \in Nat
  BY <1>1, <1>2, ItemsAreParts DEF TypeInv, TypeOK, More, Running
<1>6. Items' = Items
  BY <1>2, <1>4 DEF Items
<1>7. QED
  BY <1>1, <1>2, <1>3, <1>4, <1>5, <1>6

LEMMA ItemTypeInv ==
  ASSUME TypeInv, ItemOver
  PROVE  TypeInv'
<1>1. status' \in Statuses
  BY CodesAsDocumented
  DEF ItemOver, PartOver, ScriptOver, BeginHandler, SkipHandler, HandlerUnusable, CallHandler, NoResult,
      TypeInv, TypeOK, Statuses
<1>2. reboot' \in BOOLEAN
  BY ZenonT(60)
  DEF ItemOver, PartOver, ScriptOver, BeginHandler, SkipHandler, HandlerUnusable, CallHandler, NoResult,
      RebootOf
<1>3. windows' \subseteq {"summed", "cloudconfig", "overwritten"}
  BY DEF ItemOver, PartOver, ScriptOver, BeginHandler, SkipHandler, HandlerUnusable, CallHandler,
         NoResult, Strayed, TypeInv, TypeOK
<1>4. /\ begun' \subseteq 1 .. Len(content.items)
      /\ given' \subseteq (1 .. Len(content.items)) \X (1 .. Len(content.items))
  <2>1. CASE BeginHandler
    BY <2>1, ItemThere DEF BeginHandler, Items, TypeInv, TypeOK
  <2>2. CASE CallHandler
    <3>1. item \in 1 .. Len(content.items)
      BY <2>2, ItemThere DEF CallHandler, Items
    <3>2. ASSUME NEW t \in Types, handlers[t] # NoHandler
          PROVE  handlers[t] \in 1 .. Len(content.items)
      BY <3>1, <3>2 DEF TypeInv, TypeOK, NoHandler
    <3>3. QED
      BY <2>2, <3>1, <3>2 DEF CallHandler, TypeInv, TypeOK
  <2>3. CASE PartOver \/ ScriptOver \/ SkipHandler \/ HandlerUnusable
    BY <2>3 DEF PartOver, ScriptOver, SkipHandler, HandlerUnusable, TypeInv, TypeOK
  <2>4. QED
    BY <2>1, <2>2, <2>3 DEF ItemOver
<1>5. (Running => item \in 1 .. Len(Items) + 1)'
  BY ItemThere
<1>6. /\ pc' \in {"userdata", "local"} /\ piece' = 1 /\ total' = 0
      /\ UNCHANGED <<content, directory, saved, handlers, ended, named, asked, boots>>
  BY ItemThere
<1>7. TypeOK'
  BY <1>1, <1>2, <1>3, <1>4, <1>5, <1>6 DEF TypeInv, TypeOK
<1>8. QED
  BY <1>6, <1>7 DEF TypeInv, FreshInv, BeginInv

\* A handler is registered and not yet begun.
LEMMA RegisterTypeInv ==
  ASSUME TypeInv, RegisterHandler
  PROVE  TypeInv'
<1>1. item \in 1 .. Len(content.items) /\ Items' = Items /\ Items = content.items
  BY ItemsAreParts DEF RegisterHandler, More, Items, Running, TypeInv, TypeOK
<1>2. handlers' \in [Types -> 0 .. Len(content.items)]
  BY <1>1 DEF RegisterHandler, TypeInv, TypeOK
<1>3. TypeOK'
  BY <1>1, <1>2 DEF RegisterHandler, Running, TypeInv, TypeOK
<1>4. QED
  BY <1>1, <1>3 DEF RegisterHandler, More, Current, TypeInv, FreshInv, BeginInv

LEMMA EndTypeInv ==
  ASSUME TypeInv, NEW h \in 1 .. Len(content.items), EndHandler(h)
  PROVE  TypeInv'
BY DEF EndHandler, TypeInv, TypeOK, FreshInv, BeginInv, Running, Items

LEMMA StepTypeInv == TypeInv /\ [Next]_vars => TypeInv'
<1> SUFFICES ASSUME TypeInv, [Next]_vars PROVE TypeInv'
  OBVIOUS
<1>1. CASE UNCHANGED vars
  BY <1>1 DEF vars, execution, TypeInv, TypeOK, FreshInv, BeginInv, Running, Items, More, Current
<1>2. CASE Next
  BY <1>2, PluginTypeInv, PieceTypeInv, ItemTypeInv, RegisterTypeInv, EndTypeInv DEF Next, ItemOver
<1>3. QED
  BY <1>1, <1>2

\* The state of the two plugins is well typed: the position stays within the parts or
\* scripts, handlers are positions of parts, the total of a task is a number.
THEOREM TypeCorrect == Spec => []TypeOK
<1>1. TypeInv => TypeOK
  BY DEF TypeInv
<1>2. QED
  BY InitTypeInv, StepTypeInv, <1>1, PTL DEF Spec

-----------------------------------------------------------------------------
(* Part handlers. *)

InMessage == pc \in {"userdata", "begin", "ending"}

\* The handlers that were registered: one of them may still have to be begun.
Loaded == IF pc = "begin" THEN begun \cup {item} ELSE begun

\* Of the handlers that list a type the last one.
Newest(h, t) ==
  /\ h \in Loaded /\ t \in content.items[h].types
  /\ \A k \in Loaded : t \in content.items[k].types => k <= h

\* The dictionary of types has the newest handler of each type, and the parts and handlers
\* behind the position are those that were given and begun.
HandlersInv ==
  InMessage =>
    /\ begun \subseteq 1 .. item - 1
    /\ \A t \in Types :
         /\ handlers[t] = NoHandler => \A k \in Loaded : t \notin content.items[k].types
         /\ handlers[t] # NoHandler => Newest(handlers[t], t)
    /\ \A g \in given : g[1] < item
    /\ ended \subseteq Registered
    /\ pc # "ending" => ended = {}

\* At the position itself, the handler of the dictionary is the one that manages a type.
LEMMA DictionaryManages ==
  ASSUME TypeInv, HandlersInv, InMessage, pc # "begin", NEW t \in Types
  PROVE  {h \in begun : Manages(h, t, item)} = {handlers[t]} \ {NoHandler}
<1>1. item \in Nat /\ begun \subseteq 1 .. item - 1 /\ Loaded = begun
  BY ItemsAreParts DEF TypeInv, TypeOK, InMessage, Running, HandlersInv, Loaded
<1>2. \A k \in begun : k \in Nat /\ k < item /\ k # NoHandler
  BY <1>1 DEF NoHandler
<1>3. CASE handlers[t] = NoHandler
  BY <1>1, <1>2, <1>3 DEF HandlersInv, Manages
<1>4. CASE handlers[t] # NoHandler
  <2>1. Newest(handlers[t], t)
    BY <1>4 DEF HandlersInv
  <2>2. Manages(handlers[t], t, item) /\ handlers[t] \in begun
    BY <1>1, <1>2, <2>1 DEF Newest, Manages
  <2>3. ASSUME NEW h \in begun, Manages(h, t, item) PROVE h = handlers[t]
    <3>1. h \in Nat /\ handlers[t] \in Nat /\ h < item /\ handlers[t] < item
      BY <1>2, <2>2
    <3>2. h <= handlers[t]
      BY <1>1, <2>1, <2>3 DEF Newest, Manages
    <3>3. handlers[t] <= h
      BY <2>1, <2>2, <2>3, <3>1 DEF Newest, Manages
    <3>4. QED
      BY <3>1, <3>2, <3>3
  <2>4. QED
    BY <1>4, <2>2, <2>3
<1>5. QED
  BY <1>3, <1>4

\* Which handler manages a part behind the position does not change.
LEMMA ManagedBefore ==
  ASSUME NEW i \in Nat, NEW t, i <= item, item \in Nat, begun \subseteq Nat,
         begun' = begun \/ begun' = begun \cup {item}, UNCHANGED content
  PROVE  {h \in begun' : Manages(h, t, i)'} = {h \in begun : Manages(h, t, i)}
<1>1. \A h : h \in begun' /\ h < i <=> h \in begun /\ h < i
  OBVIOUS
<1>2. \A h : h \in begun' /\ Manages(h, t, i)' <=> h \in begun /\ Manages(h, t, i)
  BY <1>1 DEF Manages
<1>3. QED
  BY <1>2

MessageInv == HandlersInv /\ GivenToManager

\* Steps that go on with the message and leave handlers and position alone.
LEMMA QuietMessageInv ==
  ASSUME MessageInv, UNCHANGED <<content, item, handlers, begun, given, ended>>,
         pc' = pc \/ (pc = "userdata" /\ pc' = "ending")
  PROVE  MessageInv'
<1> USE DEF MessageInv, HandlersInv, InMessage, Loaded, Newest, Registered, GivenToManager, Manages
<1>1. CASE pc' = pc
  BY <1>1
<1>2. CASE pc = "userdata" /\ pc' = "ending"
  BY <1>2
<1>3. QED
  BY <1>1, <1>2

\* The message is left, or not yet begun.
LEMMA OutsideMessageInv ==
  ASSUME ~InMessage'
  PROVE  MessageInv'
BY DEF MessageInv, HandlersInv, GivenToManager, InMessage

LEMMA FirstMessageInv ==
  ASSUME TypeInv, StartUserData
  PROVE  MessageInv'
<1>1. /\ item' = 1 /\ handlers' = [t \in Types |-> NoHandler]
      /\ begun' = {} /\ given' = {} /\ ended' = {}
      /\ pc' \in {"between", "userdata"}
  BY DEF StartUserData, TypeInv, FreshInv, execution
<1>2. HandlersInv'
  BY <1>1 DEF HandlersInv, Loaded
<1>3. GivenToManager'
  BY <1>1 DEF GivenToManager
<1>4. QED
  BY <1>2, <1>3 DEF MessageInv

LEMMA RegisterMessageInv ==
  ASSUME TypeInv, MessageInv, RegisterHandler
  PROVE  MessageInv'
<1>1. /\ pc = "userdata" /\ pc' = "begin" /\ Current = content.items[item]
      /\ handlers' = [t \in Types |-> IF t \in Current.types THEN item ELSE handlers[t]]
      /\ UNCHANGED <<content, item, begun, given, ended>>
  BY DEF RegisterHandler, Current, Items
<1>2. item \in 1 .. Len(content.items) + 1 /\ Len(content.items) \in Nat
  BY <1>1, ItemsAreParts DEF TypeInv, TypeOK, Running, Items
<1>3. /\ begun \subseteq 1 .. item - 1 /\ ended = {} /\ \A g \in given : g[1] < item
      /\ Loaded = begun /\ Loaded' = begun \cup {item}
  BY <1>1 DEF MessageInv, HandlersInv, InMessage, Loaded
<1>4. ASSUME NEW t \in Types
      PROVE  /\ handlers'[t] = NoHandler => \A k \in Loaded' : t \notin content.items[k].types
             /\ handlers'[t] # NoHandler => Newest(handlers[t], t)'
  <2>1. CASE t \in Current.types
    <3>1. handlers'[t] = item /\ item # NoHandler
      BY <1>1, <1>2, <2>1 DEF NoHandler
    <3>2. \A k \in Loaded' : k <= item
      BY <1>2, <1>3
    <3>3. QED
      BY <1>1, <1>3, <2>1, <3>1, <3>2 DEF Newest
  <2>2. CASE t \notin Current.types
    <3>1. handlers'[t] = handlers[t]
      BY <1>1, <2>2
    <3>2. QED
      BY <1>1, <1>3, <2>2, <3>1 DEF MessageInv, HandlersInv, InMessage, Newest
  <2>3. QED
    BY <2>1, <2>2
<1>5. HandlersInv'
  BY <1>1, <1>3, <1>4 DEF HandlersInv
<1>6. GivenToManager'
  BY <1>1 DEF MessageInv, GivenToManager, Manages
<1>7. QED
  BY <1>5, <1>6 DEF MessageInv

\* An item of the message is done with: the parts before it stay with their handlers, the
\* item itself is given to the handler of the dictionary if it is a part for one.
LEMMA ItemMessageInv ==
  ASSUME TypeInv, MessageInv, ItemOver, pc # "local"
  PROVE  MessageInv'
<1>1. /\ pc \in {"userdata", "begin"} /\ pc' = "userdata" /\ item' = item + 1
      /\ item \in 1 .. Len(content.items) /\ Len(content.items) \in Nat
      /\ Current = content.items[item]
      /\ UNCHANGED <<content, handlers, ended>>
  BY ItemThere DEF Items, Current
<1>2. /\ begun \subseteq 1 .. item - 1 /\ ended = {} /\ \A g \in given : g[1] < item
      /\ given \subseteq (1 .. Len(content.items)) \X (1 .. Len(content.items))
  BY <1>1 DEF MessageInv, HandlersInv, InMessage, TypeInv, TypeOK
<1>3. /\ begun' = Loaded /\ Loaded' = begun'
      /\ begun' = begun \/ begun' = begun \cup {item}
  BY <1>1 DEF ItemOver, PartOver, ScriptOver, BeginHandler, SkipHandler, HandlerUnusable, CallHandler,
              Loaded
<1>4. \/ given' = given /\ Current.kind # "custom"
      \/ CallHandler
  BY DEF ItemOver, PartOver, ScriptOver, IsTask, BeginHandler, SkipHandler, HandlerUnusable, TypeInv,
         BeginInv
<1>5. \A g \in given' : g \in given \/ g[1] = item
  BY <1>4 DEF CallHandler
<1>6. HandlersInv'
  <2>1. begun' \subseteq 1 .. item' - 1
    <3>1. 1 .. item - 1 \subseteq 1 .. item' - 1 /\ item \in 1 .. item' - 1
      BY <1>1
    <3>2. QED
      BY <1>2, <1>3, <3>1
  <2>2. \A g \in given' : g[1] < item'
    BY <1>1, <1>2, <1>5
  <2>3. ASSUME NEW t \in Types
        PROVE  /\ handlers[t] = NoHandler => \A k \in Loaded' : t \notin content.items[k].types
               /\ handlers[t] # NoHandler => Newest(handlers[t], t)'
    BY <1>1, <1>3 DEF MessageInv, HandlersInv, InMessage, Newest
  <2>4. QED
    BY <1>1, <1>2, <2>1, <2>2, <2>3 DEF HandlersInv
<1>7. ASSUME NEW i \in 1 .. item' - 1, content.items[i].kind = "custom"
      PROVE  {g[2] : g \in {x \in given' : x[1] = i}}
               = {h \in begun' : Manages(h, content.items[i].type, i)'}
  <2>1. {h \in begun' : Manages(h, content.items[i].type, i)'}
          = {h \in begun : Manages(h, content.items[i].type, i)}
    BY <1>1, <1>2, <1>3, ManagedBefore
  <2>2. CASE i < item
    <3>1. {x \in given' : x[1] = i} = {x \in given : x[1] = i}
      BY <1>1, <1>4, <1>5, <2>2 DEF CallHandler
    <3>2. QED
      BY <1>1, <1>7, <2>1, <2>2, <3>1 DEF MessageInv, GivenToManager
  <2>3. CASE i = item
    <3>1. CallHandler /\ pc = "userdata" /\ Current.kind = "custom" /\ Current.type \in Types
      <4>1. Current.kind = "custom"
        BY <1>1, <1>7, <2>3
      <4>2. Current \in Part
        BY <1>1, ItemsAreParts DEF TypeInv, TypeOK
      <4>3. QED
        BY <1>4, <4>1, <4>2 DEF Part, Task, Handler, Custom, Ignored, CallHandler
    <3>2. {u \in Types : /\ Current.kind = "custom" /\ u = Current.type /\ handlers[u] # NoHandler}
            = IF handlers[Current.type] = NoHandler THEN {} ELSE {Current.type}
      BY <3>1
    <3>3. given' = given \cup (IF handlers[Current.type] = NoHandler THEN {}
                                 ELSE {<<item, handlers[Current.type]>>})
      BY <3>1, <3>2 DEF CallHandler
    <3>4. {x \in given' : x[1] = item} = IF handlers[Current.type] = NoHandler THEN {}
                                           ELSE {<<item, handlers[Current.type]>>}
      BY <1>1, <1>2, <3>3
    <3>5. {g[2] : g \in {x \in given' : x[1] = item}} = {handlers[Current.type]} \ {NoHandler}
      <4>1. CASE handlers[Current.type] = NoHandler
        BY <3>4, <4>1
      <4>2. CASE handlers[Current.type] # NoHandler
        <5>1. {x \in given' : x[1] = item} = {<<item, handlers[Current.type]>>}
          BY <3>4, <4>2
        <5>2. {g[2] : g \in {<<item, handlers[Current.type]>>}} = {handlers[Current.type]}
          OBVIOUS
        <5>3. QED
          BY <4>2, <5>1, <5>2
      <4>3. QED
        BY <4>1, <4>2
    <3>6. QED
      BY <1>1, <2>1, <2>3, <3>1, <3>5, DictionaryManages DEF MessageInv, InMessage
  <2>4. QED
    BY <1>1, <2>2, <2>3
<1>8. GivenToManager'
  BY <1>1, <1>7 DEF GivenToManager
<1>9. QED
  BY <1>6, <1>8 DEF MessageInv

LEMMA StepMessageInv == TypeInv /\ MessageInv /\ [Next]_vars => MessageInv'
<1> SUFFICES ASSUME TypeInv, MessageInv, [Next]_vars PROVE MessageInv'
  OBVIOUS
<1>1. CASE StartUserData
  BY <1>1, FirstMessageInv
<1>2. CASE Boot \/ StartLocal \/ ReturnLocal \/ ReturnRebooting \/ EndFails \/ ReturnUserData
  BY <1>2, OutsideMessageInv
  DEF Boot, StartLocal, ReturnLocal, ReturnRebooting, EndFails, ReturnUserData, Return, InMessage
<1>3. CASE LeaveParts \/ RunPiece \/ RunHostname \/ Rest \/ UNCHANGED vars
  BY <1>3, QuietMessageInv DEF LeaveParts, RunPiece, RunHostname, Rest, vars, execution
<1>4. CASE RegisterHandler
  BY <1>4, RegisterMessageInv
<1>5. CASE ItemOver /\ pc # "local"
  BY <1>5, ItemMessageInv
<1>6. CASE ItemOver /\ pc = "local"
  BY <1>6, ItemThere, OutsideMessageInv DEF InMessage
<1>7. CASE \E h \in 1 .. Len(content.items) : EndHandler(h)
  <2>1. /\ pc = "ending" /\ UNCHANGED <<pc, content, item, handlers, begun, given>>
        /\ ended \subseteq Registered => ended' \subseteq Registered'
    BY <1>7 DEF EndHandler, Registered
  <2>2. HandlersInv'
    BY <2>1 DEF MessageInv, HandlersInv, InMessage, Loaded, Newest
  <2>3. GivenToManager'
    BY <2>1 DEF MessageInv, GivenToManager, Manages
  <2>4. QED
    BY <2>2, <2>3 DEF MessageInv
<1>8. QED
  BY <1>1, <1>2, <1>3, <1>4, <1>5, <1>6, <1>7 DEF Next, ItemOver

LEMMA InitMessageInv == Init => MessageInv
BY DEF Init, MessageInv, HandlersInv, GivenToManager, InMessage

LEMMA MessageAlways == Spec => [](TypeInv /\ MessageInv)
BY InitTypeInv, StepTypeInv, InitMessageInv, StepMessageInv, PTL DEF Spec

\* Every part goes to the handler that was begun last before it of those that list its type,
\* and to no other, whatever types the handlers list and whichever of them fail.
THEOREM PartsGoToTheirHandlers == Spec => []GivenToManager
<1>1. MessageInv => GivenToManager
  BY DEF MessageInv
<1>2. QED
  BY MessageAlways, <1>1, PTL

\* While the handlers are ended, the dictionary holds those that manage a type.
LEMMA RegisteredManage ==
  ASSUME TypeInv, MessageInv, pc = "ending"
  PROVE  Registered = Managing /\ ended \subseteq Registered
<1>1. \A t \in Types : {h \in begun : Manages(h, t, item)} = {handlers[t]} \ {NoHandler}
  BY DictionaryManages DEF MessageInv, InMessage
<1>2. Managing = UNION {{h \in begun : Manages(h, t, item)} : t \in Types}
  BY DEF Managing
<1>3. Registered = UNION {{handlers[t]} \ {NoHandler} : t \in Types}
  BY DEF Registered
<1>4. Registered = Managing
  BY <1>1, <1>2, <1>3
<1>5. QED
  BY <1>4 DEF MessageInv, HandlersInv, InMessage

\* When UserData returns, exactly the handlers that still manage a type have been ended: one
\* misses its end only when later ones took over all its types.
THEOREM HandlersAreEnded == Spec => EndedUnlessReplaced
<1>1. ASSUME TypeInv, MessageInv, [Next]_vars, pc = "ending", pc' # "ending"
      PROVE  ended \subseteq Managing /\ (saved' # saved => ended = Managing)
  <2>1. ended \subseteq Managing /\ Registered = Managing
    BY <1>1, RegisteredManage
  <2>2. EndFails \/ ReturnUserData
    BY <1>1
    DEF Next, Boot, StartUserData, StartLocal, ReturnLocal, LeaveParts, ReturnRebooting, RunPiece,
        RunHostname, InLoop, PartOver, ScriptOver, RegisterHandler, BeginHandler, SkipHandler,
        HandlerUnusable, CallHandler, EndHandler, Rest, vars
  <2>3. saved' # saved => Registered \subseteq ended
    BY <2>2 DEF EndFails, ReturnUserData
  <2>4. QED
    BY <2>1, <2>3
<1>2. TypeInv /\ MessageInv /\ [Next]_vars =>
        [pc = "ending" /\ pc' # "ending" =>
           /\ ended \subseteq Managing
           /\ saved' # saved => ended = Managing]_vars
  BY <1>1
<1>3. QED
  BY MessageAlways, <1>2, PTL DEF Spec, EndedUnlessReplaced
-----------------------------------------------------------------------------
(* Reboots. *)

\* The codes of this task are added up.
Summing == Current.kind = "ec2" /\ Current.pieces > 1

\* Between two tasks reboot says what the scripts asked for; within one nobody asked before,
\* and the total says what its pieces asked for.
RebootInv ==
  /\ InLoop /\ piece = 1 => total = 0
  /\ InLoop /\ piece = 1 => "summed" \in windows \/ (reboot <=> "reboot" \in asked)
  /\ InLoop /\ piece > 1 => IsTask
  /\ InLoop /\ piece > 1 => \/ "summed" \in windows \/ Summing
                            \/ RebootOf(total) <=> "reboot" \in asked
  /\ pc = "begin" => piece = 1
  /\ pc = "ending" => ~reboot
  /\ pc \in {"begin", "ending"} => "summed" \in windows \/ "reboot" \notin asked

LEMMA InitRebootInv == Init => RebootInv
BY DEF Init, RebootInv, InLoop

\* A piece of a task: none but a cloud-config or EC2 sections has two.
LEMMA PieceOfTask ==
  ASSUME TypeInv, RunPiece \/ RunHostname
  PROVE  /\ InLoop /\ IsTask /\ ~reboot
         /\ piece \in Nat /\ piece >= 1 /\ piece' > 1
         /\ Current \in Task
         /\ Current.kind = "script" => piece = 1
         /\ Current.kind = "ec2" /\ ~Summing => piece = 1
         /\ UNCHANGED <<pc, windows, reboot, status>>
         /\ IsTask' /\ (Summing' <=> Summing) /\ Current' = Current
<1>1. InLoop /\ IsTask /\ piece <= Current.pieces /\ piece' = piece + 1
  BY DEF RunPiece, RunHostname
<1>2. Current \in Task
  BY <1>1, CurrentTask DEF TypeInv, InLoop, Running
<1>3. UNCHANGED <<pc, content, directory, windows, reboot, status, item>>
  BY DEF RunPiece, RunHostname
<1>4. UNCHANGED <<Items, Current>>
  BY <1>3 DEF Items, Current
<1>5. piece \in 1 .. 3
  BY DEF TypeInv, TypeOK
<1>6. Current.kind = "script" => piece = 1
  BY <1>1, <1>2, <1>5 DEF Task
<1>7. Current.kind = "ec2" /\ ~Summing => piece = 1
  BY <1>1, <1>2, <1>5 DEF Task, Summing
<1>8. ~reboot /\ (More' <=> More)
  BY <1>1, <1>3, <1>4 DEF IsTask, More
<1>9. IsTask' /\ (Summing' <=> Summing)
  BY <1>1, <1>4, <1>8 DEF IsTask, Summing
<1>10. QED
  BY <1>1, <1>2, <1>3, <1>4, <1>5, <1>6, <1>7, <1>8, <1>9

LEMMA PieceRebootInv ==
  ASSUME TypeInv, RebootInv, RunPiece \/ RunHostname
  PROVE  RebootInv'
<1>1. /\ InLoop /\ IsTask /\ ~reboot
      /\ piece \in Nat /\ piece >= 1 /\ piece' > 1
      /\ Current \in Task
      /\ Current.kind = "script" => piece = 1
      /\ Current.kind = "ec2" /\ ~Summing => piece = 1
      /\ UNCHANGED <<pc, windows, reboot>>
      /\ IsTask' /\ (Summing' <=> Summing)
  BY PieceOfTask
<1>2. SUFFICES ASSUME "summed" \notin windows, ~Summing
      PROVE RebootOf(total') <=> "reboot" \in asked'
  BY <1>1 DEF RebootInv, InLoop, RebootOf
<1>3. (piece = 1 => total = 0 /\ "reboot" \notin asked)
  BY <1>1, <1>2 DEF RebootInv
<1>4. RebootOf(total) <=> "reboot" \in asked
  BY <1>1, <1>2, <1>3, NoCode DEF RebootInv
<1>5. ASSUME NEW code \in Nat, total' = Combine("runcmd", code), asked' = asked \cup Asks(code)
      PROVE  RebootOf(total') <=> "reboot" \in asked'
  <2>1. CASE RebootOf(code)
    <3>1. total' = 1003
      BY <1>5, <2>1 DEF Combine
    <3>2. QED
      BY <1>5, <2>1, <3>1, NoCode, CodesAsDocumented
  <2>2. CASE ~RebootOf(code)
    <3>1. total' = total
      BY <1>5, <2>2 DEF Combine
    <3>2. QED
      BY <1>4, <1>5, <2>2, <3>1, CodesAsDocumented
  <2>3. QED
    BY <2>1, <2>2
<1>6. CASE RunHostname
  <2>1. PICK code \in Codes \cup {0, 1001} :
          total' = Combine("runcmd", code) /\ asked' = asked \cup Asks(code)
    BY <1>6 DEF RunHostname
  <2>2. QED
    BY <1>5, <2>1, ScriptsAssumption
<1>7. CASE RunPiece
  <2>1. PICK code \in Codes : total' = Combine(Current.kind, code) /\ asked' = asked \cup Asks(code)
    BY <1>7 DEF RunPiece
  <2>2. code \in Nat
    BY ScriptsAssumption
  <2>3. CASE Current.kind = "runcmd"
    BY <1>5, <2>1, <2>2, <2>3
  <2>4. CASE Current.kind \in {"script", "ec2"}
    <3>1. total = 0 /\ "reboot" \notin asked
      BY <1>1, <1>2, <1>3, <2>4
    <3>2. total' = code
      BY <2>1, <2>2, <2>4, <3>1 DEF Combine
    <3>3. QED
      BY <2>1, <2>2, <3>1, <3>2, CodesAsDocumented
  <2>5. QED
    BY <1>1, <1>7, <2>3, <2>4 DEF RunPiece, Task
<1>8. QED
  BY <1>6, <1>7

\* The end of a task, a part that is not a task: what was asked for is in reboot again.
LEMMA ItemRebootInv ==
  ASSUME TypeInv, RebootInv, ItemOver
  PROVE  RebootInv'
<1>1. /\ InLoop' /\ pc \in {"userdata", "begin", "local"} /\ ~reboot
      /\ piece' = 1 /\ total' = 0 /\ asked' = asked
  BY ItemThere DEF InLoop
<1>2. SUFFICES ASSUME "summed" \notin windows'
      PROVE  reboot' <=> "reboot" \in asked
  BY <1>1 DEF RebootInv, InLoop
<1>3. "summed" \notin windows
  BY <1>2 DEF ItemOver, PartOver, ScriptOver, BeginHandler, SkipHandler, HandlerUnusable, CallHandler,
              NoResult
<1>4. piece \in 1 .. 3
  BY DEF TypeInv, TypeOK
<1>5. CASE PartOver \/ ScriptOver
  <2>1. ~Summing
    BY <1>2, <1>5 DEF PartOver, ScriptOver, Strayed, Summing
  <2>2. IsTask /\ piece > Current.pieces /\ InLoop
    BY <1>5 DEF PartOver, ScriptOver, InLoop
  <2>3. Current \in Task
    BY <2>2, CurrentTask DEF TypeInv, InLoop, Running
  <2>4. piece > 1
    BY <1>4, <2>2, <2>3 DEF Task
  <2>5. RebootOf(total) <=> "reboot" \in asked
    BY <1>3, <2>1, <2>2, <2>4 DEF RebootInv
  <2>6. reboot' <=> RebootOf(total)
    BY <1>1, <1>5, ZenonT(60) DEF PartOver, ScriptOver, RebootOf
  <2>7. QED
    BY <2>5, <2>6
<1>6. CASE BeginHandler
  BY <1>3, <1>6 DEF BeginHandler, NoResult, RebootInv
<1>7. CASE SkipHandler \/ HandlerUnusable \/ CallHandler
  <2>1. ~IsTask /\ InLoop
    BY <1>7 DEF SkipHandler, HandlerUnusable, CallHandler, IsTask, InLoop
  <2>2. piece = 1
    BY <1>4, <2>1 DEF RebootInv
  <2>3. "reboot" \notin asked
    BY <1>1, <1>3, <2>1, <2>2 DEF RebootInv
  <2>4. ~reboot'
    BY <1>7 DEF SkipHandler, HandlerUnusable, CallHandler, NoResult
  <2>5. QED
    BY <2>3, <2>4
<1>8. QED
  BY <1>5, <1>6, <1>7 DEF ItemOver

\* A part that is not a task is begun between two tasks.
LEMMA RegisterRebootInv ==
  ASSUME TypeInv, RebootInv, RegisterHandler
  PROVE  RebootInv'
<1>1. InLoop /\ ~IsTask /\ ~reboot /\ piece \in 1 .. 3
  BY DEF RegisterHandler, InLoop, IsTask, More, TypeInv, TypeOK
<1>2. piece = 1 /\ ("summed" \in windows \/ "reboot" \notin asked)
  BY <1>1 DEF RebootInv
<1>3. QED
  BY <1>2 DEF RegisterHandler, RebootInv, InLoop

LEMMA StepRebootInv == TypeInv /\ RebootInv /\ [Next]_vars => RebootInv'
<1> SUFFICES ASSUME TypeInv, RebootInv, [Next]_vars PROVE RebootInv'
  OBVIOUS
<1>1. CASE Boot \/ StartLocal
  <2>1. piece' = 1 /\ total' = 0 /\ reboot' = FALSE /\ asked' = {} /\ pc' \notin {"begin", "ending"}
    BY <1>1 DEF Boot, StartLocal, Fresh
  <2>2. QED
    BY <2>1 DEF RebootInv
<1>2. CASE StartUserData
  <2>1. piece = 1 /\ total = 0 /\ reboot = FALSE /\ asked = {}
    BY <1>2 DEF StartUserData, TypeInv, FreshInv
  <2>2. pc' \notin {"begin", "ending"} /\ UNCHANGED <<piece, total, reboot, asked>>
    BY <1>2 DEF StartUserData, execution
  <2>3. QED
    BY <2>1, <2>2 DEF RebootInv
<1>3. CASE LeaveParts
  <2>1. piece = 1
    BY <1>3 DEF LeaveParts, RebootInv, InLoop, IsTask, TypeInv, TypeOK
  <2>2. ~reboot /\ ("summed" \in windows \/ "reboot" \notin asked)
    BY <1>3, <2>1 DEF LeaveParts, RebootInv, InLoop
  <2>3. pc' = "ending" /\ UNCHANGED <<reboot, windows, asked>>
    BY <1>3 DEF LeaveParts, execution
  <2>4. QED
    BY <2>2, <2>3 DEF RebootInv, InLoop
<1>4. CASE ReturnLocal \/ ReturnRebooting \/ EndFails \/ ReturnUserData
  <2>1. pc' \in {"off", "between", "rest"}
    BY <1>4 DEF ReturnLocal, ReturnRebooting, EndFails, ReturnUserData, Return
  <2>2. QED
    BY <2>1 DEF RebootInv, InLoop
<1>5. CASE Rest \/ UNCHANGED vars
  BY <1>5 DEF Rest, vars, execution, RebootInv, InLoop, IsTask, More, Items, Current, Summing, RebootOf
<1>6. CASE \E h \in 1 .. Len(content.items) : EndHandler(h)
  BY <1>6 DEF EndHandler, RebootInv, InLoop
<1>7. CASE RunPiece \/ RunHostname
  BY <1>7, PieceRebootInv
<1>8. CASE ItemOver
  BY <1>8, ItemRebootInv
<1>9. CASE RegisterHandler
  BY <1>9, RegisterRebootInv
<1>10. QED
  BY <1>1, <1>2, <1>3, <1>4, <1>5, <1>6, <1>7, <1>8, <1>9 DEF Next, ItemOver

LEMMA ReturnReboots ==
  ASSUME TypeInv, RebootInv, [Next]_vars, Returning
  PROVE  ((pc' = "off") <=> ("reboot" \in asked)) \/ "summed" \in windows
<1>1. CASE ReturnLocal \/ ReturnRebooting
  <2>1. InLoop /\ ~IsTask /\ piece \in 1 .. 3
    BY <1>1 DEF ReturnLocal, ReturnRebooting, InLoop, IsTask, More, TypeInv, TypeOK
  <2>2. piece = 1
    BY <2>1 DEF RebootInv
  <2>3. "summed" \in windows \/ (reboot <=> "reboot" \in asked)
    BY <2>1, <2>2 DEF RebootInv
  <2>4. pc' = "off" <=> reboot
    BY <1>1 DEF ReturnLocal, ReturnRebooting, Return
  <2>5. QED
    BY <2>3, <2>4
<1>2. CASE ReturnUserData \/ EndFails
  <2>1. ~reboot /\ ("summed" \in windows \/ "reboot" \notin asked)
    BY <1>2 DEF ReturnUserData, EndFails, RebootInv
  <2>2. pc' # "off"
    BY <1>2, <2>1 DEF ReturnUserData, EndFails, Return
  <2>3. QED
    BY <2>1, <2>2
<1>3. CASE Boot \/ StartUserData \/ StartLocal
  BY <1>3 DEF Boot, StartUserData, StartLocal, Returning, Running
<1>4. CASE UNCHANGED pc \/ LeaveParts \/ ItemOver \/ RegisterHandler
  BY <1>4, ItemThere DEF LeaveParts, RegisterHandler, Returning, Running
<1>5. CASE \/ RunPiece \/ RunHostname \/ Rest \/ UNCHANGED vars
           \/ \E h \in 1 .. Len(content.items) : EndHandler(h)
  BY <1>4, <1>5 DEF RunPiece, RunHostname, EndHandler, Rest, vars
<1>6. QED
  BY <1>1, <1>2, <1>3, <1>4, <1>5 DEF Next, ItemOver

\* The machine reboots after a plugin exactly when a script of it returned a code that asks
\* for it, in whatever part or directive, unless EC2 sections had their codes added up.
THEOREM RebootsAsAsked == Spec => RebootAsAsked
<1>1. TypeInv /\ RebootInv /\ [Next]_vars =>
        [Returning => \/ (pc' = "off") <=> ("reboot" \in asked)
                      \/ "summed" \in windows]_vars
  BY ReturnReboots
<1>2. QED
  BY InitTypeInv, StepTypeInv, InitRebootInv, StepRebootInv, <1>1, PTL DEF Spec, RebootAsAsked

\* Where a script or part begins, and where handlers are begun and ended, nobody has asked for
\* a reboot that the loop knows of.
LEMMA NothingAsked ==
  ASSUME TypeInv, RebootInv, [Next]_vars, Running, Running', piece = 1, Progress' # Progress
  PROVE  "reboot" \notin asked \/ "summed" \in windows
<1>1. CASE RunPiece \/ RunHostname
  BY <1>1, PieceOfTask DEF RebootInv
<1>2. CASE ItemOver \/ RegisterHandler
  <2>1. ~reboot /\ pc \in {"userdata", "begin", "local"}
    BY <1>2, ItemThere DEF RegisterHandler, More
  <2>2. QED
    BY <2>1 DEF RebootInv, InLoop
<1>3. CASE \E h \in 1 .. Len(content.items) : EndHandler(h)
  BY <1>3 DEF EndHandler, RebootInv
<1>4. CASE \/ Boot \/ StartUserData \/ StartLocal \/ ReturnLocal \/ LeaveParts \/ ReturnRebooting
           \/ EndFails \/ ReturnUserData \/ Rest \/ UNCHANGED vars
  BY <1>4
  DEF Boot, StartUserData, StartLocal, ReturnLocal, LeaveParts, ReturnRebooting, EndFails,
      ReturnUserData, Return, Rest, vars, execution, Running, Progress
<1>5. QED
  BY <1>1, <1>2, <1>3, <1>4 DEF Next, ItemOver

\* After a request for a reboot that was not lost among the added codes of EC2 sections no
\* script is run, no handler is registered, begun or ended, and no part is given to one.
THEOREM NothingRunsBeforeReboot == Spec => NothingAfterRebootRequest
<1>1. TypeInv /\ RebootInv /\ [Next]_vars =>
        [Running /\ Running' /\ piece = 1 /\ Progress' # Progress =>
           "reboot" \notin asked \/ "summed" \in windows]_vars
  BY NothingAsked
<1>2. QED
  BY InitTypeInv, StepTypeInv, InitRebootInv, StepRebootInv, <1>1, PTL
  DEF Spec, NothingAfterRebootRequest

-----------------------------------------------------------------------------
(* Further executions. *)

\* As long as every code was taken as documented: between two tasks the status says what the
\* scripts asked for; within a script the status and the total say it together.
RerunInv ==
  /\ InLoop /\ piece = 1 => windows # {} \/ (status = "NEXT_BOOT" <=> "rerun" \in asked)
  /\ InLoop /\ piece > 1 => \/ windows # {} \/ Summing \/ Current.kind \in {"hostname", "runcmd"}
                            \/ "rerun" \in asked <=>
                                  status = "NEXT_BOOT" \/ StatusOf(total) = "NEXT_BOOT"
  /\ pc \in {"begin", "ending"} => windows # {} \/ (status = "NEXT_BOOT" <=> "rerun" \in asked)

LEMMA InitRerunInv == Init => RerunInv
BY DEF Init, RerunInv, InLoop

LEMMA PieceRerunInv ==
  ASSUME TypeInv, RebootInv, RerunInv, RunPiece \/ RunHostname
  PROVE  RerunInv'
<1>1. /\ InLoop /\ piece' > 1
      /\ Current \in Task
      /\ Current.kind = "script" => piece = 1
      /\ Current.kind = "ec2" /\ ~Summing => piece = 1
      /\ UNCHANGED <<pc, windows, status>>
      /\ (Summing' <=> Summing) /\ Current' = Current
  BY PieceOfTask
<1>2. SUFFICES ASSUME windows = {}, ~Summing, Current.kind \notin {"hostname", "runcmd"}
      PROVE "rerun" \in asked' <=> status' = "NEXT_BOOT" \/ StatusOf(total') = "NEXT_BOOT"
  BY <1>1 DEF RerunInv, InLoop, StatusOf
<1>3. Current.kind \in {"script", "ec2"} /\ piece = 1
  BY <1>1, <1>2 DEF Task
<1>4. total = 0 /\ (status = "NEXT_BOOT" <=> "rerun" \in asked)
  BY <1>1, <1>2, <1>3 DEF RerunInv, RebootInv
<1>5. PICK code \in Codes : total' = Combine(Current.kind, code) /\ asked' = asked \cup Asks(code)
  BY <1>2 DEF RunPiece, RunHostname
<1>6. code \in Nat
  BY ScriptsAssumption
<1>7. total' = code
  BY <1>3, <1>4, <1>5, <1>6 DEF Combine
<1>8. QED
  BY <1>1, <1>4, <1>5, <1>6, <1>7, CodesAsDocumented

LEMMA ItemRerunInv ==
  ASSUME TypeInv, RebootInv, RerunInv, ItemOver
  PROVE  RerunInv'
<1>1. InLoop' /\ pc' \in {"userdata", "local"} /\ piece' = 1 /\ asked' = asked
  BY ItemThere DEF InLoop
<1>2. SUFFICES ASSUME windows' = {}
      PROVE  status' = "NEXT_BOOT" <=> "rerun" \in asked
  BY <1>1 DEF RerunInv, InLoop
<1>3. windows = {}
  BY <1>2 DEF ItemOver, PartOver, ScriptOver, BeginHandler, SkipHandler, HandlerUnusable, CallHandler,
              NoResult
<1>4. piece \in 1 .. 3 /\ status \in Statuses
  BY DEF TypeInv, TypeOK
<1>5. CASE PartOver \/ ScriptOver
  <2>1. ~Summing /\ Current.kind \notin {"hostname", "runcmd"}
    BY <1>2, <1>5 DEF PartOver, ScriptOver, Strayed, Summing
  <2>2. IsTask /\ piece > Current.pieces /\ InLoop
    BY <1>5 DEF PartOver, ScriptOver, InLoop
  <2>3. Current \in Task
    BY <2>2, CurrentTask DEF TypeInv, InLoop, Running
  <2>4. piece > 1
    BY <1>4, <2>2, <2>3 DEF Task
  <2>5. "rerun" \in asked <=> status = "NEXT_BOOT" \/ StatusOf(total) = "NEXT_BOOT"
    BY <1>3, <2>1, <2>2, <2>4 DEF RerunInv
  <2>6. CASE PartOver
    <3>1. status' = StatusOf(total) /\ (status = "NEXT_BOOT" => StatusOf(total) # "DONE")
      BY <1>2, <2>6 DEF PartOver, Strayed
    <3>2. QED
      BY <2>5, <3>1 DEF StatusOf
  <2>7. CASE ScriptOver
    BY <2>5, <2>7 DEF ScriptOver
  <2>8. QED
    BY <1>5, <2>6, <2>7
<1>6. CASE BeginHandler \/ SkipHandler \/ HandlerUnusable \/ CallHandler
  <2>1. pc = "begin" \/ (InLoop /\ ~IsTask)
    BY <1>6 DEF BeginHandler, SkipHandler, HandlerUnusable, CallHandler, IsTask, InLoop
  <2>2. pc = "begin" \/ (InLoop /\ piece = 1)
    BY <1>4, <2>1 DEF RebootInv
  <2>3. status # "NEXT_BOOT" /\ status' = "DONE"
    BY <1>2, <1>6 DEF BeginHandler, SkipHandler, HandlerUnusable, CallHandler, NoResult
  <2>4. QED
    BY <1>3, <2>2, <2>3 DEF RerunInv
<1>7. QED
  BY <1>5, <1>6 DEF ItemOver

LEMMA RegisterRerunInv ==
  ASSUME TypeInv, RebootInv, RerunInv, RegisterHandler
  PROVE  RerunInv'
<1>1. InLoop /\ ~IsTask /\ piece \in 1 .. 3
  BY DEF RegisterHandler, InLoop, IsTask, TypeInv, TypeOK
<1>2. piece = 1
  BY <1>1 DEF RebootInv
<1>3. windows # {} \/ (status = "NEXT_BOOT" <=> "rerun" \in asked)
  BY <1>1, <1>2 DEF RerunInv
<1>4. QED
  BY <1>3 DEF RegisterHandler, RerunInv, InLoop

LEMMA StepRerunInv == TypeInv /\ RebootInv /\ RerunInv /\ [Next]_vars => RerunInv'
<1> SUFFICES ASSUME TypeInv, RebootInv, RerunInv, [Next]_vars PROVE RerunInv'
  OBVIOUS
<1>1. CASE Boot \/ StartLocal
  <2>1. piece' = 1 /\ status' = "DONE" /\ asked' = {} /\ pc' \notin {"begin", "ending"}
    BY <1>1 DEF Boot, StartLocal, Fresh
  <2>2. QED
    BY <2>1 DEF RerunInv
<1>2. CASE StartUserData
  <2>1. piece = 1 /\ status = "DONE" /\ asked = {}
    BY <1>2 DEF StartUserData, TypeInv, FreshInv
  <2>2. pc' \notin {"begin", "ending"} /\ UNCHANGED <<piece, status, asked>>
    BY <1>2 DEF StartUserData, execution
  <2>3. QED
    BY <2>1, <2>2 DEF RerunInv
<1>3. CASE LeaveParts
  <2>1. piece = 1
    BY <1>3 DEF LeaveParts, RebootInv, InLoop, IsTask, TypeInv, TypeOK
  <2>2. windows # {} \/ (status = "NEXT_BOOT" <=> "rerun" \in asked)
    BY <1>3, <2>1 DEF LeaveParts, RerunInv, InLoop
  <2>3. pc' = "ending" /\ UNCHANGED <<status, windows, asked>>
    BY <1>3 DEF LeaveParts, execution
  <2>4. QED
    BY <2>2, <2>3 DEF RerunInv, InLoop
<1>4. CASE ReturnLocal \/ ReturnRebooting \/ EndFails \/ ReturnUserData
  <2>1. pc' \in {"off", "between", "rest"}
    BY <1>4 DEF ReturnLocal, ReturnRebooting, EndFails, ReturnUserData, Return
  <2>2. QED
    BY <2>1 DEF RerunInv, InLoop
<1>5. CASE Rest \/ UNCHANGED vars
  BY <1>5 DEF Rest, vars, execution, RerunInv, InLoop, Items, Current, Summing, StatusOf
<1>6. CASE \E h \in 1 .. Len(content.items) : EndHandler(h)
  BY <1>6 DEF EndHandler, RerunInv, InLoop
<1>7. CASE RunPiece \/ RunHostname
  BY <1>7, PieceRerunInv
<1>8. CASE ItemOver
  BY <1>8, ItemRerunInv
<1>9. CASE RegisterHandler
  BY <1>9, RegisterRerunInv
<1>10. QED
  BY <1>1, <1>2, <1>3, <1>4, <1>5, <1>6, <1>7, <1>8, <1>9 DEF Next, ItemOver

LEMMA ReturnSaves ==
  ASSUME TypeInv, RebootInv, RerunInv, [Next]_vars,
         Returning, pc = "ending" => Registered \subseteq ended
  PROVE  ((saved'[Plugin] = "NEXT_BOOT") <=> ("rerun" \in asked)) \/ windows # {}
<1>1. ASSUME NEW next, Return(next)
      PROVE  saved'[Plugin] = status
  BY <1>1 DEF Return, Plugin, TypeInv, TypeOK
<1>2. CASE ReturnLocal \/ ReturnRebooting
  <2>1. InLoop /\ ~IsTask /\ piece \in 1 .. 3
    BY <1>2 DEF ReturnLocal, ReturnRebooting, InLoop, IsTask, More, TypeInv, TypeOK
  <2>2. piece = 1
    BY <2>1 DEF RebootInv
  <2>3. windows # {} \/ (status = "NEXT_BOOT" <=> "rerun" \in asked)
    BY <2>1, <2>2 DEF RerunInv
  <2>4. QED
    BY <1>1, <1>2, <2>3 DEF ReturnLocal, ReturnRebooting
<1>3. CASE ReturnUserData
  BY <1>1, <1>3 DEF ReturnUserData, RerunInv
<1>4. CASE EndFails
  BY <1>4 DEF EndFails
<1>5. CASE Boot \/ StartUserData \/ StartLocal
  BY <1>5 DEF Boot, StartUserData, StartLocal, Returning, Running
<1>6. CASE UNCHANGED pc \/ LeaveParts \/ ItemOver \/ RegisterHandler
  BY <1>6, ItemThere DEF LeaveParts, RegisterHandler, Returning, Running
<1>7. CASE \/ RunPiece \/ RunHostname \/ Rest \/ UNCHANGED vars
           \/ \E h \in 1 .. Len(content.items) : EndHandler(h)
  BY <1>6, <1>7 DEF RunPiece, RunHostname, EndHandler, Rest, vars
<1>8. QED
  BY <1>2, <1>3, <1>4, <1>5, <1>6, <1>7 DEF Next, ItemOver

\* A plugin that returns is saved for another execution exactly when a script of it asked for
\* one, unless codes were added up, a cloud-config was run or a request was overwritten.
THEOREM RerunsAsAsked == Spec => RerunAsAsked
<1>1. TypeInv /\ RebootInv /\ RerunInv /\ [Next]_vars =>
        [Returning /\ (pc = "ending" => Registered \subseteq ended) =>
           \/ (saved'[Plugin] = "NEXT_BOOT") <=> ("rerun" \in asked)
           \/ windows # {}]_vars
  BY ReturnSaves
<1>2. QED
  BY InitTypeInv, StepTypeInv, InitRebootInv, StepRebootInv, InitRerunInv, StepRerunInv, <1>1, PTL
  DEF Spec, RerunAsAsked

=============================================================================
