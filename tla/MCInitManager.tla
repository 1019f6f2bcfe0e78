--------------------------- MODULE MCInitManager ---------------------------
(* A machine with two early plugins, three MAIN plugins and two instance ids. *)
EXTENDS InitManager

CONSTANTS ntp, mtu, hostname, licensing, userdata, i1, i2

MCPlugins == {ntp, mtu, hostname, licensing, userdata}

MCSupported == MCPlugins \ {licensing}

MCStagePlugins ==
  [s \in Stages |-> CASE s = "PRE_NETWORKING" -> <<ntp>>
                      [] s = "PRE_METADATA_DISCOVERY" -> <<mtu>>
                      [] s = "MAIN" -> <<hostname, licensing, userdata>>]

Did(status, reboot) == [status |-> status, reboot |-> reboot]

Anything == [status : Statuses, reboot : BOOLEAN] \cup {NoResult}

\* Any plugin may do anything, except that the early ones are kept to what tells apart.
MCAnyOutcome ==
  [p \in MCPlugins |-> [b \in BOOLEAN |->
     IF p \in {ntp, mtu} THEN {Did("NEXT_BOOT", TRUE), Did("NEXT_BOOT", FALSE), NoResult}
     ELSE Anything]]

\* Plugins that ask for a reboot only when they changed something.
MCSettling ==
  [p \in MCPlugins |-> [b \in BOOLEAN |->
     CASE p = hostname -> {Did("DONE", ~b)}
       [] p = userdata -> {Did("DONE", FALSE), Did("DONE", TRUE)}
       [] p = licensing -> {}
       [] p = ntp      -> {Did("NEXT_BOOT", ~b)}
       [] p = mtu      -> {Did("NEXT_BOOT", FALSE)}]]

=============================================================================
