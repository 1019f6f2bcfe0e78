--------------------------- MODULE MCUserScripts ---------------------------
(* User data of every kind and directories of up to three scripts. *)
EXTENDS UserScripts

CONSTANTS heat, custom

Do(kind, pieces) == [kind |-> kind, pieces |-> pieces]
Handles(types)   == [kind |-> "handler", types |-> types]
Part(type)       == [kind |-> "custom", type |-> type]

One(task)     == [multipart |-> FALSE, items |-> <<task>>]
Parts(items)  == [multipart |-> TRUE, items |-> items]

MCContents ==
  {One(Do("script", 1)), One(Do("ec2", 2)), One(Do("hostname", 2)), One(Do("runcmd", 1)),
   Parts(<<[kind |-> "ignored"], Do("script", 1), Do("hostname", 2), Do("script", 1)>>),
   Parts(<<Handles({heat}), Part(heat), Do("ec2", 2), Handles({heat, custom}), Part(custom),
           Part(heat)>>),
   Parts(<<Handles({heat, custom}), Handles({}), Handles({heat}), Part(heat), Part(custom)>>)}

MCDirectories ==
  {<<>>, <<Do("script", 1), Do("script", 1), Do("script", 1)>>,
   <<Do("ec2", 2), Do("script", 1)>>}

MCRunCmd == {One(Do("runcmd", 1))}

MCNoScripts == {<<>>}

=============================================================================
