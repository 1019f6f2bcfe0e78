--------------------------- MODULE MCUserPassword ---------------------------
(* Two account names beside the built-in one, and the configurations that differ. *)
EXTENDS UserPassword

\* The metadata services and options, with the user name of CONF or of the metadata.
MCConfigs ==
  [kind : {"openstack"}, inject : BOOLEAN, rename : BOOLEAN, admin : BOOLEAN, key : BOOLEAN,
   metaUser : {NoUser, "cloud"}]
  \cup [kind : {"cloudstack"}, inject : BOOLEAN, rename : {FALSE}, admin : {FALSE},
        key : {FALSE}, metaUser : {NoUser}]

\* OpenStack with an SSH key, the user of the configuration, and nothing unusual.
MCKeyed ==
  {[kind |-> "openstack", inject |-> TRUE, rename |-> FALSE, admin |-> FALSE, key |-> TRUE,
    metaUser |-> NoUser]}

\* The same with a user name in the metadata.
MCNamed == {[c EXCEPT !.metaUser = "cloud"] : c \in MCKeyed}

MCExisting == {{}, {"admin"}, {"cloud"}}

=============================================================================
