------------------------- MODULE MCMetadataServices -------------------------
(* Clouds that differ in the services, in the drives that are attached, in the *)
(* options, in what the wire server has, and in what the metadata lacks.       *)
EXTENDS MetadataServices

Attached(where, format, volume, metadata, blocks) ==
  [where |-> where, format |-> format, label |-> volume, file |-> metadata, blocks |-> blocks,
   fixed |-> TRUE, long |-> TRUE, disk |-> 1, table |-> TRUE]
Second(d) == [d EXCEPT !.disk = 2]
Removable(d) == [d EXCEPT !.fixed = FALSE]
Short(d) == [d EXCEPT !.long = FALSE]
Blank(d) == [d EXCEPT !.table = FALSE]

Options(types, locations) ==
  [types |-> types, locations |-> locations, raw_hdd |-> FALSE, cdrom |-> FALSE, vfat |-> FALSE,
   mtools |-> TRUE]
Everywhere == Options({"iso", "vfat"}, {"cdrom", "hdd", "partition"})

Nothing == [devices |-> {}, config |-> Options({"iso"}, {"cdrom"})]

\* A CD-ROM is a volume as well; another one has no metadata file.
CdRom ==
  [devices |-> {Attached("cdrom", "iso", "config-2", TRUE, 1), Attached("cdrom", "iso", "cidata", TRUE, 1),
                Attached("volume", "iso", "config-2", TRUE, 1), Attached("cdrom", "iso", "config-2", FALSE, 1)},
   config |-> Everywhere]
\* An image too large for the size field next to one that is not, and to a CD-ROM.
Images ==
  [devices |-> {Attached("disk", "iso", "config-2", TRUE, 2^16 + 1), Attached("cdrom", "iso", "config-2", TRUE, 1),
                Second(Attached("partition", "iso", "config-2", TRUE, 1)), Second(Attached("disk", "other", "none", FALSE, 0))},
   config |-> Everywhere]
\* Partitions of two disks, on the second of them the drive.
Parts ==
  [devices |-> {Attached("disk", "other", "none", FALSE, 0), Second(Attached("disk", "other", "none", FALSE, 0)),
                Attached("partition", "other", "none", FALSE, 0), Second(Attached("partition", "iso", "config-2", TRUE, 1)),
                Removable(Attached("disk", "iso", "config-2", TRUE, 1))},
   config |-> Everywhere]
\* A new data disk next to the disk with the drive; what is no fixed disk or too small.
DataDisk ==
  [devices |-> {Blank(Second(Attached("disk", "other", "none", FALSE, 0))), Attached("disk", "other", "none", FALSE, 0),
                Attached("partition", "iso", "config-2", TRUE, 1), Short(Attached("disk", "iso", "config-2", TRUE, 1))},
   config |-> Everywhere]
Vfats ==
  [devices |-> {Attached("disk", "vfat", "cidata", TRUE, 0), Attached("volume", "vfat", "cidata", TRUE, 0),
                Attached("disk", "iso", "none", TRUE, 2)},
   config |-> Everywhere]
OldOptions ==
  [devices |-> {Attached("disk", "vfat", "config-2", TRUE, 0), Attached("cdrom", "iso", "config-2", TRUE, 1)},
   config |-> [types |-> {}, locations |-> {}, raw_hdd |-> TRUE, cdrom |-> TRUE, vfat |-> TRUE,
               mtools |-> FALSE]]

Wire(supported, ovf, started, completed, expected, before) ==
  [version |-> supported, file |-> ovf, started |-> started, completed |-> completed,
   state |-> expected, shown |-> before]
NoWire == Wire(FALSE, FALSE, FALSE, FALSE, "Started", "none")

Cloud(names, drives, wire, absent) ==
  [services |-> names, machine |-> drives, fabric |-> wire, lacking |-> absent]

MCClouds ==
  {Cloud(<<>>, Nothing, NoWire, {})}
  \cup {Cloud(<<"ConfigDriveService">>, m, NoWire, {}) : m \in {CdRom, Images, Parts, DataDisk, OldOptions}}
  \cup {Cloud(<<"NoCloudConfigDriveService", "ConfigDriveService">>, m, NoWire, {"network"}) :
          m \in {Nothing, Vfats}}
  \cup {Cloud(<<"AzureService", "EmptyMetadataService">>, Nothing, w, {}) :
          w \in {Wire(TRUE, TRUE, TRUE, TRUE, "Started", "Ready"),
                 Wire(TRUE, TRUE, FALSE, TRUE, "Started", "Failed"),
                 Wire(TRUE, TRUE, TRUE, TRUE, "Stopped", "none"),
                 Wire(TRUE, FALSE, TRUE, TRUE, "Started", "none"), NoWire}}
  \cup {Cloud(<<"EC2Service", s, "OvfService">>, Nothing, NoWire, absent) :
          s \in {"HttpService", "MaaSHttpService", "PacketService"},
          absent \in {{"hostname"}, {"hostname", "content", "userdata", "metadata"}}}
  \cup {Cloud(<<s>>, Nothing, NoWire, absent) :
          s \in {"EC2Service", "GCEService", "CloudStack", "OpenNebulaService", "VMwareGuestInfoService"},
          absent \in {{}, {"userdata", "offering", "set hostname", "blocked"}, {"hostname", "metadata"}}}

AllFunctions ==
  {"generate_key", "create_self_signed_cert", "delete_certificate_from_store",
   "import_pfx_certificate", "decode_pkcs7", "import_cert", "get_server_certs", "first_logon",
   "respawn", "service", "create_service", "forward_table", "physical_disks", "volumes",
   "adapter_addresses", "device", "extend_volumes", "san_policy"}

=============================================================================
