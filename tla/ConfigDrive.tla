---------------------------- MODULE ConfigDrive ----------------------------
(***************************************************************************)
(* The search for a config drive: every searched type at every searched    *)
(* location, in an order that depends on the hash of strings.  What is     *)
(* found is copied or extracted to the manager's temporary folder, which   *)
(* the failed attempts before it have used as well.                        *)
(***************************************************************************)
EXTENDS Integers, SequencesExt

CONSTANTS
  Machines,     \* [devices |-> what is attached, config |-> the options]
  MaxFailures   \* bound: calls that raise, and copies that end early

VARIABLES
  pc,           \* "idle", "search", "look", a step, or "over"
  machine,
  label,        \* the label of the service's drive
  untried,      \* <<type, location>> pairs that remain, in their order
  route,        \* the one that is searched
  todo,         \* its devices that remain, and disks whose partitions remain
  taken,        \* the device that is copied or extracted
  folder,       \* what is in the target folder: <<device, "part" or "whole">>
  found,        \* what load() returns
  failures

vars == <<pc, machine, label, untried, route, todo, taken, folder, found, failures>>

Labels == {"config-2", "cidata"}

\* A device with the blocks of its ISO image.  "fixed": its medium cannot be removed;
\* "long": its size, for a disk in whole cylinders, goes beyond the header of an image;
\* "disk": the number of a disk, and of the disk of a partition; "table": its partition
\* style is a known one, which that of a blank disk is not, nor that of an empty drive.
Device ==
  [where : {"cdrom", "disk", "partition", "volume"}, format : {"iso", "vfat", "other"},
   label : Labels \cup {"none"}, file : BOOLEAN, blocks : Nat,
   fixed : BOOLEAN, long : BOOLEAN, disk : Nat, table : BOOLEAN]
NoDevice ==
  [where |-> "none", format |-> "other", label |-> "none", file |-> FALSE, blocks |-> 0,
   fixed |-> FALSE, long |-> FALSE, disk |-> 0, table |-> FALSE]
NoFolder == {<<NoDevice, "no folder">>}

Iso == "iso"
Vfat == "vfat"
NoRoute == <<"none", "none">>

\* config_drive_type_location: where the devices of a type at a location are found.
Where(r) ==
  CASE r = <<Iso, "cdrom">> -> "cdrom"
    [] r \in {<<Iso, "hdd">>, <<Vfat, "hdd">>} -> "disk"
    [] r = <<Iso, "partition">> -> "partition"
    [] r = <<Vfat, "partition">> -> "volume"
    [] OTHER -> "nowhere"

\* The old options are added to the types and to the locations.
SearchedTypes(c) ==
  c.types \cup (IF c.raw_hdd \/ c.cdrom THEN {Iso} ELSE {}) \cup (IF c.vfat THEN {Vfat} ELSE {})
SearchedLocations(c) ==
  c.locations \cup (IF c.raw_hdd \/ c.vfat THEN {"hdd"} ELSE {})
              \cup (IF c.cdrom THEN {"cdrom"} ELSE {})

\* Every type at every location, in the orders two sets of strings happen to have.
Product(types, locations) ==
  [i \in 1..Len(types) * Len(locations) |->
     <<types[((i - 1) \div Len(locations)) + 1], locations[((i - 1) % Len(locations)) + 1]>>]
Orders ==
  {Product(types, locations) : types \in SetToSeqs(SearchedTypes(machine.config)),
                               locations \in SetToSeqs(SearchedLocations(machine.config))}

\* What the system lists: for the partitions, the disks they are on.
Listed(r) ==
  {d \in machine.devices : d.where = IF Where(r) = "partition" THEN "disk" ELSE Where(r)}

Partitions(d) == {p \in machine.devices : p.where = "partition" /\ p.disk = d.disk}

-----------------------------------------------------------------------------
(* Which devices are taken. *)

TwoBytes == 65536

\* The size field is read as two bytes, and only that of a fixed device with room for it.
IsoFileSize(d) ==
  IF d.fixed /\ d.long /\ d.format = "iso" THEN d.blocks % TwoBytes ELSE 0

IsConfigDrive(d) == d.label = label /\ d.file

\* Without mtools the check raises.
IsVfatDrive(d) == d.format = "vfat" /\ d.label = label

First ==
  CASE Where(route) \in {"cdrom", "volume"} -> "rmdir"
    [] route = <<Vfat, "hdd">> -> "mcopy"
    [] OTHER -> "image"

Fits(d) ==
  CASE First = "rmdir" -> IsConfigDrive(d)
    [] First = "mcopy" -> IsVfatDrive(d)
    [] First = "image" -> IsoFileSize(d) > 0

NoTools == First = "mcopy" /\ todo # {} /\ ~machine.config.mtools

-----------------------------------------------------------------------------
Init ==
  /\ pc = "idle" /\ machine \in Machines
  /\ label = "none" /\ untried = <<>> /\ route = NoRoute /\ todo = {} /\ taken = NoDevice
  /\ folder = NoFolder /\ found = FALSE

\* load(): a manager of its own, with a new folder.
Load(l) ==
  /\ pc \in {"idle", "over"}
  /\ pc' = "search" /\ label' = l
  /\ untried' \in Orders /\ route' = NoRoute /\ todo' = {} /\ taken' = NoDevice
  /\ folder' = {} /\ found' = FALSE
  /\ UNCHANGED <<machine, failures>>

Failing == failures < MaxFailures /\ failures' = failures + 1

\* Devices of one kind, in the order the system lists them.
List ==
  /\ pc = "search" /\ ~found /\ untried # <<>>
  /\ route' = Head(untried) /\ todo' = Listed(Head(untried)) /\ untried' = Tail(untried)
  /\ pc' = "look"
  /\ UNCHANGED <<machine, label, taken, folder, found, failures>>

\* Mutant: an exception ends the search.
Mut_ListFails ==
  /\ pc = "look"
  /\ \/ Failing
     \/ NoTools /\ UNCHANGED failures
  /\ pc' = "over" /\ todo' = {}
  /\ UNCHANGED <<machine, label, untried, route, taken, folder, found>>

\* Listing, asking for a label or opening a physical drive raises: the search goes
\* on with the next type and location.
ListFails ==
  /\ pc = "look"
  /\ \/ Failing
     \/ NoTools /\ UNCHANGED failures
  /\ pc' = "search" /\ todo' = {}
  /\ UNCHANGED <<machine, label, untried, route, taken, folder, found>>

Exhausted ==
  /\ pc = "look" /\ todo = {}
  /\ pc' = "search"
  /\ UNCHANGED <<machine, label, untried, route, todo, taken, folder, found, failures>>

Return ==
  /\ pc = "search" /\ (found \/ untried = <<>>)
  /\ pc' = "over" /\ untried' = <<>> /\ todo' = {}
  /\ UNCHANGED <<machine, label, route, taken, folder, found, failures>>

Ready == {d \in todo : d.where = Where(route)}

\* The partitions of the next disk.
OpenDisk ==
  /\ pc = "look" /\ Ready = {}
  /\ \E d \in todo : d.table /\ todo' = (todo \ {d}) \cup Partitions(d)
  /\ UNCHANGED <<pc, machine, label, untried, route, taken, folder, found, failures>>

\* A disk without a partition table raises, and the disks after it are not opened.
BlankDisk ==
  /\ pc = "look" /\ Ready = {}
  /\ \E d \in todo : ~d.table
  /\ pc' = "search" /\ todo' = {}
  /\ UNCHANGED <<machine, label, untried, route, taken, folder, found, failures>>

Look ==
  /\ pc = "look" /\ ~NoTools
  /\ \E d \in Ready :
       /\ todo' = todo \ {d}
       /\ IF Fits(d) THEN pc' = First /\ taken' = d ELSE UNCHANGED <<pc, taken>>
  /\ UNCHANGED <<machine, label, untried, route, folder, found, failures>>

-----------------------------------------------------------------------------
(* Copying and extracting. *)

Take(content) ==
  /\ folder' = content /\ found' = TRUE /\ pc' = "search"
  /\ UNCHANGED <<machine, label, untried, route, todo, taken>>

Leave(next, content) ==
  /\ folder' = content /\ pc' = next
  /\ UNCHANGED <<machine, label, untried, route, todo, taken, found>>

Whole == {<<taken, "whole">>}
Part == {<<taken, "part">>}

\* Mutant: the folder goes with what an attempt before left in it.
Mut_RemoveFolder ==
  /\ pc = "rmdir" /\ folder # NoFolder
  /\ Leave("copy", folder)
  /\ UNCHANGED failures

\* rmdir: only an empty folder can be removed, and copytree makes a new one.
RemoveFolder ==
  /\ pc = "rmdir" /\ folder = {}
  /\ Leave("copy", NoFolder)
  /\ UNCHANGED failures

RemoveFolderRaises ==
  /\ pc = "rmdir" /\ folder # {}
  /\ Leave("search", folder)
  /\ UNCHANGED failures

CopyTree ==
  /\ pc = "copy"
  /\ Take(IF folder = NoFolder THEN Whole ELSE folder \cup Whole)
  /\ UNCHANGED failures

CopyTreeRaises ==
  /\ pc = "copy" /\ Failing
  /\ \E content \in {folder, Part} : Leave("search", content)

\* Nobody looks at the exit code of mcopy.
Mcopy ==
  /\ pc = "mcopy" /\ folder # NoFolder
  /\ Take(folder \cup Whole)
  /\ UNCHANGED failures

McopyEndsEarly ==
  /\ pc = "mcopy" /\ folder # NoFolder /\ Failing
  /\ \E content \in {folder, folder \cup Part} : Take(content)

\* chdir to a folder that is gone.
McopyRaises ==
  /\ pc = "mcopy" /\ folder = NoFolder
  /\ Leave("search", folder)
  /\ UNCHANGED failures

\* The device's first bytes, as many as the image is said to have, go to a file.
WriteImage ==
  /\ pc = "image"
  /\ Leave("extract", folder)
  /\ UNCHANGED failures

\* A device that cannot be read, or bsdtar missing: the next device.
WriteImageRaises ==
  /\ pc = "image" /\ Failing
  /\ Leave("look", folder)

\* bsdtar's exit code is taken at its word: of an image that was cut off it is zero only
\* if all files lie before the cut.
Extract ==
  /\ pc = "extract" /\ folder # NoFolder
  /\ Take(folder \cup Whole)
  /\ UNCHANGED failures

\* What is cut off holds some of the files, or the folder is gone: bsdtar fails.
ExtractEndsEarly ==
  /\ pc = "extract" /\ (folder = NoFolder \/ taken.blocks >= TwoBytes)
  /\ Leave("look", IF folder = NoFolder THEN folder ELSE folder \cup Part)
  /\ UNCHANGED failures

ExtractFails ==
  /\ pc = "extract" /\ folder # NoFolder /\ Failing
  /\ \E content \in {folder, folder \cup Part} : Leave("look", content)

\* All is extracted, but the file with the image cannot be removed: the search goes on
\* with the next type and location, and with what lies in the folder.
RemoveImageRaises ==
  /\ pc = "extract" /\ folder # NoFolder /\ Failing
  /\ Leave("search", folder \cup Whole)

Next ==
  \/ List \/ ListFails \/ Exhausted \/ Return \/ OpenDisk \/ BlankDisk \/ Look
  \/ RemoveFolder \/ RemoveFolderRaises \/ CopyTree \/ CopyTreeRaises
  \/ Mcopy \/ McopyEndsEarly \/ McopyRaises
  \/ WriteImage \/ WriteImageRaises \/ Extract \/ ExtractEndsEarly \/ ExtractFails
  \/ RemoveImageRaises

\* cleanup(): the folder of the service in use is removed, that of a service that was
\* not found stays.
Cleanup ==
  /\ pc = "over" /\ found
  /\ folder' = NoFolder /\ pc' = "idle"
  /\ UNCHANGED <<machine, label, untried, route, todo, taken, found, failures>>

-----------------------------------------------------------------------------
(* Properties *)

TypeOK ==
  /\ pc \in {"idle", "search", "look", "rmdir", "copy", "mcopy", "image", "extract", "over"}
  /\ machine \in Machines /\ machine.devices \subseteq Device
  /\ label \in Labels \cup {"none"}
  /\ \A r \in {route} \cup {untried[i] : i \in DOMAIN untried} :
       r = NoRoute \/ r \in {Iso, Vfat} \X {"cdrom", "hdd", "partition"}
  /\ todo \subseteq machine.devices /\ taken \in machine.devices \cup {NoDevice}
  /\ folder = NoFolder \/ folder \subseteq machine.devices \X {"part", "whole"}
  /\ found \in BOOLEAN

Fit16 == \A d \in machine.devices : d.blocks < TwoBytes

\* What was found is all of a drive and nothing else, if it was copied file by file it
\* has the label and the metadata file.  A drive read through mtools has the label, but
\* nobody notices when the copy ends early.  An image is whole, though neither its label
\* nor its metadata file is looked for, and files of an earlier one may lie next to it.
DriveIsWhole ==
  pc = "over" /\ found =>
    CASE First = "rmdir" -> IsConfigDrive(taken) /\ folder = Whole
      [] First = "mcopy" -> taken.label = label /\ (failures = 0 => Whole \subseteq folder)
      [] First = "image" -> Whole \subseteq folder /\ (failures = 0 /\ Fit16 => folder = Whole)

AllPartitioned == \A d \in machine.devices : d.where = "disk" => d.table

\* The search of a type at a location finds the drive of the service.
ReachedBy(r, d) ==
  /\ d.where = Where(r) /\ d.label = label
  /\ CASE Where(r) \in {"cdrom", "volume"} -> d.file
       [] r = <<Vfat, "hdd">> -> d.format = "vfat" /\ machine.config.mtools
       [] OTHER -> d.format = "iso" /\ d.fixed /\ d.long
  /\ Where(r) = "partition" => AllPartitioned

Reachable(d) ==
  \E r \in SearchedTypes(machine.config) \X SearchedLocations(machine.config) : ReachedBy(r, d)

\* Without a failure no attached drive of the service is missed, but for those that the
\* code does not see: an image on a removable or very small device, one on a partition
\* while a disk without a partition table is attached, which ends that search before or
\* after it.  Nor does it hold if an image is attached whose size does not fit two bytes:
\* it is itself cut off, and what is left of it keeps other drives from being copied.
NotMissed ==
  pc = "over" /\ ~found /\ failures = 0 /\ Fit16 => ~\E d \in machine.devices : Reachable(d)

=============================================================================
