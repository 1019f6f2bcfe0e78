----------------------- MODULE MetadataServicesProofs -----------------------
(***************************************************************************)
(* Proofs about MetadataServices, for any clouds, requests without an      *)
(* answer, failures and changes meanwhile: what a service finds is one     *)
(* drive and all of it, no drive that a search would reach is missed, a    *)
(* run reads one value for each name, the fabric is told the truth about   *)
(* it, and the variables have their types.                                 *)
(*                                                                         *)
(* First the search for a config drive.  The order of the searches is a    *)
(* walk over the sets of types and locations, whatever order the sets      *)
(* have: each walk has each type at each location.  The invariant then     *)
(* says what is taken, what is in the folder while nothing is found and    *)
(* while nothing fails, and that whatever the searches ahead would not     *)
(* reach has been looked at.                                               *)
(***************************************************************************)
EXTENDS MetadataServices, FiniteSetTheorems, TLAPS


Places == {"cdrom", "hdd", "partition"}
Pairs  == {Drive!Iso, Drive!Vfat} \X Places

Types     == Drive!SearchedTypes(machine.config)
Locations == Drive!SearchedLocations(machine.config)

\* The statements of copying and extracting.
Copying == {"rmdir", "copy", "mcopy", "image", "extract"}

LEMMA MachineFacts ==
  ASSUME machine \in {c.machine : c \in Clouds}
  PROVE  /\ machine.devices \subseteq Drive!Device
         /\ \A d \in machine.devices :
              /\ d.blocks \in Nat /\ (d.format = "iso" => d.blocks > 0)
              /\ d.where = "partition" =>
                   \E e \in machine.devices : e.where = "disk" /\ e.disk = d.disk
         /\ Types \subseteq {Drive!Iso, Drive!Vfat} /\ Locations \subseteq Places
<1>1. PICK c \in Clouds : machine = c.machine
  OBVIOUS
<1>2. c.machine.devices \subseteq Drive!Device
  BY MetadataServicesAssumption
<1>3. \A d \in c.machine.devices : d.blocks \in Nat
  BY <1>2 DEF Drive!Device
<1>4. \A d \in c.machine.devices :
        /\ d.format = "iso" => d.blocks > 0
        /\ d.where = "partition" =>
             \E e \in c.machine.devices : e.where = "disk" /\ e.disk = d.disk
  BY MetadataServicesAssumption
<1>5. /\ Drive!SearchedTypes(c.machine.config) \subseteq {Drive!Iso, Drive!Vfat}
      /\ Drive!SearchedLocations(c.machine.config) \subseteq Places
  BY MetadataServicesAssumption DEF Places
<1>6. QED
  BY <1>1, <1>2, <1>3, <1>4, <1>5 DEF Types, Locations

\* How a device is taken.
LEMMA FirstFacts ==
  /\ Drive!First \in {"rmdir", "mcopy", "image"}
  /\ Drive!First = "rmdir" <=> Drive!Where(route) \in {"cdrom", "volume"}
  /\ Drive!First = "mcopy" => route = <<Drive!Vfat, "hdd">>
  /\ \A d : /\ Drive!First = "rmdir" => (Drive!Fits(d) <=> Drive!IsConfigDrive(d))
            /\ Drive!First = "mcopy" => (Drive!Fits(d) <=> Drive!IsVfatDrive(d))
            /\ Drive!First = "image" => (Drive!Fits(d) <=> Drive!IsoFileSize(d) > 0)
<1>0. Drive!Where(<<Drive!Vfat, "hdd">>) \notin {"cdrom", "volume"}
  BY DEF Drive!Where, Drive!Vfat, Drive!Iso
<1>1. CASE Drive!Where(route) \in {"cdrom", "volume"}
  <2>1. Drive!First = "rmdir"
    BY <1>0, <1>1 DEF Drive!First
  <2>2. QED
    BY <1>1, <2>1 DEF Drive!Fits
<1>2. CASE Drive!Where(route) \notin {"cdrom", "volume"} /\ route = <<Drive!Vfat, "hdd">>
  <2>1. Drive!First = "mcopy"
    BY <1>2 DEF Drive!First
  <2>2. QED
    BY <1>2, <2>1 DEF Drive!Fits
<1>3. CASE Drive!Where(route) \notin {"cdrom", "volume"} /\ route # <<Drive!Vfat, "hdd">>
  <2>1. Drive!First = "image"
    BY <1>3 DEF Drive!First
  <2>2. QED
    BY <1>3, <2>1 DEF Drive!Fits
<1>4. QED
  BY <1>1, <1>2, <1>3

-----------------------------------------------------------------------------
(* The order of the search. *)

\* An order is a sequence with each member of the set.
LEMMA SeqsFacts ==
  ASSUME NEW S, IsFiniteSet(S), NEW s \in Drive!SetToSeqs(S)
  PROVE  /\ s \in Seq(S) /\ Len(s) = Cardinality(S) /\ Len(s) \in Nat
         /\ \A x \in S : \E i \in 1 .. Len(s) : s[i] = x
<1>0. Cardinality(S) \in Nat /\ Drive!Cardinality(S) = Cardinality(S)
  BY FS_CardinalityType DEF Drive!Cardinality, Cardinality
<1> DEFINE D == 1 .. Cardinality(S)
<1>1. s \in [D -> S] /\ \A i, j \in D : i # j => s[i] # s[j]
  BY <1>0 DEF Drive!SetToSeqs
<1>2. s \in Injection(D, S)
  BY <1>1, Zenon DEF Injection, IsInjective
<1>3. IsFiniteSet(D) /\ Cardinality(D) = Cardinality(S)
  BY <1>0, FS_Interval
<1>4. s \in Surjection(D, S)
  BY <1>2, <1>3, FS_Injection
<1>5. s \in Seq(S) /\ Len(s) = Cardinality(S)
  BY <1>0, <1>1
<1>6. QED
  BY <1>0, <1>4, <1>5 DEF Surjection

LEMMA Mono ==
  ASSUME NEW L \in Nat, NEW a \in Nat, NEW b \in Nat, a <= b
  PROVE  a * L <= b * L
OBVIOUS

\* Division with a remainder.
LEMMA Quotient ==
  ASSUME NEW x \in Nat, NEW L \in Nat \ {0}
  PROVE  /\ x \div L \in Nat /\ x % L \in 0 .. L - 1
         /\ x = (x \div L) * L + (x % L)
OBVIOUS

LEMMA Division ==
  ASSUME NEW L \in Nat \ {0}, NEW a \in Nat, NEW b \in 0 .. L - 1
  PROVE  (a * L + b) \div L = a /\ (a * L + b) % L = b
<1> DEFINE x == a * L + b
           q == x \div L
           r == x % L
<1>1. x \in Nat /\ a * L \in Nat
  OBVIOUS
<1>2. q \in Nat /\ r \in 0 .. L - 1 /\ x = q * L + r
  BY <1>1, Quotient
<1> HIDE DEF q, r
<1>3. q * L \in Nat
  BY <1>2
<1>4. ~(q >= a + 1)
  <2>1. SUFFICES ASSUME q >= a + 1 PROVE FALSE
    OBVIOUS
  <2>2. (a + 1) * L <= q * L
    BY <1>2, <2>1, Mono
  <2>3. (a + 1) * L = a * L + L
    OBVIOUS
  <2>4. QED
    BY <1>1, <1>2, <1>3, <2>2, <2>3
<1>5. ~(q + 1 <= a)
  <2>1. SUFFICES ASSUME q + 1 <= a PROVE FALSE
    OBVIOUS
  <2>2. (q + 1) * L <= a * L
    BY <1>2, <2>1, Mono
  <2>3. (q + 1) * L = q * L + L
    BY <1>2
  <2>4. QED
    BY <1>1, <1>2, <1>3, <2>2, <2>3
<1>6. q = a
  BY <1>2, <1>4, <1>5
<1>7. r = b
  BY <1>1, <1>2, <1>6
<1>8. QED
  BY <1>6, <1>7 DEF q, r

LEMMA Within ==
  ASSUME NEW L \in Nat \ {0}, NEW n \in Nat, NEW x \in 0 .. n * L - 1
  PROVE  x \div L \in 0 .. n - 1
<1>1. x \in Nat /\ n * L \in Nat
  OBVIOUS
<1>2. x \div L \in Nat /\ x % L \in 0 .. L - 1 /\ x = (x \div L) * L + (x % L)
  BY <1>1, Quotient
<1>3. CASE n <= x \div L
  <2>1. n * L <= (x \div L) * L
    BY <1>2, <1>3, Mono
  <2>2. (x \div L) * L \in Nat
    BY <1>2
  <2>3. QED
    BY <1>1, <1>2, <2>1, <2>2
<1>4. QED
  BY <1>2, <1>3

\* Positions in a product, counted from one.
LEMMA PositionIn ==
  ASSUME NEW m \in Nat, NEW n \in Nat, NEW i \in 1 .. m * n
  PROVE  ((i - 1) \div n) + 1 \in 1 .. m /\ ((i - 1) % n) + 1 \in 1 .. n
<1>1. m * n \in Nat
  OBVIOUS
<1>2. n # 0
  BY <1>1
<1>3. i - 1 \in 0 .. m * n - 1 /\ i - 1 \in Nat
  BY <1>1
<1>4. (i - 1) \div n \in 0 .. m - 1
  BY <1>2, <1>3, Within
<1>5. (i - 1) % n \in 0 .. n - 1
  BY <1>2, <1>3, Quotient
<1>6. QED
  BY <1>4, <1>5

AtPosition(i, n, a, b) == ((i - 1) \div n) + 1 = a /\ ((i - 1) % n) + 1 = b

LEMMA PositionOf ==
  ASSUME NEW m \in Nat, NEW n \in Nat, NEW a \in 1 .. m, NEW b \in 1 .. n
  PROVE  \E i \in 1 .. m * n : AtPosition(i, n, a, b)
<1> DEFINE i == (a - 1) * n + b
<1>1. n \in Nat \ {0} /\ a - 1 \in Nat /\ b - 1 \in 0 .. n - 1 /\ a \in Nat /\ b \in Nat
  OBVIOUS
<1>2. (a - 1) * n \in Nat /\ a * n \in Nat /\ m * n \in Nat /\ a * n = (a - 1) * n + n
  BY <1>1
<1>3. ((a - 1) * n + (b - 1)) \div n = a - 1 /\ ((a - 1) * n + (b - 1)) % n = b - 1
  BY <1>1, Division
<1>4. i - 1 = (a - 1) * n + (b - 1)
  BY <1>1, <1>2
<1>5. a * n <= m * n
  BY <1>1, Mono
<1>6. i \in 1 .. m * n
  BY <1>1, <1>2, <1>5
<1>7. AtPosition(i, n, a, b)
  BY <1>1, <1>3, <1>4 DEF AtPosition
<1>8. QED
  BY <1>6, <1>7

\* The product of two sequences has each pair of their members.
HasPairs(p, s, t) ==
  \A a \in 1 .. Len(s), b \in 1 .. Len(t) : \E i \in 1 .. Len(p) : p[i] = <<s[a], t[b]>>

LEMMA ProductFacts ==
  ASSUME NEW A, NEW B, NEW types \in Seq(A), NEW locations \in Seq(B)
  PROVE  /\ Drive!Product(types, locations) \in Seq(A \X B)
         /\ HasPairs(Drive!Product(types, locations), types, locations)
<1> DEFINE m == Len(types)
           n == Len(locations)
           p == Drive!Product(types, locations)
<1>1. m \in Nat /\ n \in Nat /\ m * n \in Nat
  OBVIOUS
<1>2. p = [i \in 1 .. m * n |-> <<types[((i - 1) \div n) + 1], locations[((i - 1) % n) + 1]>>]
  BY DEF Drive!Product
<1>3. /\ \A a \in 1 .. m : types[a] \in A
      /\ \A b \in 1 .. n : locations[b] \in B
  OBVIOUS
<1> HIDE DEF m, n, p
<1>4. \A i \in 1 .. m * n : p[i] \in A \X B
  <2>1. TAKE i \in 1 .. m * n
  <2>2. ((i - 1) \div n) + 1 \in 1 .. m /\ ((i - 1) % n) + 1 \in 1 .. n
    BY <1>1, PositionIn
  <2>3. types[((i - 1) \div n) + 1] \in A /\ locations[((i - 1) % n) + 1] \in B
    BY <1>3, <2>2
  <2>4. QED
    BY <1>2, <2>3
<1>5. p \in Seq(A \X B) /\ Len(p) = m * n
  <2>1. p \in [1 .. m * n -> A \X B]
    BY <1>2, <1>4
  <2>2. QED
    BY <1>1, <2>1
<1>6. ASSUME NEW a \in 1 .. m, NEW b \in 1 .. n
      PROVE  \E i \in 1 .. Len(p) : p[i] = <<types[a], locations[b]>>
  <2>1. PICK i \in 1 .. m * n : AtPosition(i, n, a, b)
    BY <1>1, PositionOf
  <2>2. p[i] = <<types[a], locations[b]>>
    BY <1>2, <2>1 DEF AtPosition
  <2>3. QED
    BY <1>5, <2>2
<1>7. QED
  BY <1>5, <1>6 DEF HasPairs, m, n, p

\* The order in which a machine is searched has each type at each location.
LEMMA OrderFacts ==
  ASSUME machine \in {c.machine : c \in Clouds}, NEW order \in Drive!Orders
  PROVE  /\ order \in Seq(Pairs) /\ Len(order) \in Nat
         /\ \A r \in Types \X Locations : \E i \in 1 .. Len(order) : order[i] = r
<1>1. PICK types \in Drive!SetToSeqs(Types), locations \in Drive!SetToSeqs(Locations) :
        order = Drive!Product(types, locations)
  BY DEF Drive!Orders, Types, Locations
<1>2. IsFiniteSet(Types) /\ IsFiniteSet(Locations)
  <2>1. /\ IsFiniteSet({Drive!Iso}) /\ IsFiniteSet({Drive!Vfat})
        /\ IsFiniteSet({"cdrom"}) /\ IsFiniteSet({"hdd"}) /\ IsFiniteSet({"partition"})
    BY FS_Singleton
  <2>2. IsFiniteSet({Drive!Iso} \cup {Drive!Vfat})
    BY <2>1, FS_Union
  <2>3. IsFiniteSet({"cdrom"} \cup {"hdd"})
    BY <2>1, FS_Union
  <2>4. IsFiniteSet(({"cdrom"} \cup {"hdd"}) \cup {"partition"})
    BY <2>1, <2>3, FS_Union
  <2>5. /\ Types \subseteq {Drive!Iso} \cup {Drive!Vfat}
        /\ Locations \subseteq ({"cdrom"} \cup {"hdd"}) \cup {"partition"}
    BY MachineFacts DEF Places
  <2>6. QED
    BY <2>2, <2>4, <2>5, FS_Subset
<1>3. /\ types \in Seq(Types) /\ \A x \in Types : \E i \in 1 .. Len(types) : types[i] = x
      /\ locations \in Seq(Locations)
      /\ \A x \in Locations : \E i \in 1 .. Len(locations) : locations[i] = x
  BY <1>2, SeqsFacts
<1>4. order \in Seq(Types \X Locations) /\ HasPairs(order, types, locations)
  BY <1>1, <1>3, ProductFacts
<1>5. Types \X Locations \subseteq Pairs
  BY MachineFacts DEF Pairs
<1>6. order \in Seq(Pairs) /\ Len(order) \in Nat
  BY <1>4, <1>5
<1>7. ASSUME NEW r \in Types \X Locations
      PROVE  \E i \in 1 .. Len(order) : order[i] = r
  <2>1. PICK x \in Types, y \in Locations : r = <<x, y>>
    OBVIOUS
  <2>2. PICK a \in 1 .. Len(types) : types[a] = x
    BY <1>3
  <2>3. PICK b \in 1 .. Len(locations) : locations[b] = y
    BY <1>3
  <2>4. QED
    BY <1>4, <2>1, <2>2, <2>3 DEF HasPairs
<1>8. QED
  BY <1>6, <1>7

-----------------------------------------------------------------------------
(* Types. *)

\* Where the search is.
PlaceInv ==
  /\ drivePc \in {"idle", "search", "look", "over"} \cup Copying
  /\ machine \in {c.machine : c \in Clouds}
  /\ label \in Drive!Labels \cup {"none"}
  /\ routes \in Seq(Pairs)
  /\ route \in Pairs \cup {Drive!NoRoute}
  /\ todo \subseteq machine.devices
  /\ taken \in machine.devices \cup {Drive!NoDevice}
  /\ drivePc \in Copying => taken \in machine.devices
  /\ failures \in 0 .. MaxFailures

\* What is in the folder, and in the hand of load().
FolderInv ==
  /\ folder = Drive!NoFolder \/ folder \subseteq machine.devices \X {"part", "whole"}
  /\ found \in BOOLEAN

DriveTypeInv == PlaceInv /\ FolderInv

LEMMA DriveTypesAreNamed ==
  ASSUME DriveTypeInv
  PROVE  Drive!TypeOK
<1>1. machine.devices \subseteq Drive!Device
  BY MachineFacts DEF DriveTypeInv, PlaceInv
<1>2. \A r \in {route} \cup {routes[i] : i \in DOMAIN routes} :
        r = Drive!NoRoute \/ r \in Pairs
  BY DEF DriveTypeInv, PlaceInv
<1>3. QED
  BY <1>1, <1>2 DEF DriveTypeInv, PlaceInv, FolderInv, Pairs, Places, Copying, Drive!TypeOK

LEMMA LoadTypeInv ==
  ASSUME DriveTypeInv, NEW l \in Drive!Labels, Drive!Load(l)
  PROVE  DriveTypeInv'
<1>1. routes' \in Seq(Pairs)
  BY OrderFacts DEF Drive!Load, DriveTypeInv, PlaceInv
<1>2. PlaceInv'
  BY <1>1 DEF Drive!Load, DriveTypeInv, PlaceInv, Copying
<1>3. FolderInv'
  BY DEF Drive!Load, FolderInv
<1>4. QED
  BY <1>2, <1>3 DEF DriveTypeInv

LEMMA FailingCounts ==
  ASSUME failures \in 0 .. MaxFailures, Drive!Failing
  PROVE  failures' \in 0 .. MaxFailures /\ failures' # 0
BY MetadataServicesAssumption DEF Drive!Failing

LEMMA NextMachine ==
  ASSUME Drive!Next
  PROVE  UNCHANGED <<machine, label>>
BY DEF Drive!Next, Drive!List, Drive!ListFails, Drive!Exhausted, Drive!OpenDisk, Drive!BlankDisk,
       Drive!Return, Drive!Look, Drive!RemoveFolder, Drive!RemoveFolderRaises, Drive!CopyTree,
       Drive!CopyTreeRaises, Drive!Mcopy, Drive!McopyEndsEarly, Drive!McopyRaises,
       Drive!WriteImage, Drive!WriteImageRaises, Drive!Extract, Drive!ExtractEndsEarly,
       Drive!ExtractFails, Drive!RemoveImageRaises, Drive!Take, Drive!Leave

LEMMA NextPlaceInv ==
  ASSUME PlaceInv, Drive!Next
  PROVE  PlaceInv'
<1> USE DEF PlaceInv
<1>1. CASE Drive!List
  <2>1. Head(routes) \in Pairs /\ Tail(routes) \in Seq(Pairs)
    BY <1>1 DEF Drive!List
  <2>2. QED
    BY <1>1, <2>1 DEF Drive!List, Drive!Listed, Copying
<1>2. CASE Drive!Look
  <2>1. Drive!First \in Copying
    BY FirstFacts DEF Copying
  <2>2. QED
    BY <1>2, <2>1 DEF Drive!Look, Drive!Ready, Copying
<1>3. CASE Drive!Exhausted \/ Drive!OpenDisk \/ Drive!BlankDisk
  BY <1>3 DEF Drive!Exhausted, Drive!OpenDisk, Drive!BlankDisk, Drive!Partitions, Copying
<1>9. CASE Drive!Return
  <2>1. routes' = <<>> /\ <<>> \in Seq(Pairs)
    BY <1>9 DEF Drive!Return
  <2>2. QED
    BY <1>9, <2>1 DEF Drive!Return, Copying
<1>4. CASE Drive!ListFails
  BY <1>4, FailingCounts DEF Drive!ListFails, Copying
<1>5. CASE Drive!RemoveFolder \/ Drive!RemoveFolderRaises \/ Drive!McopyRaises \/ Drive!WriteImage
           \/ Drive!ExtractEndsEarly
  BY <1>5
  DEF Drive!RemoveFolder, Drive!RemoveFolderRaises, Drive!McopyRaises, Drive!WriteImage,
      Drive!ExtractEndsEarly, Drive!Leave, Copying
<1>6. CASE Drive!CopyTree \/ Drive!Mcopy \/ Drive!Extract
  BY <1>6 DEF Drive!CopyTree, Drive!Mcopy, Drive!Extract, Drive!Take, Copying
<1>7. CASE Drive!CopyTreeRaises \/ Drive!McopyEndsEarly \/ Drive!WriteImageRaises
           \/ Drive!ExtractFails \/ Drive!RemoveImageRaises
  BY <1>7, FailingCounts
  DEF Drive!CopyTreeRaises, Drive!McopyEndsEarly, Drive!WriteImageRaises, Drive!ExtractFails,
      Drive!RemoveImageRaises, Drive!Leave, Drive!Take, Copying
<1>8. QED
  BY <1>1, <1>2, <1>3, <1>4, <1>5, <1>6, <1>7, <1>9 DEF Drive!Next

LEMMA NextFolderInv ==
  ASSUME DriveTypeInv, Drive!Next
  PROVE  FolderInv'
<1> DEFINE Contents == SUBSET (machine.devices \X {"part", "whole"})
<1>1. UNCHANGED machine
  BY NextMachine
<1>2. found' \in BOOLEAN
  BY DEF DriveTypeInv, FolderInv, Drive!Next, Drive!List, Drive!ListFails, Drive!Exhausted,
         Drive!OpenDisk, Drive!BlankDisk, Drive!Return, Drive!Look, Drive!RemoveFolder,
         Drive!RemoveFolderRaises, Drive!CopyTree, Drive!CopyTreeRaises, Drive!Mcopy,
         Drive!McopyEndsEarly, Drive!McopyRaises, Drive!WriteImage, Drive!WriteImageRaises,
         Drive!Extract, Drive!ExtractEndsEarly, Drive!ExtractFails, Drive!RemoveImageRaises,
         Drive!Take, Drive!Leave
<1>3. drivePc \in Copying => Drive!Whole \in Contents /\ Drive!Part \in Contents
  BY DEF DriveTypeInv, PlaceInv, Drive!Whole, Drive!Part
<1>4. folder = Drive!NoFolder \/ folder \in Contents
  BY DEF DriveTypeInv, FolderInv
<1>5. folder' = Drive!NoFolder \/ folder' \in Contents
  <2>1. CASE UNCHANGED folder
    BY <1>4, <2>1
  <2>2. CASE Drive!RemoveFolder
    BY <2>2 DEF Drive!RemoveFolder, Drive!Leave
  <2>3. CASE \/ Drive!CopyTree \/ Drive!CopyTreeRaises \/ Drive!Mcopy \/ Drive!McopyEndsEarly
             \/ Drive!Extract \/ Drive!ExtractEndsEarly \/ Drive!ExtractFails
             \/ Drive!RemoveImageRaises
    BY <1>3, <1>4, <2>3
    DEF Drive!CopyTree, Drive!CopyTreeRaises, Drive!Mcopy, Drive!McopyEndsEarly, Drive!Extract,
        Drive!ExtractEndsEarly, Drive!ExtractFails, Drive!RemoveImageRaises, Drive!Take,
        Drive!Leave, Copying
  <2>4. QED
    BY <2>1, <2>2, <2>3
    DEF Drive!Next, Drive!List, Drive!ListFails, Drive!Exhausted, Drive!OpenDisk, Drive!BlankDisk,
        Drive!Return, Drive!Look, Drive!RemoveFolderRaises, Drive!McopyRaises, Drive!WriteImage,
        Drive!WriteImageRaises, Drive!Leave
<1>6. QED
  BY <1>1, <1>2, <1>5 DEF FolderInv

LEMMA NextDriveTypeInv ==
  ASSUME DriveTypeInv, Drive!Next
  PROVE  DriveTypeInv'
BY NextPlaceInv, NextFolderInv DEF DriveTypeInv

-----------------------------------------------------------------------------
(* What is taken. *)

\* The device that is copied or extracted is one that may be taken.
TakenInv ==
  /\ drivePc \in {"rmdir", "copy"} =>
       Drive!First = "rmdir" /\ Drive!IsConfigDrive(taken)
  /\ drivePc = "copy" => folder = Drive!NoFolder
  /\ drivePc = "mcopy" => Drive!First = "mcopy" /\ Drive!IsVfatDrive(taken)
  /\ drivePc \in {"image", "extract"} => Drive!First = "image"
  /\ found => drivePc \in {"idle", "search", "over"}

\* Before anything is found, and while nothing fails, the folder is empty.
CleanInv ==
  failures = 0 /\ Drive!Fit16 /\ ~found /\ drivePc # "idle" =>
    folder = IF drivePc = "copy" THEN Drive!NoFolder ELSE {}

\* What DriveIsWhole says, from the moment that something is found.
FoundInv ==
  found /\ drivePc \in {"search", "over"} =>
    CASE Drive!First = "rmdir" -> Drive!IsConfigDrive(taken) /\ folder = Drive!Whole
      [] Drive!First = "mcopy" ->
           taken.label = label /\ (failures = 0 => Drive!Whole \subseteq folder)
      [] Drive!First = "image" ->
           /\ Drive!Whole \subseteq folder
           /\ failures = 0 /\ Drive!Fit16 => folder = Drive!Whole

\* A step to a call that takes something.
LEMMA NextTakenInv ==
  ASSUME DriveTypeInv, TakenInv, Drive!Next
  PROVE  TakenInv'
<1>1. CASE Drive!Look
  <2>1. drivePc = "look" /\ UNCHANGED <<route, label, folder, found>>
    BY <1>1 DEF Drive!Look
  <2>2. ~found'
    BY <2>1 DEF TakenInv
  <2>3. Drive!First' = Drive!First
    BY <2>1 DEF Drive!First
  <2>4. CASE drivePc' = "look"
    BY <2>2, <2>4 DEF TakenInv
  <2>5. CASE drivePc' = Drive!First /\ Drive!Fits(taken')
    <3>1. CASE Drive!First = "rmdir"
      <4>1. Drive!IsConfigDrive(taken)'
        BY <2>1, <2>5, <3>1, FirstFacts DEF Drive!IsConfigDrive
      <4>2. QED
        BY <2>2, <2>3, <2>5, <3>1, <4>1 DEF TakenInv
    <3>2. CASE Drive!First = "mcopy"
      <4>1. Drive!IsVfatDrive(taken)'
        BY <2>1, <2>5, <3>2, FirstFacts DEF Drive!IsVfatDrive
      <4>2. QED
        BY <2>2, <2>3, <2>5, <3>2, <4>1 DEF TakenInv
    <3>3. CASE Drive!First = "image"
      BY <2>2, <2>3, <2>5, <3>3 DEF TakenInv
    <3>4. QED
      BY <3>1, <3>2, <3>3, FirstFacts
  <2>6. QED
    BY <1>1, <2>1, <2>4, <2>5 DEF Drive!Look, Drive!Ready
<1>2. CASE Drive!RemoveFolder
  <2>1. /\ drivePc = "rmdir" /\ drivePc' = "copy" /\ folder' = Drive!NoFolder
        /\ UNCHANGED <<route, label, taken, found>>
    BY <1>2 DEF Drive!RemoveFolder, Drive!Leave
  <2>2. Drive!First' = Drive!First /\ Drive!IsConfigDrive(taken)' = Drive!IsConfigDrive(taken)
    BY <2>1 DEF Drive!First, Drive!IsConfigDrive
  <2>3. QED
    BY <2>1, <2>2 DEF TakenInv
<1>3. CASE Drive!WriteImage
  <2>1. drivePc = "image" /\ drivePc' = "extract" /\ UNCHANGED <<route, found>>
    BY <1>3 DEF Drive!WriteImage, Drive!Leave
  <2>2. Drive!First' = Drive!First
    BY <2>1 DEF Drive!First
  <2>3. QED
    BY <2>1, <2>2 DEF TakenInv
<1>4. CASE drivePc' \in {"search", "over"}
  BY <1>4 DEF TakenInv
<1>5. CASE drivePc' = "look" /\ ~found'
  BY <1>5 DEF TakenInv
<1>6. CASE \/ Drive!List \/ Drive!OpenDisk \/ Drive!WriteImageRaises
           \/ Drive!ExtractEndsEarly \/ Drive!ExtractFails
  <2>1. drivePc' = "look" /\ (found' => found)
    BY <1>6
    DEF Drive!List, Drive!OpenDisk, Drive!WriteImageRaises, Drive!ExtractEndsEarly,
        Drive!ExtractFails, Drive!Leave
  <2>2. ~found
    BY <1>6
    DEF TakenInv, Drive!List, Drive!OpenDisk, Drive!WriteImageRaises, Drive!ExtractEndsEarly,
        Drive!ExtractFails
  <2>3. QED
    BY <1>5, <2>1, <2>2
<1>7. QED
  BY <1>1, <1>2, <1>3, <1>4, <1>6
  DEF Drive!Next, Drive!ListFails, Drive!Exhausted, Drive!BlankDisk, Drive!Return,
      Drive!RemoveFolderRaises, Drive!CopyTree, Drive!CopyTreeRaises, Drive!Mcopy,
      Drive!McopyEndsEarly, Drive!McopyRaises, Drive!Extract, Drive!RemoveImageRaises,
      Drive!Take, Drive!Leave

\* A failure is counted, and an image that fits two bytes is extracted to the end.
LEMMA NextCleanInv ==
  ASSUME DriveTypeInv, TakenInv, CleanInv, Drive!Next
  PROVE  CleanInv'
<1>1. SUFFICES ASSUME failures' = 0, Drive!Fit16', ~found', drivePc' # "idle"
               PROVE  folder' = IF drivePc' = "copy" THEN Drive!NoFolder ELSE {}
  BY DEF CleanInv
<1>2. UNCHANGED machine
  BY NextMachine
<1>3. ~Drive!Failing
  BY <1>1, FailingCounts DEF DriveTypeInv, PlaceInv
<1>4. Drive!Fit16
  BY <1>1, <1>2 DEF Drive!Fit16
<1>5. /\ drivePc # "idle" /\ UNCHANGED failures
      /\ found => found'
  BY <1>3
  DEF Drive!Next, Drive!List, Drive!ListFails, Drive!Exhausted, Drive!OpenDisk, Drive!BlankDisk,
      Drive!Return, Drive!Look, Drive!RemoveFolder, Drive!RemoveFolderRaises, Drive!CopyTree,
      Drive!CopyTreeRaises, Drive!Mcopy, Drive!McopyEndsEarly, Drive!McopyRaises, Drive!WriteImage,
      Drive!WriteImageRaises, Drive!Extract, Drive!ExtractEndsEarly, Drive!ExtractFails,
      Drive!RemoveImageRaises, Drive!Take, Drive!Leave
<1>6. folder = IF drivePc = "copy" THEN Drive!NoFolder ELSE {}
  BY <1>1, <1>4, <1>5 DEF CleanInv
<1>7. Drive!NoFolder # {}
  BY DEF Drive!NoFolder
<1>8. CASE Drive!RemoveFolder
  BY <1>8 DEF Drive!RemoveFolder, Drive!Leave
<1>9. CASE Drive!ExtractEndsEarly
  <2>1. drivePc = "extract" /\ (folder = Drive!NoFolder \/ taken.blocks >= Drive!TwoBytes)
    BY <1>9 DEF Drive!ExtractEndsEarly
  <2>2. taken \in machine.devices /\ taken.blocks \in Nat
    BY <2>1, MachineFacts DEF DriveTypeInv, PlaceInv, Copying
  <2>3. taken.blocks < Drive!TwoBytes /\ Drive!TwoBytes \in Nat
    BY <1>4, <2>2 DEF Drive!Fit16, Drive!TwoBytes
  <2>4. QED
    BY <1>6, <1>7, <2>1, <2>2, <2>3
<1>10. CASE Drive!CopyTree \/ Drive!Mcopy \/ Drive!Extract
  BY <1>1, <1>10 DEF Drive!CopyTree, Drive!Mcopy, Drive!Extract, Drive!Take
<1>11. CASE \/ Drive!List \/ Drive!ListFails \/ Drive!Exhausted \/ Drive!Return
            \/ Drive!OpenDisk \/ Drive!BlankDisk
            \/ Drive!RemoveFolderRaises \/ Drive!McopyRaises \/ Drive!WriteImage
  BY <1>6, <1>11
  DEF Drive!List, Drive!ListFails, Drive!Exhausted, Drive!OpenDisk, Drive!BlankDisk, Drive!Return,
      Drive!RemoveFolderRaises, Drive!McopyRaises, Drive!WriteImage, Drive!Leave
<1>12. CASE Drive!Look
  <2>1. drivePc = "look" /\ UNCHANGED folder /\ drivePc' \in {"look", Drive!First}
    BY <1>12 DEF Drive!Look
  <2>2. drivePc' # "copy"
    BY <2>1, FirstFacts
  <2>3. QED
    BY <1>6, <2>1, <2>2
<1>13. QED
  BY <1>3, <1>8, <1>9, <1>10, <1>11, <1>12
  DEF Drive!Next, Drive!CopyTreeRaises, Drive!McopyEndsEarly, Drive!WriteImageRaises,
      Drive!ExtractFails, Drive!RemoveImageRaises

\* What ends a copy or an extraction with success has made the folder whole.
LEMMA NextFoundInv ==
  ASSUME DriveTypeInv, TakenInv, CleanInv, FoundInv, Drive!Next
  PROVE  FoundInv'
<1>1. UNCHANGED <<machine, label>> /\ Drive!Fit16' = Drive!Fit16
  BY NextMachine DEF Drive!Fit16
<1>2. CASE ~(found' /\ drivePc' \in {"search", "over"})
  BY <1>2 DEF FoundInv
<1>3. CASE found /\ drivePc' \in {"search", "over"}
  <2>1. UNCHANGED <<route, taken, folder, found, failures>> /\ drivePc = "search"
    BY <1>3
    DEF TakenInv, Drive!Next, Drive!List, Drive!ListFails, Drive!Exhausted, Drive!OpenDisk,
        Drive!BlankDisk, Drive!Return, Drive!Look, Drive!RemoveFolder, Drive!RemoveFolderRaises,
        Drive!CopyTree, Drive!CopyTreeRaises, Drive!Mcopy, Drive!McopyEndsEarly, Drive!McopyRaises,
        Drive!WriteImage, Drive!WriteImageRaises, Drive!Extract, Drive!ExtractEndsEarly,
        Drive!ExtractFails, Drive!RemoveImageRaises
  <2>2. /\ Drive!First' = Drive!First /\ Drive!Whole' = Drive!Whole
        /\ Drive!IsConfigDrive(taken)' = Drive!IsConfigDrive(taken)
    BY <1>1, <2>1 DEF Drive!First, Drive!Whole, Drive!IsConfigDrive
  <2>3. QED
    BY <1>1, <1>3, <2>1, <2>2 DEF FoundInv
<1>4. CASE Drive!CopyTree
  <2>1. /\ drivePc = "copy" /\ folder' = Drive!Whole /\ UNCHANGED <<route, taken>>
    BY <1>4 DEF Drive!CopyTree, Drive!Take, TakenInv
  <2>2. Drive!First = "rmdir" /\ Drive!IsConfigDrive(taken)
    BY <2>1 DEF TakenInv
  <2>3. /\ Drive!First' = Drive!First /\ Drive!Whole' = Drive!Whole
        /\ Drive!IsConfigDrive(taken)' = Drive!IsConfigDrive(taken)
    BY <1>1, <2>1 DEF Drive!First, Drive!Whole, Drive!IsConfigDrive
  <2>4. QED
    BY <2>1, <2>2, <2>3 DEF FoundInv
<1>5. CASE Drive!Mcopy \/ Drive!McopyEndsEarly
  <2>1. /\ drivePc = "mcopy" /\ UNCHANGED <<route, taken>>
        /\ failures' = 0 => folder' = folder \cup Drive!Whole
    <3>1. CASE Drive!Mcopy
      BY <3>1 DEF Drive!Mcopy, Drive!Take
    <3>2. CASE Drive!McopyEndsEarly
      BY <3>2, FailingCounts DEF Drive!McopyEndsEarly, Drive!Take, DriveTypeInv, PlaceInv
    <3>3. QED
      BY <1>5, <3>1, <3>2
  <2>2. Drive!First = "mcopy" /\ taken.label = label
    BY <2>1 DEF TakenInv, Drive!IsVfatDrive
  <2>3. Drive!First' = Drive!First /\ Drive!Whole' = Drive!Whole
    BY <1>1, <2>1 DEF Drive!First, Drive!Whole
  <2>4. failures' = 0 => Drive!Whole \subseteq folder'
    BY <2>1
  <2>5. QED
    BY <1>1, <2>1, <2>2, <2>3, <2>4 DEF FoundInv
<1>6. CASE Drive!Extract
  <2>1. /\ drivePc = "extract" /\ UNCHANGED <<route, taken, failures>>
        /\ folder' = folder \cup Drive!Whole
    BY <1>6 DEF Drive!Extract, Drive!Take
  <2>2. Drive!First = "image" /\ ~found
    BY <2>1 DEF TakenInv
  <2>3. failures = 0 /\ Drive!Fit16 => folder = {}
    BY <2>1, <2>2 DEF CleanInv
  <2>4. Drive!First' = Drive!First /\ Drive!Whole' = Drive!Whole
    BY <2>1 DEF Drive!First, Drive!Whole
  <2>5. /\ Drive!Whole \subseteq folder'
        /\ failures = 0 /\ Drive!Fit16 => folder' = Drive!Whole
    BY <2>1, <2>3
  <2>6. QED
    BY <1>1, <2>1, <2>2, <2>4, <2>5 DEF FoundInv
<1>7. CASE ~found /\ ~(Drive!CopyTree \/ Drive!Mcopy \/ Drive!McopyEndsEarly \/ Drive!Extract)
  <2>1. ~found'
    BY <1>7
    DEF Drive!Next, Drive!List, Drive!ListFails, Drive!Exhausted, Drive!OpenDisk, Drive!BlankDisk,
        Drive!Return, Drive!Look, Drive!RemoveFolder, Drive!RemoveFolderRaises,
        Drive!CopyTreeRaises, Drive!McopyRaises, Drive!WriteImage, Drive!WriteImageRaises,
        Drive!ExtractEndsEarly, Drive!ExtractFails, Drive!RemoveImageRaises, Drive!Leave
  <2>2. QED
    BY <2>1 DEF FoundInv
<1>8. QED
  BY <1>2, <1>3, <1>4, <1>5, <1>6, <1>7

-----------------------------------------------------------------------------
(* What is missed. *)

Ahead(r) == \E i \in 1 .. Len(routes) : routes[i] = r

\* A device of the type and location that are searched, or its disk, remains.
Remains(d) ==
  d \in todo \/ (d.where = "partition" /\ \E e \in todo : e.where = "disk" /\ e.disk = d.disk)

\* What is listed for a search.
OnRoute(d, r) ==
  d.where = Drive!Where(r) \/ (d.where = "disk" /\ Drive!Where(r) = "partition")

\* While nothing fails, what is not ahead has been looked at, and was not the drive.
SearchedInv ==
  failures = 0 /\ Drive!Fit16 /\ ~found =>
    /\ drivePc \in {"search", "over"} =>
         \A r \in Types \X Locations :
           Ahead(r) \/ \A d \in machine.devices : ~Drive!ReachedBy(r, d)
    /\ drivePc = "look" =>
         \A r \in Types \X Locations :
           Ahead(r) \/ \A d \in machine.devices : Drive!ReachedBy(r, d) => r = route /\ Remains(d)
    /\ drivePc = "look" => \A d \in todo : OnRoute(d, route)
    /\ drivePc = "over" => routes = <<>>

\* A drive that the search reaches fits.
LEMMA ReachedFits ==
  ASSUME DriveTypeInv, Drive!Fit16, NEW d \in machine.devices, Drive!ReachedBy(route, d)
  PROVE  Drive!Fits(d) /\ ~Drive!NoTools
<1>0. Drive!Where(<<Drive!Vfat, "hdd">>) \notin {"cdrom", "volume"}
  BY DEF Drive!Where, Drive!Vfat, Drive!Iso
<1>1. CASE Drive!First = "rmdir"
  <2>1. Drive!Where(route) \in {"cdrom", "volume"}
    BY <1>1, FirstFacts
  <2>2. Drive!IsConfigDrive(d)
    BY <1>0, <2>1 DEF Drive!ReachedBy, Drive!IsConfigDrive
  <2>3. QED
    BY <1>1, <2>2, FirstFacts DEF Drive!NoTools
<1>2. CASE Drive!First = "mcopy"
  <2>1. route = <<Drive!Vfat, "hdd">> /\ Drive!Where(route) \notin {"cdrom", "volume"}
    BY <1>0, <1>2, FirstFacts
  <2>2. d.format = "vfat" /\ d.label = label /\ machine.config.mtools
    BY <2>1 DEF Drive!ReachedBy
  <2>3. QED
    BY <1>2, <2>2, FirstFacts DEF Drive!NoTools, Drive!IsVfatDrive
<1>3. CASE Drive!First = "image"
  <2>1. route # <<Drive!Vfat, "hdd">> /\ Drive!Where(route) \notin {"cdrom", "volume"}
    BY <1>3, FirstFacts DEF Drive!First
  <2>2. d.format = "iso" /\ d.fixed /\ d.long
    BY <2>1 DEF Drive!ReachedBy
  <2>3. d.blocks \in Nat /\ d.blocks > 0 /\ d.blocks < 65536
    BY <2>2, MachineFacts DEF DriveTypeInv, PlaceInv, Drive!Fit16, Drive!TwoBytes
  <2>4. d.blocks % 65536 = d.blocks
    BY <2>3
  <2>5. Drive!IsoFileSize(d) > 0
    BY <2>2, <2>3, <2>4 DEF Drive!IsoFileSize, Drive!TwoBytes
  <2>6. QED
    BY <1>3, <2>5, FirstFacts DEF Drive!NoTools
<1>4. QED
  BY <1>1, <1>2, <1>3, FirstFacts

\* Which device a search reaches does not change while it is looked for.
LEMMA ReachedStays ==
  ASSUME UNCHANGED <<machine, label>>
  PROVE  /\ Types' = Types /\ Locations' = Locations
         /\ \A r, d : Drive!ReachedBy(r, d)' = Drive!ReachedBy(r, d)
BY DEF Types, Locations, Drive!ReachedBy, Drive!AllPartitioned, Drive!SearchedTypes,
  Drive!SearchedLocations

LEMMA NextSearchedInv ==
  ASSUME DriveTypeInv, TakenInv, CleanInv, SearchedInv, Drive!Next
  PROVE  SearchedInv'
<1>1. SUFFICES ASSUME failures' = 0, Drive!Fit16', ~found'
               PROVE  /\ drivePc' \in {"search", "over"} =>
                           \A r \in (Types \X Locations)' :
                             Ahead(r)' \/ \A d \in machine'.devices : ~Drive!ReachedBy(r, d)'
                      /\ drivePc' = "look" =>
                           \A r \in (Types \X Locations)' :
                             \/ Ahead(r)'
                             \/ \A d \in machine'.devices :
                                  Drive!ReachedBy(r, d)' => r = route' /\ Remains(d)'
                      /\ drivePc' = "look" => \A d \in todo' : OnRoute(d, route')
                      /\ drivePc' = "over" => routes' = <<>>
  BY DEF SearchedInv
<1>2. UNCHANGED machine /\ Drive!Fit16 /\ Types' = Types /\ Locations' = Locations
      /\ \A r, d : Drive!ReachedBy(r, d)' = Drive!ReachedBy(r, d)
  BY <1>1, NextMachine, ReachedStays DEF Drive!Fit16
<1>3. ~Drive!Failing
  BY <1>1, FailingCounts DEF DriveTypeInv, PlaceInv
<1>4. UNCHANGED failures /\ ~found
  BY <1>1, <1>3
  DEF Drive!Next, Drive!List, Drive!ListFails, Drive!Exhausted, Drive!OpenDisk, Drive!BlankDisk,
      Drive!Return, Drive!Look, Drive!RemoveFolder, Drive!RemoveFolderRaises, Drive!CopyTree,
      Drive!CopyTreeRaises, Drive!Mcopy, Drive!McopyEndsEarly, Drive!McopyRaises, Drive!WriteImage,
      Drive!WriteImageRaises, Drive!Extract, Drive!ExtractEndsEarly, Drive!ExtractFails,
      Drive!RemoveImageRaises, Drive!Take, Drive!Leave
<1>5. /\ drivePc \in {"search", "over"} =>
           \A r \in Types \X Locations :
             Ahead(r) \/ \A d \in machine.devices : ~Drive!ReachedBy(r, d)
      /\ drivePc = "look" =>
           \A r \in Types \X Locations :
             Ahead(r) \/ \A d \in machine.devices : Drive!ReachedBy(r, d) => r = route /\ Remains(d)
      /\ drivePc = "look" => \A d \in todo : OnRoute(d, route)
  BY <1>1, <1>2, <1>4 DEF SearchedInv
<1>6. drivePc # "idle" => folder = IF drivePc = "copy" THEN Drive!NoFolder ELSE {}
  BY <1>1, <1>2, <1>4 DEF CleanInv
<1>7. CASE Drive!List
  <2>1. /\ routes # <<>> /\ drivePc = "search" /\ drivePc' = "look"
        /\ route' = Head(routes) /\ todo' = Drive!Listed(Head(routes)) /\ routes' = Tail(routes)
    BY <1>7 DEF Drive!List
  <2>2. routes \in Seq(Pairs)
    BY DEF DriveTypeInv, PlaceInv
  <2>3. ASSUME NEW r, Ahead(r), r # route'
        PROVE  Ahead(r)'
    <3>1. PICK i \in 1 .. Len(routes) : routes[i] = r
      BY <2>3 DEF Ahead
    <3>2. i # 1 /\ Len(routes) \in Nat
      BY <2>1, <2>2, <2>3, <3>1
    <3>3. i - 1 \in 1 .. Len(Tail(routes)) /\ Tail(routes)[i - 1] = r
      BY <2>1, <2>2, <3>1, <3>2
    <3>4. QED
      BY <2>1, <3>3 DEF Ahead
  <2>4. ASSUME NEW d \in machine.devices, Drive!ReachedBy(route', d)
        PROVE  Remains(d)'
    <3>1. d.where = Drive!Where(Head(routes))
      BY <2>1, <2>4 DEF Drive!ReachedBy
    <3>2. d.where = "partition" => \E e \in machine.devices : e.where = "disk" /\ e.disk = d.disk
      BY MachineFacts DEF DriveTypeInv, PlaceInv
    <3>3. QED
      BY <2>1, <3>1, <3>2 DEF Remains, Drive!Listed
  <2>5. \A d \in todo' : OnRoute(d, route')
    BY <2>1 DEF Drive!Listed, OnRoute
  <2>6. QED
    BY <1>2, <1>5, <2>1, <2>3, <2>4, <2>5
<1>8. CASE Drive!ListFails \/ Drive!Exhausted
  <2>1. drivePc = "look" /\ drivePc' = "search" /\ UNCHANGED routes
    BY <1>8 DEF Drive!ListFails, Drive!Exhausted
  <2>2. \A d \in machine.devices : ~Drive!ReachedBy(route, d) \/ ~Remains(d)
    <3>1. Drive!NoTools \/ todo = {}
      BY <1>3, <1>8 DEF Drive!ListFails, Drive!Exhausted
    <3>2. QED
      BY <1>2, <3>1, ReachedFits DEF Remains
  <2>3. \A r : Ahead(r)' = Ahead(r)
    BY <2>1 DEF Ahead
  <2>4. QED
    BY <1>2, <1>5, <2>1, <2>2, <2>3
<1>9. CASE Drive!Look
  <2>1. drivePc = "look" /\ UNCHANGED <<routes, route>>
    BY <1>9 DEF Drive!Look
  <2>2. PICK d \in todo : /\ todo' = todo \ {d} /\ d.where = Drive!Where(route)
                          /\ \/ Drive!Fits(d) /\ drivePc' = Drive!First
                             \/ ~Drive!Fits(d) /\ drivePc' = "look"
    BY <1>9 DEF Drive!Look, Drive!Ready
  <2>3. d \in machine.devices
    BY DEF DriveTypeInv, PlaceInv
  <2>4. \A r : Ahead(r)' = Ahead(r)
    BY <2>1 DEF Ahead
  <2>5. CASE ~Drive!Fits(d) /\ drivePc' = "look"
    <3>1. ~Drive!ReachedBy(route, d)
      BY <1>2, <2>3, <2>5, ReachedFits
    <3>2. ASSUME NEW x \in machine.devices, Drive!ReachedBy(route, x), Remains(x)
          PROVE  Remains(x)'
      <4>1. x # d /\ x.where = Drive!Where(route)
        BY <3>1, <3>2 DEF Drive!ReachedBy
      <4>2. QED
        BY <2>2, <3>2, <4>1 DEF Remains
    <3>3. \A x \in todo' : OnRoute(x, route')
      BY <1>5, <2>1, <2>2
    <3>4. QED
      BY <1>2, <1>5, <2>1, <2>4, <2>5, <3>2, <3>3
  <2>6. CASE drivePc' = Drive!First
    BY <2>6, FirstFacts
  <2>7. QED
    BY <2>2, <2>5, <2>6
<1>10. CASE Drive!Return
  <2>1. /\ drivePc = "search" /\ drivePc' = "over" /\ routes = <<>> /\ routes' = <<>>
    BY <1>4, <1>10 DEF Drive!Return
  <2>2. \A r : Ahead(r)' = Ahead(r)
    BY <2>1 DEF Ahead
  <2>3. QED
    BY <1>2, <1>5, <2>1, <2>2
<1>11. CASE drivePc' \in Copying
  BY <1>11 DEF Copying
<1>12. CASE \/ Drive!RemoveFolderRaises \/ Drive!McopyRaises \/ Drive!ExtractEndsEarly
  <2>1. drivePc \in {"rmdir", "mcopy", "extract"}
    BY <1>12 DEF Drive!RemoveFolderRaises, Drive!McopyRaises, Drive!ExtractEndsEarly
  <2>2. folder = {} /\ folder # Drive!NoFolder
    BY <1>6, <2>1 DEF Drive!NoFolder
  <2>3. taken \in machine.devices /\ taken.blocks \in Nat
    BY <2>1, MachineFacts DEF DriveTypeInv, PlaceInv, Copying
  <2>4. ~(taken.blocks >= Drive!TwoBytes)
    BY <1>2, <2>3 DEF Drive!Fit16, Drive!TwoBytes
  <2>5. QED
    BY <1>12, <2>2, <2>4
    DEF Drive!RemoveFolderRaises, Drive!McopyRaises, Drive!ExtractEndsEarly
<1>13. CASE Drive!OpenDisk
  <2>1. drivePc = "look" /\ drivePc' = "look" /\ Drive!Ready = {} /\ UNCHANGED <<routes, route>>
    BY <1>13 DEF Drive!OpenDisk
  <2>2. PICK e \in todo : todo' = (todo \ {e}) \cup Drive!Partitions(e)
    BY <1>13 DEF Drive!OpenDisk
  <2>3. ASSUME NEW d \in machine.devices, Drive!ReachedBy(route, d), Remains(d)
        PROVE  Remains(d)'
    <3>1. d.where = Drive!Where(route) /\ d \notin todo
      BY <2>1, <2>3 DEF Drive!ReachedBy, Drive!Ready
    <3>2. d.where = "partition" /\ \E x \in todo : x.where = "disk" /\ x.disk = d.disk
      BY <2>3, <3>1 DEF Remains
    <3>3. QED
      BY <2>2, <3>2 DEF Remains, Drive!Partitions
  <2>4. \A d \in todo' : OnRoute(d, route')
    <3>1. Drive!Where(route) = "partition"
      BY <1>5, <2>1 DEF Drive!Ready, OnRoute
    <3>2. QED
      BY <1>5, <2>1, <2>2, <3>1 DEF Drive!Partitions, OnRoute
  <2>5. \A r : Ahead(r)' = Ahead(r)
    BY <2>1 DEF Ahead
  <2>6. QED
    BY <1>2, <1>5, <2>1, <2>3, <2>4, <2>5
<1>14. CASE Drive!BlankDisk
  <2>1. drivePc = "look" /\ drivePc' = "search" /\ Drive!Ready = {} /\ UNCHANGED <<routes, route>>
    BY <1>14 DEF Drive!BlankDisk
  <2>2. PICK e \in todo : ~e.table
    BY <1>14 DEF Drive!BlankDisk
  <2>3. e \in machine.devices /\ e.where = "disk"
    BY <1>5, <2>1 DEF Drive!Ready, DriveTypeInv, PlaceInv, OnRoute
  <2>4. ASSUME NEW d \in machine.devices, Drive!ReachedBy(route, d), Remains(d)
        PROVE  FALSE
    <3>1. d.where = Drive!Where(route) /\ (Drive!Where(route) = "partition" => Drive!AllPartitioned)
      BY <2>4 DEF Drive!ReachedBy
    <3>2. d.where = "partition"
      BY <2>1, <2>4, <3>1 DEF Remains, Drive!Ready
    <3>3. QED
      BY <2>2, <2>3, <3>1, <3>2 DEF Drive!AllPartitioned
  <2>5. \A r : Ahead(r)' = Ahead(r)
    BY <2>1 DEF Ahead
  <2>6. QED
    BY <1>2, <1>5, <2>1, <2>4, <2>5
<1>15. QED
  BY <1>1, <1>3, <1>7, <1>8, <1>9, <1>10, <1>11, <1>12, <1>13, <1>14
  DEF Drive!Next, Drive!RemoveFolder, Drive!CopyTree, Drive!CopyTreeRaises, Drive!Mcopy,
      Drive!McopyEndsEarly, Drive!WriteImage, Drive!WriteImageRaises, Drive!Extract,
      Drive!ExtractFails, Drive!RemoveImageRaises, Drive!Take, Drive!Leave, Copying

-----------------------------------------------------------------------------
(* The search as a whole. *)

DriveInv == DriveTypeInv /\ TakenInv /\ CleanInv /\ FoundInv /\ SearchedInv

LEMMA InitDriveInv ==
  ASSUME Drive!Init, failures = 0
  PROVE  DriveInv
<1>1. <<>> \in Seq(Pairs)
  OBVIOUS
<1>2. PlaceInv
  BY <1>1, MetadataServicesAssumption DEF Drive!Init, PlaceInv, Copying
<1>3. FolderInv
  BY DEF Drive!Init, FolderInv
<1>4. TakenInv /\ CleanInv /\ FoundInv /\ SearchedInv
  BY DEF Drive!Init, TakenInv, CleanInv, FoundInv, SearchedInv
<1>5. QED
  BY <1>2, <1>3, <1>4 DEF DriveInv, DriveTypeInv

LEMMA LoadDriveInv ==
  ASSUME DriveInv, NEW l \in Drive!Labels, Drive!Load(l)
  PROVE  DriveInv'
<1>1. drivePc' = "search" /\ ~found' /\ folder' = {} /\ routes' \in Drive!Orders /\ UNCHANGED machine
  BY DEF Drive!Load
<1>2. TakenInv' /\ CleanInv' /\ FoundInv'
  BY <1>1 DEF TakenInv, CleanInv, FoundInv
<1>3. Types' = Types /\ Locations' = Locations
  BY <1>1 DEF Types, Locations, Drive!SearchedTypes, Drive!SearchedLocations
<1>4. \A r \in Types \X Locations : Ahead(r)'
  BY <1>1, OrderFacts DEF DriveInv, DriveTypeInv, PlaceInv, Ahead
<1>5. SearchedInv'
  BY <1>1, <1>3, <1>4 DEF SearchedInv
<1>6. QED
  BY <1>2, <1>5, LoadTypeInv DEF DriveInv

LEMMA CleanupDriveInv ==
  ASSUME DriveInv, Drive!Cleanup
  PROVE  DriveInv'
<1>1. DriveTypeInv'
  BY DEF Drive!Cleanup, DriveInv, DriveTypeInv, PlaceInv, FolderInv, Copying
<1>2. TakenInv' /\ CleanInv' /\ FoundInv' /\ SearchedInv'
  BY DEF Drive!Cleanup, TakenInv, CleanInv, FoundInv, SearchedInv
<1>3. QED
  BY <1>1, <1>2 DEF DriveInv

LEMMA QuietDriveInv ==
  ASSUME DriveInv, UNCHANGED driveVars
  PROVE  DriveInv'
<1>1. UNCHANGED <<drivePc, machine, label, routes, route, todo, taken, folder, found, failures>>
  BY DEF driveVars
<1>2. DriveTypeInv'
  BY <1>1 DEF DriveInv, DriveTypeInv, PlaceInv, FolderInv
<1>3. /\ Drive!First' = Drive!First /\ Drive!Whole' = Drive!Whole /\ Drive!Fit16' = Drive!Fit16
      /\ Drive!IsConfigDrive(taken)' = Drive!IsConfigDrive(taken)
      /\ Drive!IsVfatDrive(taken)' = Drive!IsVfatDrive(taken)
      /\ \A r : Ahead(r)' = Ahead(r)
      /\ \A d : Remains(d)' = Remains(d)
  BY <1>1
  DEF Remains, Drive!First, Drive!Whole, Drive!Fit16, Drive!IsConfigDrive, Drive!IsVfatDrive, Ahead
<1>4. TakenInv' /\ CleanInv'
  BY <1>1, <1>3 DEF DriveInv, TakenInv, CleanInv
<1>5. FoundInv'
  BY <1>1, <1>3 DEF DriveInv, FoundInv
<1>6. SearchedInv'
  BY <1>1, <1>3, ReachedStays DEF DriveInv, SearchedInv
<1>7. QED
  BY <1>2, <1>4, <1>5, <1>6 DEF DriveInv

LEMMA NextDriveInv ==
  ASSUME DriveInv, [Next]_vars
  PROVE  DriveInv'
<1>1. CASE UNCHANGED driveVars
  BY <1>1, QuietDriveInv
<1>2. CASE TryService
  <2>1. CASE loading' \in DOMAIN Label /\ Drive!Load(Label[loading'])
    <3>1. Label[loading'] \in Drive!Labels
      BY <2>1 DEF Label, Drive!Labels
    <3>2. QED
      BY <2>1, <3>1, LoadDriveInv
  <2>2. QED
    BY <1>1, <1>2, <2>1 DEF TryService
<1>3. CASE SearchDrive
  BY <1>3, NextDriveTypeInv, NextTakenInv, NextCleanInv, NextFoundInv, NextSearchedInv
  DEF SearchDrive, DriveInv
<1>4. CASE Cleanup
  BY <1>1, <1>4, CleanupDriveInv DEF Cleanup
<1>5. QED
  BY <1>1, <1>2, <1>3, <1>4
  DEF Next, Own, Hang, vars, Start, NoService, NotMade, DriveFound, DriveNotFound, SearchAzure,
      AzureOver, Read, LoadOver, Ask, RunAzure, Publish, Move, CallNative, RunNative

LEMMA DriveInvHolds == Spec => []DriveInv
<1>1. Init => DriveInv
  BY InitDriveInv DEF Init
<1>2. DriveInv /\ [Next]_vars => DriveInv'
  BY NextDriveInv
<1>3. QED
  BY <1>1, <1>2, PTL DEF Spec

\* What a config drive service reads comes from one drive, and from all of it, whatever
\* the attempts before it have left in the folder.
THEOREM DrivesAreWhole == Spec => []DriveIsWhole
<1>1. DriveInv => DriveIsWhole
  BY DEF DriveInv, FoundInv, DriveIsWhole, Drive!DriveIsWhole
<1>2. QED
  BY <1>1, DriveInvHolds, PTL

\* If nothing fails and no image is too large, every type is looked for at every location,
\* in whatever order the sets and the disks have, and no drive of the service is missed but
\* an image on a removable or very small device, or on a partition next to a blank disk.
THEOREM DrivesAreNotMissed == Spec => []NotMissed
<1>1. ASSUME DriveInv PROVE NotMissed
  <2>1. SUFFICES ASSUME drivePc = "over", ~found, failures = 0, Drive!Fit16,
                        NEW d \in machine.devices, Drive!Reachable(d)
                 PROVE  FALSE
    BY DEF NotMissed, Drive!NotMissed
  <2>2. PICK r \in Types \X Locations : Drive!ReachedBy(r, d)
    BY <2>1 DEF Drive!Reachable, Drive!ReachedBy, Types, Locations
  <2>3. ~Ahead(r)
    BY <1>1, <2>1 DEF DriveInv, SearchedInv, Ahead
  <2>4. QED
    BY <1>1, <2>1, <2>2, <2>3 DEF DriveInv, SearchedInv
<1>2. QED
  BY <1>1, DriveInvHolds, PTL

-----------------------------------------------------------------------------
(* What is read. *)

\* What has been told is what is cached, and nothing is told of what is not.
CacheInv ==
  /\ DOMAIN told = DOMAIN cache
  /\ \A n \in DOMAIN told :
       /\ told[n] \subseteq {cache[n]}
       /\ cache[n] = Session!Absent => told[n] = {}

\* The service that reads is the one that was tried last.
InUseInv ==
  /\ turn = "azure" => loading = "AzureService"
  /\ turn = "load" => service = loading
  /\ turn = "use" /\ loading # "AzureService" => service = loading

LEMMA InitCacheInv == Init => CacheInv
BY DEF Init, Session!Init, Session!None, Session!Untold, CacheInv

LEMMA LoadCacheInv ==
  ASSUME NEW s, NEW published, Session!Load(s, published)
  PROVE  CacheInv'
BY DEF Session!Load, Session!None, Session!Untold, CacheInv

LEMMA QuietCacheInv ==
  ASSUME CacheInv, UNCHANGED <<cache, told>>
  PROVE  CacheInv'
BY DEF CacheInv

\* A step of a method.
LEMMA ReadCacheInv ==
  ASSUME CacheInv, Session!Next
  PROVE  CacheInv'
<1>1. CASE UNCHANGED <<cache, told>>
  BY <1>1, QuietCacheInv
<1>2. CASE Session!Cached
  BY <1>2 DEF Session!Cached, Session!Tell, CacheInv
<1>3. CASE Session!Answer
  BY <1>3 DEF Session!Answer, Session!Uncached, Session!Tell, CacheInv
<1>4. QED
  BY <1>1, <1>2, <1>3
  DEF Session!Next, Session!Finished, Session!NotExisting, Session!Retry, Session!Overlook,
      Session!GiveUp, Session!Unanswered, Session!Requesting

LEMMA NextCacheInv ==
  ASSUME CacheInv, [Next]_vars
  PROVE  CacheInv'
<1>1. CASE UNCHANGED <<cache, told>>
  BY <1>1, QuietCacheInv
<1>2. CASE TryService \/ DriveFound
  <2>1. \E s, published : Session!Load(s, published) \/ UNCHANGED <<cache, told>>
    BY <1>2 DEF TryService, DriveFound, LoadFrom, sessionVars
  <2>2. QED
    BY <2>1, LoadCacheInv, QuietCacheInv
<1>3. CASE Read
  BY <1>3, ReadCacheInv DEF Read
<1>4. QED
  BY <1>1, <1>2, <1>3
  DEF Next, Own, Hang, vars, sessionVars, Start, NoService, NotMade, SearchDrive, DriveNotFound,
      SearchAzure, AzureOver, LoadOver, Ask, Session!Ask, RunAzure, Cleanup, Publish,
      Session!Publish, Move, CallNative, RunNative

LEMMA NextInUseInv ==
  ASSUME InUseInv, [Next]_vars
  PROVE  InUseInv'
<1>1. CASE TryService \/ DriveFound
  BY <1>1 DEF TryService, DriveFound, LoadFrom, Session!Load, InUseInv
<1>2. CASE Read
  <2>1. UNCHANGED <<turn, loading, service>>
    BY <1>2
    DEF Read, Session!Next, Session!Finished, Session!Cached, Session!Answer,
        Session!NotExisting, Session!Retry, Session!Overlook, Session!GiveUp, Session!End,
        Session!MoveTo, Session!Missing
  <2>2. QED
    BY <2>1 DEF InUseInv
<1>3. CASE Publish \/ Ask
  BY <1>3 DEF Publish, Session!Publish, Ask, Session!Ask, InUseInv
<1>4. QED
  BY <1>1, <1>2, <1>3
  DEF Next, Own, Hang, vars, sessionVars, Start, NoService, NotMade, SearchDrive, DriveNotFound,
      SearchAzure, AzureOver, LoadOver, RunAzure, Cleanup, Move, CallNative, RunNative, InUseInv

\* A run sees one value under each name, from the one service that was loaded.
THEOREM ReadsAreSteady == Spec => []SteadyReads
<1>1. Init => CacheInv /\ InUseInv
  BY InitCacheInv DEF Init, InUseInv
<1>2. CacheInv /\ InUseInv /\ [Next]_vars => (CacheInv /\ InUseInv)'
  BY NextCacheInv, NextInUseInv
<1>3. ASSUME CacheInv, InUseInv PROVE SteadyReads
  <2>1. Session!SteadyReads
    BY <1>3 DEF Session!SteadyReads, CacheInv
  <2>2. QED
    BY <1>3, <2>1 DEF SteadyReads, InUseInv
<1>4. QED
  BY <1>1, <1>2, <1>3, PTL DEF Spec

-----------------------------------------------------------------------------
(* What the fabric is told. *)

\* The options are those of the image, and a goal state has a number.
FabricInv ==
  /\ fabric \in Azure!Fabric /\ incarnation \in Nat \ {0}
  /\ goal = Azure!NoGoal \/ goal.incarnation # 0

\* Until the outcome is told the fabric shows that the machine is being provisioned, for
\* the goal state that was fetched then.
StartedInv ==
  fabric.started /\ azurePc \in {"id", "main", "certs", "env", "thumbprint", "outcome"} =>
    goal # Azure!NoGoal /\ shown = [state |-> "Provisioning", incarnation |-> goal.incarnation]

\* What is reported at the end is the outcome.
OutcomeInv ==
  /\ azurePc = "failing" => ~ok /\ fabric.completed
  /\ azurePc = "completing" => ok /\ ~reboot /\ fabric.completed

\* Ready is shown by the last step of such a run only.
ReadyInv ==
  shown.state = "Ready" /\ shown.incarnation # 0 =>
    /\ azurePc \in {"completing", "over"} /\ ok /\ ~reboot
    /\ goal # Azure!NoGoal /\ shown.incarnation = goal.incarnation /\ goal.state = "Started"

\* What is shown once the run is over.
OverInv ==
  azurePc = "over" /\ fabric.completed /\ ~unheard =>
    /\ ~ok => shown.state = "Failed"
    /\ ok /\ ~reboot => shown.state = "Ready"
    /\ ok /\ reboot /\ fabric.started => shown.state = "Provisioning"

HealthInv == FabricInv /\ StartedInv /\ OutcomeInv /\ ReadyInv /\ OverInv

LEMMA InitHealthInv == Init => HealthInv
<1>1. Init => FabricInv
  BY MetadataServicesAssumption DEF Init, Azure!Init, FabricInv
<1>2. Init => StartedInv /\ OutcomeInv /\ ReadyInv /\ OverInv
  BY DEF Init, Azure!Init, StartedInv, OutcomeInv, ReadyInv, OverInv
<1>3. QED
  BY <1>1, <1>2 DEF HealthInv

\* Steps before the run, or of the main stage, that tell the fabric nothing.
Before == {"idle", "bind", "receive", "version", "file", "loaded", "not loaded", "start", "aborted"}
Stage == {"id", "main", "certs", "env", "thumbprint", "outcome"}

LEMMA QuietHealthInv ==
  ASSUME HealthInv, UNCHANGED <<fabric, incarnation, goal, shown>>,
         \/ azurePc' = azurePc /\ UNCHANGED <<ok, reboot, unheard>>
         \/ azurePc \in Before \cup Stage /\ azurePc' \in Before
         \/ azurePc \in Stage /\ azurePc' \in Stage
         \/ azurePc \in Before /\ azurePc' \in Stage /\ ~fabric.started
  PROVE  HealthInv'
<1>1. FabricInv'
  BY DEF HealthInv, FabricInv
<1>2. StartedInv'
  BY DEF HealthInv, StartedInv, Before, Stage
<1>3. OutcomeInv'
  <2>1. CASE azurePc' = azurePc /\ UNCHANGED <<ok, reboot, fabric>>
    BY <2>1 DEF HealthInv, OutcomeInv
  <2>2. CASE azurePc' \in Before \cup Stage
    BY <2>2 DEF OutcomeInv, Before, Stage
  <2>3. QED
    BY <2>1, <2>2
<1>4. ReadyInv'
  BY DEF HealthInv, ReadyInv, Before, Stage
<1>5. OverInv'
  BY DEF HealthInv, OverInv, Before, Stage
<1>6. QED
  BY <1>1, <1>2, <1>3, <1>4, <1>5 DEF HealthInv

\* An exception leads to the end of the run, or of a plugin.
LEMMA RaisedHealthInv ==
  ASSUME HealthInv, UNCHANGED <<goal, shown>>, Azure!Raised,
         azurePc \in {"version", "start", "id", "certs", "thumbprint", "env", "failing", "completing"}
  PROVE  HealthInv'
<1> USE DEF Azure!Raised
<1>1. UNCHANGED <<fabric, incarnation, goal, shown, reboot>>
  OBVIOUS
<1>2. CASE azurePc \in {"version", "start", "id"}
  <2>1. azurePc \in Before \cup Stage /\ azurePc' \in Before
    BY <1>2 DEF Before, Stage
  <2>2. QED
    BY <1>1, <2>1, QuietHealthInv
<1>3. CASE azurePc \in {"certs", "thumbprint", "env"}
  <2>1. azurePc \in Stage /\ azurePc' \in Stage
    BY <1>3 DEF Stage
  <2>2. QED
    BY <1>1, <2>1, QuietHealthInv
<1>4. CASE azurePc \in {"failing", "completing"}
  <2>1. azurePc' = "over" /\ unheard'
    BY <1>4
  <2>2. ok' <=> ok
    BY <1>4
  <2>3. FabricInv'
    BY <1>1 DEF HealthInv, FabricInv
  <2>4. StartedInv' /\ OutcomeInv' /\ OverInv'
    BY <2>1 DEF StartedInv, OutcomeInv, OverInv
  <2>5. ReadyInv'
    BY <1>1, <2>1, <2>2 DEF HealthInv, ReadyInv
  <2>6. QED
    BY <2>3, <2>4, <2>5 DEF HealthInv
<1>5. QED
  BY <1>2, <1>3, <1>4

\* A report, whether or not its answer comes.
LEMMA ReportHealthInv ==
  ASSUME HealthInv, Azure!Reporting, shown' = Azure!Report,
         UNCHANGED <<fabric, incarnation, goal, reboot, ok, azurePc, unheard>>
  PROVE  HealthInv'
<1>1. goal # Azure!NoGoal /\ goal.state = "Started" /\ shown'.incarnation = goal.incarnation
  BY DEF Azure!Reporting, Azure!Ready, Azure!Report
<1>2. /\ azurePc = "start" => shown'.state = "Provisioning"
      /\ azurePc = "failing" => shown'.state = "Failed"
      /\ azurePc = "completing" => shown'.state = "Ready"
  BY DEF Azure!Report
<1>3. azurePc \in {"start", "failing", "completing"}
  BY DEF Azure!Reporting
<1>4. FabricInv'
  BY DEF HealthInv, FabricInv
<1>5. StartedInv' /\ OverInv'
  BY <1>3 DEF StartedInv, OverInv
<1>6. OutcomeInv'
  BY DEF HealthInv, OutcomeInv
<1>7. ReadyInv'
  BY <1>1, <1>2, <1>3 DEF HealthInv, OutcomeInv, ReadyInv
<1>8. QED
  BY <1>4, <1>5, <1>6, <1>7 DEF HealthInv

LEMMA PostHealthInv ==
  ASSUME HealthInv, Azure!Post
  PROVE  HealthInv'
<1> USE DEF Azure!Post
<1>1. goal # Azure!NoGoal /\ goal.state = "Started" /\ shown'.incarnation = goal.incarnation
  BY DEF Azure!Reporting, Azure!Ready, Azure!Report
<1>2. azurePc \in {"start", "failing", "completing"}
  BY DEF Azure!Reporting
<1>3. FabricInv'
  BY DEF HealthInv, FabricInv
<1>4. CASE azurePc = "start"
  <2>1. shown' = [state |-> "Provisioning", incarnation |-> goal.incarnation]
    BY <1>4 DEF Azure!Report
  <2>2. azurePc' = "id" /\ UNCHANGED goal
    BY <1>4
  <2>3. StartedInv'
    BY <1>1, <2>1, <2>2 DEF StartedInv
  <2>4. OutcomeInv' /\ ReadyInv' /\ OverInv'
    BY <2>1, <2>2 DEF OutcomeInv, ReadyInv, OverInv
  <2>5. QED
    BY <1>3, <2>3, <2>4 DEF HealthInv
<1>5. CASE azurePc = "failing"
  <2>1. shown'.state = "Failed" /\ azurePc' = "over"
    BY <1>5 DEF Azure!Report
  <2>2. ~ok'
    BY <1>5 DEF HealthInv, OutcomeInv
  <2>3. StartedInv' /\ OutcomeInv' /\ ReadyInv' /\ OverInv'
    BY <2>1, <2>2 DEF StartedInv, OutcomeInv, ReadyInv, OverInv
  <2>4. QED
    BY <1>3, <2>3 DEF HealthInv
<1>6. CASE azurePc = "completing"
  <2>1. shown'.state = "Ready" /\ azurePc' = "over" /\ UNCHANGED goal
    BY <1>6 DEF Azure!Report
  <2>2. ok' /\ ~reboot'
    BY <1>6 DEF HealthInv, OutcomeInv
  <2>3. StartedInv' /\ OutcomeInv' /\ ReadyInv' /\ OverInv'
    BY <1>1, <2>1, <2>2 DEF StartedInv, OutcomeInv, ReadyInv, OverInv
  <2>4. QED
    BY <1>3, <2>3 DEF HealthInv
<1>7. QED
  BY <1>2, <1>4, <1>5, <1>6

LEMMA PostLostHealthInv ==
  ASSUME HealthInv, Azure!PostLost
  PROVE  HealthInv'
<1> USE DEF Azure!PostLost
<1>1. CASE UNCHANGED <<fabric, incarnation, reboot, ok, azurePc, unheard>>
  BY <1>1, ReportHealthInv
<1>2. CASE Azure!Raised
  <2>1. goal # Azure!NoGoal /\ goal.state = "Started" /\ shown'.incarnation = goal.incarnation
    BY DEF Azure!Reporting, Azure!Ready, Azure!Report
  <2>2. azurePc \in {"start", "failing", "completing"}
    BY DEF Azure!Reporting
  <2>3. UNCHANGED <<fabric, incarnation, goal, reboot>>
    BY <1>2 DEF Azure!Raised
  <2>4. FabricInv'
    BY <2>3 DEF HealthInv, FabricInv
  <2>5. CASE azurePc = "start"
    <3>1. shown'.state = "Provisioning" /\ azurePc' = "aborted"
      BY <1>2, <2>5 DEF Azure!Report, Azure!Raised
    <3>2. StartedInv' /\ OutcomeInv' /\ ReadyInv' /\ OverInv'
      BY <3>1 DEF StartedInv, OutcomeInv, ReadyInv, OverInv
    <3>3. QED
      BY <2>4, <3>2 DEF HealthInv
  <2>6. CASE azurePc \in {"failing", "completing"}
    <3>1. azurePc' = "over" /\ unheard'
      BY <1>2, <2>6 DEF Azure!Raised
    <3>2. ok' <=> ok
      BY <1>2, <2>6 DEF Azure!Raised
    <3>3. StartedInv' /\ OutcomeInv' /\ OverInv'
      BY <3>1 DEF StartedInv, OutcomeInv, OverInv
    <3>4. CASE azurePc = "failing"
      <4>1. shown'.state = "Failed"
        BY <3>4 DEF Azure!Report
      <4>2. QED
        BY <2>4, <3>3, <4>1 DEF ReadyInv, HealthInv
    <3>5. CASE azurePc = "completing"
      <4>1. ok' /\ ~reboot'
        BY <2>3, <3>2, <3>5 DEF HealthInv, OutcomeInv
      <4>2. ReadyInv'
        BY <2>1, <2>3, <3>1, <4>1 DEF ReadyInv
      <4>3. QED
        BY <2>4, <3>3, <4>2 DEF HealthInv
    <3>6. QED
      BY <2>6, <3>4, <3>5
  <2>7. QED
    BY <2>2, <2>5, <2>6
<1>3. QED
  BY <1>1, <1>2 DEF Azure!Unanswered

\* The goal state is fetched when there is none, thus not while the fabric shows a step
\* of this run.
LEMMA FetchHealthInv ==
  ASSUME HealthInv, Azure!FetchGoal
  PROVE  HealthInv'
<1> USE DEF Azure!FetchGoal
<1>1. goal' = [incarnation |-> incarnation, state |-> fabric.state] /\ goal = Azure!NoGoal
  OBVIOUS
<1>2. UNCHANGED <<azurePc, fabric, incarnation, shown, ok, reboot, unheard>>
  OBVIOUS
<1>3. FabricInv'
  BY <1>1, <1>2 DEF HealthInv, FabricInv
<1>4. StartedInv'
  BY <1>1, <1>2 DEF HealthInv, StartedInv
<1>5. OutcomeInv'
  BY <1>2 DEF HealthInv, OutcomeInv
<1>6. ReadyInv'
  BY <1>1, <1>2 DEF HealthInv, ReadyInv
<1>7. OverInv'
  BY <1>2 DEF HealthInv, OverInv
<1>8. QED
  BY <1>3, <1>4, <1>5, <1>6, <1>7 DEF HealthInv

\* The verdict of the run.
LEMMA OutcomeHealthInv ==
  ASSUME HealthInv, Azure!Outcome
  PROVE  HealthInv'
<1> USE DEF Azure!Outcome
<1>1. UNCHANGED <<fabric, incarnation, goal, shown>>
  BY DEF Azure!runVars
<1>2. UNCHANGED <<ok, reboot, unheard>>
  BY DEF Azure!runVars
<1>3. azurePc = "outcome" /\ azurePc' \in {"failing", "completing", "over"}
  OBVIOUS
<1>4. /\ azurePc' = "failing" => fabric.completed /\ ~ok
      /\ azurePc' = "completing" => fabric.completed /\ ok /\ ~reboot
      /\ azurePc' = "over" => ~fabric.completed \/ (ok /\ reboot)
  OBVIOUS
<1>5. FabricInv'
  BY <1>1 DEF HealthInv, FabricInv
<1>6. StartedInv'
  BY <1>3 DEF StartedInv
<1>7. OutcomeInv'
  BY <1>1, <1>2, <1>4, Zenon DEF OutcomeInv
<1>8. ReadyInv'
  BY <1>1, <1>3 DEF HealthInv, ReadyInv
<1>9. OverInv'
  <2>1. fabric.started => shown.state = "Provisioning"
    BY <1>3 DEF HealthInv, StartedInv
  <2>2. QED
    BY <1>1, <1>2, <1>4, <2>1, Zenon DEF OverInv
<1>10. QED
  BY <1>5, <1>6, <1>7, <1>8, <1>9 DEF HealthInv

\* The fabric has a new goal state: what was fetched stays what it is.
LEMMA MoveHealthInv ==
  ASSUME HealthInv, Azure!Move
  PROVE  HealthInv'
<1> USE DEF Azure!Move, Azure!runVars
<1>1. UNCHANGED <<azurePc, goal, shown>>
  OBVIOUS
<1>2. UNCHANGED <<ok, reboot, unheard>>
  OBVIOUS
<1>3. fabric \in Azure!Fabric /\ incarnation \in Nat \ {0}
  BY DEF HealthInv, FabricInv
<1>4. fabric' \in Azure!Fabric /\ incarnation' \in Nat \ {0}
  BY <1>3 DEF Azure!Fabric
<1>5. fabric'.started = fabric.started /\ fabric'.completed = fabric.completed
  BY <1>3 DEF Azure!Fabric
<1>6. FabricInv'
  BY <1>1, <1>4 DEF HealthInv, FabricInv
<1>7. StartedInv'
  BY <1>1, <1>5 DEF HealthInv, StartedInv
<1>8. OutcomeInv'
  BY <1>1, <1>2, <1>5 DEF HealthInv, OutcomeInv
<1>9. ReadyInv'
  BY <1>1, <1>2 DEF HealthInv, ReadyInv
<1>10. OverInv'
  BY <1>1, <1>2, <1>5 DEF HealthInv, OverInv
<1>11. QED
  BY <1>6, <1>7, <1>8, <1>9, <1>10 DEF HealthInv

\* No answer: another try, or an exception.
LEMMA NoAnswerHealthInv ==
  ASSUME HealthInv, Azure!NoAnswer
  PROVE  HealthInv'
<1>1. azurePc \in Azure!Asking /\ UNCHANGED <<goal, shown>>
  BY DEF Azure!NoAnswer, Azure!Requesting, Azure!Unanswered
<1>2. CASE UNCHANGED <<fabric, incarnation, reboot, ok, azurePc, unheard>>
  BY <1>1, <1>2, QuietHealthInv
<1>3. CASE Azure!Raised
  BY <1>1, <1>3, RaisedHealthInv DEF Azure!Asking
<1>4. QED
  BY <1>2, <1>3 DEF Azure!NoAnswer, Azure!Requesting, Azure!Unanswered

\* The search for the wire server.
LEMMA SearchHealthInv ==
  ASSUME HealthInv, Azure!Searching
  PROVE  HealthInv'
<1>1. CASE Azure!NoAnswer
  BY <1>1, NoAnswerHealthInv
<1>2. CASE ~Azure!NoAnswer
  <2>1. UNCHANGED <<fabric, incarnation, goal, shown>>
    BY <1>2
    DEF Azure!Searching, Azure!Bind, Azure!BindAgain, Azure!BindFails, Azure!Reply,
        Azure!OtherReply, Azure!NoReply, Azure!CheckVersion, Azure!ReadFile, Azure!runVars
  <2>2. azurePc \in Before /\ azurePc' \in Before
    BY <1>2
    DEF Azure!Searching, Azure!Bind, Azure!BindAgain, Azure!BindFails, Azure!Reply,
        Azure!OtherReply, Azure!NoReply, Azure!CheckVersion, Azure!ReadFile, Azure!NotFound,
        Azure!Found, Before
  <2>3. QED
    BY <2>1, <2>2, QuietHealthInv
<1>3. QED
  BY <1>1, <1>2

\* The run.
LEMMA RunHealthInv ==
  ASSUME HealthInv, Azure!Running
  PROVE  HealthInv'
<1>1. CASE Azure!NoAnswer
  BY <1>1, NoAnswerHealthInv
<1>2. CASE Azure!FetchGoal \/ Azure!Outcome \/ Azure!Post \/ Azure!PostLost
  BY <1>2, FetchHealthInv, OutcomeHealthInv, PostHealthInv, PostLostHealthInv
<1>3. CASE Azure!NotStarted \/ Azure!CertsFail
  <2>1. azurePc \in {"start", "id", "certs", "thumbprint", "failing", "completing"}
    BY <1>3 DEF Azure!NotStarted, Azure!CertsFail, Azure!NeedsGoal
  <2>2. Azure!Raised /\ UNCHANGED <<goal, shown>>
    BY <1>3 DEF Azure!NotStarted, Azure!CertsFail
  <2>3. QED
    BY <2>1, <2>2, RaisedHealthInv
<1>4. CASE Azure!Provision
  <2>1. UNCHANGED <<fabric, incarnation, goal, shown>>
    BY <1>4 DEF Azure!Provision, Azure!runVars
  <2>2. azurePc \in Before /\ (azurePc' \in Before \/ (azurePc' \in Stage /\ ~fabric.started))
    BY <1>4 DEF Azure!Provision, Before, Stage
  <2>3. QED
    BY <2>1, <2>2, QuietHealthInv
<1>5. CASE \/ Azure!InstanceId \/ Azure!Plugin \/ Azure!Certs \/ Azure!Environment \/ Azure!Thumbprint
           \/ Azure!StageOver \/ Azure!PluginFails \/ Azure!PluginReboots
  <2>1. UNCHANGED <<fabric, incarnation, goal, shown>>
    BY <1>5
    DEF Azure!InstanceId, Azure!Plugin, Azure!Certs, Azure!Environment, Azure!Thumbprint,
        Azure!StageOver, Azure!PluginFails, Azure!PluginReboots, Azure!runVars
  <2>2. azurePc \in Stage /\ azurePc' \in Stage
    BY <1>5
    DEF Azure!InstanceId, Azure!Plugin, Azure!Certs, Azure!Environment, Azure!Thumbprint,
        Azure!StageOver, Azure!PluginFails, Azure!PluginReboots, Azure!Step, Stage
  <2>3. QED
    BY <2>1, <2>2, QuietHealthInv
<1>6. QED
  BY <1>1, <1>2, <1>3, <1>4, <1>5 DEF Azure!Running

LEMMA NextHealthInv ==
  ASSUME HealthInv, [Next]_vars
  PROVE  HealthInv'
<1>1. CASE UNCHANGED azureVars
  <2>1. UNCHANGED <<fabric, incarnation, goal, shown, azurePc, ok, reboot, unheard>>
    BY <1>1 DEF azureVars
  <2>2. QED
    BY <2>1, QuietHealthInv
<1>2. CASE TryService
  <2>1. CASE Azure!Load
    <3>1. UNCHANGED <<fabric, incarnation, goal, shown>>
      BY <2>1 DEF Azure!Load, Azure!runVars
    <3>2. azurePc \in Before /\ azurePc' \in Before
      BY <2>1 DEF Azure!Load, Before
    <3>3. QED
      BY <3>1, <3>2, QuietHealthInv
  <2>2. QED
    BY <1>1, <1>2, <2>1 DEF TryService
<1>3. CASE SearchAzure
  BY <1>3, SearchHealthInv DEF SearchAzure
<1>4. CASE RunAzure
  BY <1>4, RunHealthInv DEF RunAzure
<1>5. CASE Move
  BY <1>5, MoveHealthInv DEF Move
<1>6. QED
  BY <1>1, <1>2, <1>3, <1>4, <1>5
  DEF Next, Own, Hang, vars, Start, NoService, NotMade, SearchDrive, DriveFound, DriveNotFound,
      AzureOver, Read, LoadOver, Ask, Cleanup, Publish, CallNative, RunNative

\* Provisioning while plugins run, at the end the outcome, and Ready only for a run whose
\* plugins have succeeded and that does not reboot.
THEOREM ReportsAreTrue == Spec => []HealthReports
<1>1. HealthInv => Azure!HealthReports
  BY Zenon DEF HealthInv, StartedInv, ReadyInv, OverInv, Azure!HealthReports
<1>2. HealthInv => HealthReports
  BY <1>1 DEF HealthReports
<1>3. QED
  BY <1>2, InitHealthInv, NextHealthInv, PTL DEF Spec

-----------------------------------------------------------------------------
(* Types of what the services read. *)

LEMMA Counts ==
  /\ RetryCount \in Nat /\ DhcpTries \in Nat /\ BindAttempts \in Nat \ {0}
  /\ Timeout \in Nat \ {0} /\ MaxChanges \in Nat /\ MaxRounds \in Nat
  /\ MaxAsked \in Nat /\ MaxFailures \in Nat
BY MetadataServicesAssumption

\* A method is a sequence, whatever its items are.
IsMethod(m) == \E S : m \in Seq(S)

LEMMA Methods ==
  /\ IsMethod(<<>>)
  /\ \A a : IsMethod(<<a>>)
  /\ \A a, b : IsMethod(<<a, b>>)
  /\ \A m, n : IsMethod(m) /\ IsMethod(n) => IsMethod(m \o n)
  /\ \A m : IsMethod(m) => Len(m) \in Nat
<1>1. IsMethod(<<>>)
  BY <<>> \in Seq({}) DEF IsMethod
<1>2. ASSUME NEW a PROVE IsMethod(<<a>>)
  BY <<a>> \in Seq({a}) DEF IsMethod
<1>3. ASSUME NEW a, NEW b PROVE IsMethod(<<a, b>>)
  BY <<a, b>> \in Seq({a, b}) DEF IsMethod
<1>4. ASSUME NEW m, NEW n, IsMethod(m), IsMethod(n) PROVE IsMethod(m \o n)
  <2>1. PICK S : m \in Seq(S)
    BY <1>4 DEF IsMethod
  <2>2. PICK T : n \in Seq(T)
    BY <1>4 DEF IsMethod
  <2>3. m \in Seq(S \cup T) /\ n \in Seq(S \cup T)
    BY <2>1, <2>2
  <2>4. m \o n \in Seq(S \cup T)
    BY <2>3
  <2>5. QED
    BY <2>4 DEF IsMethod
<1>5. ASSUME NEW m, IsMethod(m) PROVE Len(m) \in Nat
  BY <1>5 DEF IsMethod
<1>6. QED
  BY <1>1, <1>2, <1>3, <1>4, <1>5

HasMethods(s) == IsMethod(s.load) /\ \A m \in s.methods : IsMethod(m)

LEMMA ServiceMethods ==
  ASSUME NEW r, NEW t, NEW load, NEW methods, IsMethod(load), \A m \in methods : IsMethod(m)
  PROVE  HasMethods(Session!Service(r, t, load, methods))
BY DEF HasMethods, Session!Service

LEMMA ServicesHaveMethods ==
  ASSUME NEW s \in DOMAIN Session!Services
  PROVE  HasMethods(Session!Services[s])
<1>1. HasMethods(Session!EC2Service)
  BY ServiceMethods, Methods, Zenon DEF Session!EC2Service
<1>2. HasMethods(Session!GCEService)
  <2>1. IsMethod(Session!GCEPublicKeys(TRUE)) /\ IsMethod(Session!GCEPublicKeys(FALSE))
    BY Methods, Zenon DEF Session!GCEPublicKeys
  <2>2. QED
    BY <2>1, ServiceMethods, Methods, Zenon DEF Session!GCEService, Session!GCEUserData
<1>3. HasMethods(Session!PacketService) /\ HasMethods(Session!MaaSHttpService)
  BY ServiceMethods, Methods, Zenon DEF Session!PacketService, Session!MaaSHttpService
<1>4. \A m \in Session!OpenStackMethods \cup {Session!CanPostPassword} : IsMethod(m)
  BY Methods, Zenon
  DEF Session!OpenStackMethods, Session!NetworkDetails, Session!NetworkDetailsV2,
      Session!ClientAuthCerts, Session!CanPostPassword
<1>5. HasMethods(Session!HttpService) /\ HasMethods(Session!ConfigDriveService)
  BY <1>4, ServiceMethods, Methods, Zenon DEF Session!HttpService, Session!ConfigDriveService
<1>6. HasMethods(Session!CloudStack) /\ HasMethods(Session!NoCloudConfigDriveService)
  BY ServiceMethods, Methods, Zenon
  DEF Session!CloudStack, Session!TestApi, Session!NoCloudConfigDriveService,
      Session!NetworkDetailsV2
<1>7. HasMethods(Session!OpenNebulaService) /\ HasMethods(Session!OvfService)
  BY ServiceMethods, Methods, Zenon DEF Session!OpenNebulaService, Session!OvfService
<1>8. HasMethods(Session!VMwareGuestInfoService) /\ HasMethods(Session!EmptyMetadataService)
  BY ServiceMethods, Methods, Zenon
  DEF Session!VMwareGuestInfoService, Session!GuestData, Session!EmptyMetadataService
<1>9. QED
  BY <1>1, <1>2, <1>3, <1>5, <1>6, <1>7, <1>8 DEF Session!Services

\* The service in use, and the position in the method that runs.
SessionTypeInv == Session!TypeOK /\ Len(method) \in Nat

LEMMA InitSessionTypeInv ==
  ASSUME Session!Init
  PROVE  SessionTypeInv
<1>1. service \in DOMAIN Session!Services /\ Len(method) = 0
  BY DEF Session!Init, Session!Services
<1>2. {source, cache} \subseteq [Session!NamesOf(service) -> 0 .. MaxChanges + 1]
  BY MetadataServicesAssumption DEF Session!Init, Session!None, Session!Absent
<1>3. QED
  BY <1>1, <1>2, MetadataServicesAssumption DEF Session!Init, SessionTypeInv, Session!TypeOK

LEMMA LoadSessionTypeInv ==
  ASSUME SessionTypeInv, NEW s \in DOMAIN Session!Services, LoadFrom(s)
  PROVE  SessionTypeInv'
<1>1. service' = s /\ Len(method') \in Nat
  BY ServicesHaveMethods, Methods DEF LoadFrom, Session!Load, Session!Begin, HasMethods
<1>2. {source', cache'} \subseteq [Session!NamesOf(s) -> 0 .. MaxChanges + 1]
  BY MetadataServicesAssumption DEF LoadFrom, Session!Load, Session!None, Session!Absent
<1>3. {source', cache'} \subseteq [Session!NamesOf(service') -> 0 .. MaxChanges + 1]
  BY <1>1, <1>2
<1>4. /\ sessionPc' = "read" /\ item' = 1 /\ tries' = 0 /\ result' = "none" /\ asked' = 0
      /\ UNCHANGED changes
  BY DEF LoadFrom, Session!Load, Session!Begin
<1>5. item' \in 1 .. Len(method') + 1 /\ tries' \in 0 .. RetryCount /\ asked' \in 0 .. MaxAsked
  BY <1>1, <1>4, MetadataServicesAssumption
<1>6. Session!NamesOf(service)' = Session!NamesOf(service')
  BY DEF Session!NamesOf, Session!Services
<1>7. QED
  BY <1>1, <1>3, <1>4, <1>5, <1>6 DEF SessionTypeInv, Session!TypeOK

LEMMA AskSessionTypeInv ==
  ASSUME SessionTypeInv, Session!Ask
  PROVE  SessionTypeInv'
<1>1. Len(method') \in Nat
  BY ServicesHaveMethods, Methods
  DEF Session!Ask, Session!Begin, Session!Used, HasMethods, SessionTypeInv, Session!TypeOK
<1>2. asked' \in 0 .. MaxAsked
  BY MetadataServicesAssumption DEF Session!Ask, SessionTypeInv, Session!TypeOK
<1>3. Session!NamesOf(service)' = Session!NamesOf(service)
  BY DEF Session!Ask, Session!NamesOf
<1>4. QED
  BY <1>1, <1>2, <1>3, MetadataServicesAssumption
  DEF Session!Ask, Session!Begin, SessionTypeInv, Session!TypeOK

LEMMA PublishSessionTypeInv ==
  ASSUME SessionTypeInv, Session!Publish
  PROVE  SessionTypeInv'
<1>1. UNCHANGED <<sessionPc, service, method, item, tries, cache, result, asked>>
  BY DEF Session!Publish
<1>2. changes' \in 0 .. MaxChanges /\ changes + 2 \in 0 .. MaxChanges + 1
  <2>1. changes \in 0 .. MaxChanges /\ changes < MaxChanges /\ changes' = changes + 1
    BY DEF Session!Publish, SessionTypeInv, Session!TypeOK
  <2>2. QED
    BY <2>1, Counts
<1>3. source' \in [Session!NamesOf(service) -> 0 .. MaxChanges + 1]
  <2>1. PICK n \in DOMAIN source, v \in {Session!Absent, changes + 2} :
          source' = [source EXCEPT ![n] = v]
    BY DEF Session!Publish
  <2>2. v \in 0 .. MaxChanges + 1
    BY <1>2, <2>1, MetadataServicesAssumption DEF Session!Absent
  <2>3. source \in [Session!NamesOf(service) -> 0 .. MaxChanges + 1]
    BY DEF SessionTypeInv, Session!TypeOK
  <2>4. QED
    BY <2>1, <2>2, <2>3
<1>4. Session!NamesOf(service)' = Session!NamesOf(service)
  BY <1>1 DEF Session!NamesOf
<1>5. QED
  BY <1>1, <1>2, <1>3, <1>4 DEF SessionTypeInv, Session!TypeOK

LEMMA ReadSessionTypeInv ==
  ASSUME SessionTypeInv, Session!Next
  PROVE  SessionTypeInv'
<1>1. UNCHANGED <<service, source, changes, asked>>
  BY DEF Session!Next, Session!Finished, Session!Cached, Session!Answer, Session!NotExisting,
     Session!Retry, Session!Overlook, Session!GiveUp, Session!Missing, Session!End, Session!MoveTo
<1>2. Session!NamesOf(service)' = Session!NamesOf(service)
  BY <1>1 DEF Session!NamesOf
<1>3. cache' \in [Session!NamesOf(service) -> 0 .. MaxChanges + 1]
  <2>1. CASE UNCHANGED cache
    BY <2>1 DEF SessionTypeInv, Session!TypeOK
  <2>2. CASE Session!Answer
    BY <2>2 DEF Session!Answer, SessionTypeInv, Session!TypeOK
  <2>3. QED
    BY <2>1, <2>2
    DEF Session!Next, Session!Finished, Session!Cached, Session!NotExisting, Session!Retry,
        Session!Overlook, Session!GiveUp, Session!Unanswered, Session!Requesting
<1>4. /\ sessionPc' \in {"idle", "read"} /\ result' \in {"none", "ok", "absent", "failed"}
      /\ Len(method') \in Nat /\ item' \in 1 .. Len(method') + 1
  <2>1. CASE \E outcome \in {"ok", "absent", "failed"} : Session!End(outcome)
    BY <2>1 DEF Session!End
  <2>2. CASE \E n : Session!MoveTo(item, n) \/ (item <= Len(method) /\ Session!MoveTo(item + 1, n))
    BY <2>2 DEF Session!MoveTo, SessionTypeInv, Session!TypeOK
  <2>3. CASE Session!Retry
    BY <2>3 DEF Session!Retry, SessionTypeInv, Session!TypeOK
  <2>4. QED
    BY <2>1, <2>2, <2>3
    DEF Session!Next, Session!Finished, Session!Cached, Session!Answer, Session!NotExisting,
        Session!Overlook, Session!GiveUp, Session!Missing, Session!Unanswered, Session!Requesting,
        Session!Uncached, Session!Reading
<1>5. tries' \in 0 .. RetryCount
  <2>1. CASE tries' = 0
    BY <2>1, MetadataServicesAssumption
  <2>2. CASE Session!Retry
    BY <2>2, MetadataServicesAssumption
    DEF Session!Retry, Session!CanRetry, SessionTypeInv, Session!TypeOK
  <2>3. QED
    BY <2>1, <2>2
    DEF Session!Next, Session!Finished, Session!Cached, Session!Answer, Session!NotExisting,
        Session!Overlook, Session!GiveUp, Session!Missing, Session!End, Session!MoveTo
<1>6. QED
  BY <1>1, <1>2, <1>3, <1>4, <1>5 DEF SessionTypeInv, Session!TypeOK

-----------------------------------------------------------------------------
(* Types of what the Azure service keeps, and of the native functions. *)

\* The counters of the search, what it found, what is reported, and the outcome.
CountTypeInv ==
  /\ searches \in 0 .. DhcpTries /\ attempts \in 0 .. BindAttempts /\ clock \in 0 .. Timeout
  /\ azureTries \in 0 .. RetryCount

SearchTypeInv == endpoint \in {"none", "dhcp", "fallback"} /\ version \in BOOLEAN

AzurePlaces ==
  {"idle", "bind", "receive", "version", "file", "loaded", "not loaded", "start", "id", "main",
   "certs", "env", "thumbprint", "outcome", "failing", "completing", "over", "aborted"}

ReportTypeInv ==
  /\ fabric \in Azure!Fabric /\ incarnation \in 1 .. MaxChanges + 1
  /\ goal.incarnation \in 0 .. MaxChanges + 1
  /\ shown \in [state : Azure!Health, incarnation : 0 .. MaxChanges + 1]

RunTypeInv == ok \in BOOLEAN /\ reboot \in BOOLEAN /\ unheard \in BOOLEAN

AzureTypeInv ==
  azurePc \in AzurePlaces /\ CountTypeInv /\ SearchTypeInv /\ ReportTypeInv /\ RunTypeInv

LEMMA AzureTypesAreNamed == AzureTypeInv => Azure!TypeOK
BY DEF AzureTypeInv, AzurePlaces, CountTypeInv, SearchTypeInv, ReportTypeInv, RunTypeInv,
   Azure!TypeOK

LEMMA InitAzureTypeInv ==
  ASSUME Azure!Init
  PROVE  AzureTypeInv
<1>1. fabric \in Azure!Fabric
  BY MetadataServicesAssumption DEF Azure!Init
<1>2. fabric.shown \in Azure!Health
  BY <1>1 DEF Azure!Fabric
<1>3. CountTypeInv
  BY Counts DEF Azure!Init, CountTypeInv
<1>4. ReportTypeInv
  BY <1>1, <1>2, Counts DEF Azure!Init, ReportTypeInv, Azure!NoGoal
<1>5. QED
  BY <1>3, <1>4 DEF Azure!Init, AzureTypeInv, AzurePlaces, SearchTypeInv, RunTypeInv

LEMMA LoadAzureTypeInv ==
  ASSUME AzureTypeInv, Azure!Load
  PROVE  AzureTypeInv'
<1>1. CountTypeInv'
  BY Counts DEF Azure!Load, AzureTypeInv, CountTypeInv
<1>2. SearchTypeInv' /\ ReportTypeInv' /\ RunTypeInv'
  BY DEF Azure!Load, Azure!runVars, AzureTypeInv, SearchTypeInv, ReportTypeInv, RunTypeInv
<1>3. QED
  BY <1>1, <1>2 DEF Azure!Load, AzureTypeInv, AzurePlaces

LEMMA MoveAzureTypeInv ==
  ASSUME AzureTypeInv, Azure!Move
  PROVE  AzureTypeInv'
<1>1. PICK s \in {"Started", "Stopped"} : fabric' = [fabric EXCEPT !.state = s]
  BY DEF Azure!Move
<1>2. fabric' \in Azure!Fabric
  BY <1>1 DEF AzureTypeInv, ReportTypeInv, Azure!Fabric
<1>3. incarnation' \in 1 .. MaxChanges + 1
  BY Counts DEF Azure!Move, AzureTypeInv, ReportTypeInv
<1>4. QED
  BY <1>2, <1>3
  DEF Azure!Move, Azure!dhcpVars, Azure!runVars, AzureTypeInv, CountTypeInv, SearchTypeInv,
      ReportTypeInv, RunTypeInv

\* The steps of the search and of the run, with the counters each one moves.
LEMMA StepAzureTypeInv ==
  ASSUME AzureTypeInv, Azure!Searching \/ Azure!Running
  PROVE  AzureTypeInv'
<1> USE DEF Azure!Searching, Azure!Running
<1>1. UNCHANGED <<fabric, incarnation>>
  BY DEF Azure!Bind, Azure!BindAgain, Azure!BindFails, Azure!Reply, Azure!OtherReply,
         Azure!NoReply, Azure!CheckVersion, Azure!ReadFile, Azure!NoAnswer, Azure!Requesting,
         Azure!Provision, Azure!FetchGoal, Azure!NotStarted, Azure!InstanceId, Azure!Post,
         Azure!PostLost, Azure!Plugin, Azure!Certs, Azure!CertsFail, Azure!Environment,
         Azure!Thumbprint, Azure!PluginFails, Azure!PluginReboots, Azure!StageOver, Azure!Outcome,
         Azure!Unanswered, Azure!Raised
<1>2. azurePc' \in AzurePlaces
  <2>1. CASE Azure!Raised /\ azurePc \in Azure!Asking
    BY <2>1 DEF Azure!Raised, Azure!Asking, AzurePlaces
  <2>2. CASE UNCHANGED azurePc
    BY <2>2 DEF AzureTypeInv
  <2>3. CASE Azure!BindFails \/ Azure!NoReply \/ Azure!Reply
    BY <2>3 DEF Azure!BindFails, Azure!NoReply, Azure!Reply, Azure!NotFound, Azure!Found,
       AzurePlaces
  <2>4. CASE Azure!Bind \/ Azure!CheckVersion \/ Azure!ReadFile \/ Azure!Provision
             \/ Azure!InstanceId \/ Azure!Post \/ Azure!Plugin \/ Azure!Certs
             \/ Azure!Environment \/ Azure!Thumbprint \/ Azure!PluginReboots
             \/ Azure!StageOver \/ Azure!Outcome
    BY <2>4 DEF Azure!Bind, Azure!CheckVersion, Azure!ReadFile, Azure!Provision,
       Azure!InstanceId, Azure!Post, Azure!Plugin, Azure!Certs, Azure!Environment,
       Azure!Thumbprint, Azure!PluginReboots, Azure!StageOver, Azure!Outcome, Azure!Step,
       AzurePlaces
  <2>5. CASE Azure!Unanswered
    BY <2>1, <2>2, <2>5 DEF Azure!Unanswered
  <2>6. CASE Azure!NotStarted \/ Azure!CertsFail
    BY <2>1, <2>6 DEF Azure!NotStarted, Azure!CertsFail, Azure!NeedsGoal, Azure!Asking
  <2>7. QED
    BY <2>2, <2>3, <2>4, <2>5, <2>6
    DEF Azure!BindAgain, Azure!OtherReply, Azure!FetchGoal, Azure!PluginFails, Azure!NoAnswer,
        Azure!Requesting, Azure!PostLost
<1>3. CountTypeInv'
  <2>0. /\ searches \in 0 .. DhcpTries /\ attempts \in 0 .. BindAttempts
        /\ clock \in 0 .. Timeout /\ azureTries \in 0 .. RetryCount
    BY DEF AzureTypeInv, CountTypeInv
  <2>1. CASE UNCHANGED <<searches, attempts, clock>> /\ azureTries' \in {0, azureTries}
    BY <2>0, <2>1, Counts DEF CountTypeInv
  <2>2. CASE Azure!BindFails \/ Azure!NoReply
    <3>1. /\ searches' = searches \/ (searches # 0 /\ searches' = searches - 1)
          /\ attempts' \in {attempts, 1} /\ clock' = 0 /\ azureTries' = azureTries
      BY <2>2 DEF Azure!BindFails, Azure!NoReply, Azure!NotFound
    <3>2. QED
      BY <2>0, <3>1, Counts DEF CountTypeInv
  <2>3. CASE Azure!Bind \/ Azure!Reply
    BY <2>0, <2>3, Counts DEF Azure!Bind, Azure!Reply, CountTypeInv
  <2>4. CASE Azure!BindAgain
    BY <2>0, <2>4, Counts DEF Azure!BindAgain, CountTypeInv
  <2>5. CASE Azure!OtherReply
    BY <2>0, <2>5, Counts DEF Azure!OtherReply, CountTypeInv
  <2>6. CASE Azure!Raised
    BY <2>1, <2>6 DEF Azure!Raised, Azure!dhcpVars
  <2>7. CASE Azure!Unanswered
    <3>1. CASE azureTries < RetryCount /\ azureTries' = azureTries + 1 /\ UNCHANGED Azure!dhcpVars
      BY <2>0, <3>1, Counts DEF Azure!dhcpVars, CountTypeInv
    <3>2. QED
      BY <2>6, <2>7, <3>1 DEF Azure!Unanswered
  <2>8. CASE Azure!CheckVersion \/ Azure!ReadFile
    BY <2>1, <2>8 DEF Azure!CheckVersion, Azure!ReadFile, Azure!dhcpVars
  <2>9. QED
    BY <2>1, <2>2, <2>3, <2>4, <2>5, <2>6, <2>7, <2>8
    DEF Azure!NotStarted, Azure!CertsFail, Azure!Provision, Azure!FetchGoal, Azure!InstanceId,
        Azure!Post, Azure!PostLost, Azure!NoAnswer, Azure!Requesting, Azure!Plugin, Azure!Certs,
        Azure!Environment, Azure!Thumbprint, Azure!PluginFails, Azure!PluginReboots,
        Azure!StageOver, Azure!Outcome, Azure!dhcpVars
<1>4. SearchTypeInv'
  <2>1. CASE UNCHANGED <<endpoint, version>>
    BY <2>1 DEF AzureTypeInv, SearchTypeInv
  <2>2. CASE Azure!BindFails \/ Azure!NoReply \/ Azure!Reply
    BY <2>2 DEF Azure!BindFails, Azure!NoReply, Azure!Reply, Azure!NotFound, Azure!Found,
       AzureTypeInv, SearchTypeInv
  <2>3. CASE Azure!CheckVersion
    BY <2>3 DEF Azure!CheckVersion, Azure!dhcpVars, AzureTypeInv, SearchTypeInv
  <2>4. QED
    BY <2>1, <2>2, <2>3
    DEF Azure!NotStarted, Azure!CertsFail, Azure!Provision, Azure!FetchGoal, Azure!InstanceId,
        Azure!Post, Azure!PostLost, Azure!NoAnswer, Azure!Requesting, Azure!Plugin, Azure!Certs,
        Azure!Environment, Azure!Thumbprint, Azure!PluginFails, Azure!PluginReboots,
        Azure!StageOver, Azure!Outcome, Azure!dhcpVars, Azure!Bind, Azure!BindAgain,
        Azure!OtherReply, Azure!ReadFile, Azure!Unanswered, Azure!Raised
<1>5. ReportTypeInv'
  <2>1. CASE UNCHANGED <<goal, shown>>
    BY <1>1, <2>1 DEF AzureTypeInv, ReportTypeInv
  <2>2. CASE Azure!FetchGoal
    <3>1. goal'.incarnation = incarnation /\ shown' = shown
      BY <2>2 DEF Azure!FetchGoal
    <3>2. QED
      BY <1>1, <3>1, Counts DEF AzureTypeInv, ReportTypeInv
  <2>3. CASE (Azure!Post \/ Azure!PostLost) /\ azurePc \in {"start", "failing", "completing"}
    <3>1. shown' = Azure!Report /\ goal' = goal
      BY <2>3 DEF Azure!Post, Azure!PostLost
    <3>2. Azure!Report \in [state : Azure!Health, incarnation : 0 .. MaxChanges + 1]
      BY <2>3 DEF Azure!Report, Azure!Health, AzureTypeInv, ReportTypeInv
    <3>3. QED
      BY <1>1, <3>1, <3>2 DEF AzureTypeInv, ReportTypeInv
  <2>4. QED
    BY <2>1, <2>2, <2>3
    DEF Azure!Bind, Azure!BindAgain, Azure!BindFails, Azure!Reply, Azure!OtherReply, Azure!NoReply,
        Azure!CheckVersion, Azure!ReadFile, Azure!NoAnswer, Azure!Requesting, Azure!Provision,
        Azure!NotStarted, Azure!InstanceId, Azure!Post, Azure!PostLost, Azure!Reporting,
        Azure!Plugin, Azure!Certs, Azure!CertsFail, Azure!Environment, Azure!Thumbprint,
        Azure!PluginFails, Azure!PluginReboots, Azure!StageOver, Azure!Outcome, Azure!runVars
<1>6. RunTypeInv'
  <2>1. CASE UNCHANGED <<ok, reboot, unheard>>
    BY <2>1 DEF AzureTypeInv, RunTypeInv
  <2>2. CASE Azure!Raised
    BY <2>2, Zenon DEF Azure!Raised, AzureTypeInv, RunTypeInv
  <2>3. CASE Azure!PluginFails \/ Azure!PluginReboots
    BY <2>3 DEF Azure!PluginFails, Azure!PluginReboots, AzureTypeInv, RunTypeInv
  <2>4. QED
    BY <2>1, <2>2, <2>3
    DEF Azure!Bind, Azure!BindAgain, Azure!BindFails, Azure!Reply, Azure!OtherReply, Azure!NoReply,
        Azure!CheckVersion, Azure!ReadFile, Azure!NoAnswer, Azure!Requesting, Azure!Provision,
        Azure!FetchGoal, Azure!NotStarted, Azure!InstanceId, Azure!Post, Azure!PostLost,
        Azure!Plugin, Azure!Certs, Azure!CertsFail, Azure!Environment, Azure!Thumbprint,
        Azure!StageOver, Azure!Outcome, Azure!Unanswered, Azure!runVars
<1>7. QED
  BY <1>2, <1>3, <1>5, <1>6, <1>4 DEF AzureTypeInv

LEMMA NextNativeTypes ==
  ASSUME Native!TypeOK, Native!Begin \/ Native!Next
  PROVE  Native!TypeOK'
<1> USE DEF Native!TypeOK
<1>1. CASE Native!Begin
  BY <1>1 DEF Native!Begin
<1>2. CASE Native!Next
  <2>1. function' = function
    BY <1>2 DEF Native!Next, Native!Raise, Native!Succeed, Native!Obtain, Native!NotFound,
       Native!Apply, Native!Release, Native!Forget, Native!Enter, Native!Choose, Native!Again,
       Native!Enough, Native!Exit
  <2>2. held' \in [Native!Resources -> {"none", "live", "invalid", "freed"}]
    BY <1>2 DEF Native!Next, Native!Raise, Native!Succeed, Native!Obtain, Native!NotFound,
       Native!Apply, Native!Release, Native!Forget, Native!Enter, Native!Choose, Native!Again,
       Native!Enough, Native!Exit
  <2>3. wrong' \in BOOLEAN /\ raised' \in BOOLEAN
    BY <1>2, Zenon DEF Native!Next, Native!Raise, Native!Succeed, Native!Obtain, Native!NotFound,
       Native!Apply, Native!Release, Native!Forget, Native!Enter, Native!Choose, Native!Again,
       Native!Enough, Native!Exit
  <2>4. rounds' \in 0 .. MaxRounds
    <3>1. rounds' = rounds \/ (rounds < MaxRounds /\ rounds' = rounds + 1)
      BY <1>2 DEF Native!Next, Native!Raise, Native!Succeed, Native!Obtain, Native!NotFound,
         Native!Apply, Native!Release, Native!Forget, Native!Enter, Native!Choose,
         Native!Again, Native!Enough, Native!Exit
    <3>2. QED
      BY <3>1, Counts
  <2>5. QED
    BY <2>1, <2>2, <2>3, <2>4
<1>3. QED
  BY <1>1, <1>2

-----------------------------------------------------------------------------
(* Types of the composition. *)

KnownServices == DOMAIN Session!Services \cup {"AzureService"}

\* The services ahead are configured ones; the one that loads or is used was tried.
TurnTypeInv ==
  /\ turn \in {"off", "search", "drive", "azure", "load", "use", "native", "over", "hung"}
  /\ cloud \in Clouds
  /\ untried \in Seq(KnownServices) /\ Len(untried) <= Len(cloud.services)
  /\ turn = "drive" => loading \in DOMAIN Label

ServicesTypeInv ==
  TurnTypeInv /\ AzureTypeInv /\ SessionTypeInv /\ Native!TypeOK

LEMMA NextTurnTypeInv ==
  ASSUME TurnTypeInv, [Next]_vars
  PROVE  TurnTypeInv'
<1>0. cloud' = cloud
  BY DEF vars, Next, Own, Hang, Start, TryService, NoService, NotMade, SearchDrive, DriveFound,
         DriveNotFound, SearchAzure, AzureOver, Read, LoadOver, Ask, RunAzure, Cleanup, Publish,
         Move, CallNative, RunNative
<1>1. CASE /\ UNCHANGED <<untried, loading>>
           /\ turn' \in {turn, "search", "load", "use", "native", "over", "hung"}
  BY <1>0, <1>1 DEF TurnTypeInv
<1>2. CASE TryService
  <2>1. untried' \in Seq(KnownServices) /\ Len(untried') <= Len(cloud.services)
    <3>1. cloud.services \in Seq(KnownServices)
      BY MetadataServicesAssumption DEF TurnTypeInv, KnownServices
    <3>2. untried # <<>> /\ untried' = Tail(untried)
      BY <1>2 DEF TryService
    <3>3. untried' \in Seq(KnownServices) /\ Len(untried') = Len(untried) - 1
      BY <3>2 DEF TurnTypeInv
    <3>4. Len(untried) \in Nat /\ Len(cloud.services) \in Nat
      BY <3>1 DEF TurnTypeInv
    <3>5. QED
      BY <3>3, <3>4 DEF TurnTypeInv
  <2>2. QED
    BY <1>0, <1>2, <2>1 DEF TryService, TurnTypeInv
<1>3. CASE NoService \/ NotMade
  BY <1>0, <1>3 DEF NoService, NotMade, TurnTypeInv
<1>4. QED
  BY <1>0, <1>1, <1>2, <1>3
  DEF vars, Next, Own, Hang, Start, SearchDrive, DriveFound, DriveNotFound, SearchAzure, AzureOver,
      Read, LoadOver, Ask, RunAzure, Cleanup, Publish, Move, CallNative, RunNative

LEMMA QuietSession ==
  ASSUME SessionTypeInv, UNCHANGED sessionVars
  PROVE  SessionTypeInv'
<1>1. UNCHANGED <<sessionPc, service, source, method, item, tries, cache, result, changes, asked>>
  BY DEF sessionVars
<1>2. Session!NamesOf(service)' = Session!NamesOf(service)
  BY <1>1 DEF Session!NamesOf
<1>3. QED
  BY <1>1, <1>2 DEF SessionTypeInv, Session!TypeOK

LEMMA NextSession ==
  ASSUME TurnTypeInv, SessionTypeInv, [Next]_vars
  PROVE  SessionTypeInv'
<1>1. CASE UNCHANGED sessionVars
  BY <1>1, QuietSession
<1>2. CASE TryService
  <2>1. loading' \in KnownServices
    BY <1>2 DEF TryService, TurnTypeInv
  <2>2. CASE loading' \notin DOMAIN Label \cup {"AzureService"} /\ LoadFrom(loading')
    BY <2>1, <2>2, LoadSessionTypeInv DEF KnownServices
  <2>3. QED
    BY <1>1, <1>2, <2>2 DEF TryService
<1>3. CASE DriveFound
  <2>1. loading \in DOMAIN Session!Services
    BY <1>3 DEF DriveFound, TurnTypeInv, Label, Session!Services
  <2>2. QED
    BY <1>3, <2>1, LoadSessionTypeInv DEF DriveFound
<1>4. CASE Ask \/ Read \/ Publish
  BY <1>4, AskSessionTypeInv, ReadSessionTypeInv, PublishSessionTypeInv DEF Ask, Read, Publish
<1>5. QED
  BY <1>1, <1>2, <1>3, <1>4
  DEF vars, Next, Own, Hang, Start, NoService, NotMade, SearchDrive, DriveNotFound, SearchAzure,
      AzureOver, LoadOver, RunAzure, Cleanup, Move, CallNative, RunNative

LEMMA NextAzure ==
  ASSUME AzureTypeInv, [Next]_vars
  PROVE  AzureTypeInv'
<1>1. CASE UNCHANGED azureVars
  BY <1>1 DEF azureVars, AzureTypeInv, CountTypeInv, SearchTypeInv, ReportTypeInv, RunTypeInv
<1>2. CASE TryService
  BY <1>1, <1>2, LoadAzureTypeInv DEF TryService
<1>3. CASE SearchAzure \/ RunAzure \/ Move
  BY <1>3, StepAzureTypeInv, MoveAzureTypeInv DEF SearchAzure, RunAzure, Move
<1>4. QED
  BY <1>1, <1>2, <1>3
  DEF vars, Next, Own, Hang, Start, NoService, NotMade, SearchDrive, DriveFound, DriveNotFound,
      AzureOver, Read, LoadOver, Ask, Cleanup, Publish, CallNative, RunNative

LEMMA NextNative ==
  ASSUME Native!TypeOK, [Next]_vars
  PROVE  Native!TypeOK'
<1>1. CASE UNCHANGED nativeVars
  BY <1>1 DEF nativeVars, Native!TypeOK
<1>2. CASE CallNative \/ RunNative
  BY <1>2, NextNativeTypes DEF CallNative, RunNative
<1>3. QED
  BY <1>1, <1>2
  DEF vars, Next, Own, Hang, Start, TryService, NoService, NotMade, SearchDrive, DriveFound,
      DriveNotFound, SearchAzure, AzureOver, Read, LoadOver, Ask, RunAzure, Cleanup, Publish, Move

LEMMA InitServicesTypeInv == Init => ServicesTypeInv
<1>1. SUFFICES ASSUME Init PROVE ServicesTypeInv
  OBVIOUS
<1>2. TurnTypeInv
  <2>1. cloud \in Clouds /\ untried = cloud.services /\ turn = "off"
    BY <1>1 DEF Init
  <2>2. cloud.services \in Seq(KnownServices)
    BY <2>1, MetadataServicesAssumption DEF KnownServices
  <2>3. QED
    BY <2>1, <2>2 DEF TurnTypeInv
<1>3. Native!TypeOK
  <2>1. rounds \in 0 .. MaxRounds
    BY <1>1, Counts DEF Init, Native!Init
  <2>2. wrong \in BOOLEAN /\ raised \in BOOLEAN /\ function = "none"
    BY <1>1 DEF Init, Native!Init
  <2>3. held \in [Native!Resources -> {"none", "live", "invalid", "freed"}]
    BY <1>1 DEF Init, Native!Init
  <2>4. QED
    BY <2>1, <2>2, <2>3 DEF Native!TypeOK
<1>4. QED
  BY <1>1, <1>2, <1>3, InitAzureTypeInv, InitSessionTypeInv DEF Init, ServicesTypeInv

\* Whatever the clouds have, and whichever requests, drives and calls fail, discovery, the
\* services and the native functions keep their types.
THEOREM ServiceTypes == Spec => []TypeOK
<1>1. ServicesTypeInv /\ [Next]_vars => ServicesTypeInv'
  BY NextTurnTypeInv, NextSession, NextAzure, NextNative DEF ServicesTypeInv
<1>2. ServicesTypeInv /\ DriveInv => TypeOK
  BY AzureTypesAreNamed, DriveTypesAreNamed
  DEF ServicesTypeInv, TurnTypeInv, SessionTypeInv, DriveInv, DriveTypeInv, PlaceInv, TypeOK
<1>3. QED
  BY <1>1, <1>2, InitServicesTypeInv, DriveInvHolds, PTL DEF Spec

=============================================================================
