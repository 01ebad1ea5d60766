----------------------------- MODULE KioSubmit -----------------------------
(***************************************************************************)
(* Where on the disk an I/O lands: kio_io_submit() turns the offset into a *)
(* sector of the device it opened, which may be a partition, and hands the *)
(* bio over in one of three ways (driver/kio_io.c).                        *)
(***************************************************************************)
EXTENDS Integers

CONSTANTS
  PartStart,     \* first sector of the device on its disk, 0 if it is the disk
  BdevHasBdPart  \* BDEV_HAS_BD_PART: the build is for a kernel before 5.11

ASSUME KioSubmitAssumption ==
  /\ PartStart \in Nat
  /\ BdevHasBdPart \in BOOLEAN

\* io_submit_mode; any other value is the same as 0.
SubmitModes == 0 .. 3

SECTOR_SIZE == 512

\* off >> SECTOR_SHIFT
Sector(off) == off \div SECTOR_SIZE

\* The number of the device's partition, 0 if it is the disk.
PartNo == IF PartStart = 0 THEN 0 ELSE 1

\* The compatible bio_set_dev() keeps the disk and the partition number in the
\* bio; a later kernel keeps the device itself.
bio_set_dev(bio) == [bio EXCEPT !.bi_partno = IF BdevHasBdPart THEN PartNo ELSE @]

\* bio_alloc(), the sector and the device.
NewBio(off) == bio_set_dev([bi_sector |-> Sector(off), bi_partno |-> 0])

\* submit_bio() and generic_make_request() add the start of the partition.
BlockLayerRemap(bio) == [bio EXCEPT !.bi_sector = @ + PartStart]

\* p->start_sect
kio_disk_get_part(partno) == IF partno = 0 THEN 0 ELSE PartStart

\* Mutant: the sector is left as it is.
blk_partition_remap_none(bio) == bio

\* The driver's own version; the device is a partition if it is not its whole
\* disk.  The test of bi_partno at line 179 leaves at once for a partition.
blk_partition_remap(bio) ==
  IF PartNo = 0 \/ (BdevHasBdPart /\ bio.bi_partno # 0) THEN bio
  ELSE [bio EXCEPT !.bi_sector =
          @ + IF BdevHasBdPart THEN kio_disk_get_part(bio.bi_partno) ELSE PartStart]

\* make_request_fn() and fops->submit_bio() take the sector as it is.
SectorOnDisk(mode, off) ==
  LET bio == NewBio(off)
  IN  (IF mode = 2 THEN blk_partition_remap(bio) ELSE BlockLayerRemap(bio)).bi_sector
=============================================================================
