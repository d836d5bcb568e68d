--------------------------------- MODULE FAL ---------------------------------
(***************************************************************************)
(* The flash abstraction layer (port/fal) over the ESP32 port              *)
(* (port/fal_flash_esp32_port.c): its start, and the way of one access     *)
(* from an address inside a database to a range of the device.             *)
(*                                                                         *)
(* There is one device with one entry per database in the partition table  *)
(* of fal_cfg.h; the device is the ESP-IDF partition "flashdb".            *)
(***************************************************************************)
EXTENDS Integers, FiniteSets

CONSTANTS
    Db,         \* the databases, one partition each
    Offset,     \* FAL_PART_TABLE: where each partition starts
    PartLen,    \* and how long it is
    DevLen,     \* FDB_TOTAL_PARTITION_SIZE
    EspLen,     \* the size partitions.csv gives "flashdb"
    Block,      \* FLASH_ERASE_MIN_SIZE
    Word,       \* 2^32: addresses and sizes are uint32_t
    SecSize     \* db->sec_size, 0 when FDB_*_CTRL_SET_SEC_SIZE was not used

Partition(d) == Offset[d] .. Offset[d] + PartLen[d] - 1

ASSUME DbAssumption == IsFiniteSet(Db) /\ Db # {}
ASSUME SizeAssumption ==
    /\ Block \in Nat \ {0} /\ Word \in Nat /\ DevLen \in Nat /\ EspLen \in Nat
    /\ Offset \in [Db -> Nat] /\ PartLen \in [Db -> Nat] /\ SecSize \in [Db -> Nat]
\* What fal_cfg.h and the notes in partitions.csv say of the table.
ASSUME TableAssumption ==
    /\ \A d \in Db : Offset[d] % Block = 0 /\ PartLen[d] % Block = 0
    /\ \A d \in Db : Offset[d] + PartLen[d] <= DevLen
    /\ \A d, e \in Db : d = e \/ Offset[d] + PartLen[d] <= Offset[e]
                              \/ Offset[e] + PartLen[e] <= Offset[d]
    /\ DevLen <= EspLen /\ EspLen < Word

VARIABLES
    flashed,    \* the chip has a partition "flashdb"
    port,       \* `partition' of the port is not NULL
    devInit,    \* init_ok of fal_flash.c
    falInit     \* init_ok of fal_partition.c and of fal.c

falVars == <<flashed, port, devInit, falInit>>

-----------------------------------------------------------------------------
(* fal_init, called by main and again by every fdb_kvdb_init, fdb_tsdb_init *)

FalStart ==
    /\ flashed \in BOOLEAN
    /\ port = FALSE /\ devInit = FALSE /\ falInit = FALSE

\* check_and_update_part_cache
TableFits == \A d \in Db : Offset[d] < DevLen

\* init of the port: esp_partition_find_first; the result is kept nowhere else.
PortInit == port' = flashed

\* fal_flash_init calls it once and does not look at what it returns.
FlashInit ==
    /\ IF devInit THEN UNCHANGED port ELSE PortInit
    /\ devInit' = TRUE

\* fal_partition_init goes through the table until it is found good.
PartitionInit == falInit' = (falInit \/ TableFits)

FalInit == FlashInit /\ PartitionInit /\ UNCHANGED flashed

\* _fdb_init_ex: the checks of the geometry
SectorSize(d) == IF SecSize[d] = 0 THEN Block ELSE SecSize[d]
GeometryOk(d) ==
    /\ SectorSize(d) % Block = 0
    /\ PartLen[d] % SectorSize(d) = 0
    /\ PartLen[d] \div SectorSize(d) >= 2

-----------------------------------------------------------------------------
(* fal_partition_read, fal_partition_write, fal_partition_erase *)

Kinds == {"read", "write", "erase"}

\* The sum is a uint32_t.  Mutated form: the size is not added.
InBound_AddrOnly(d, addr, size) == addr <= PartLen[d]
InBound(d, addr, size) == (addr + size) % Word <= PartLen[d]

\* The port rounds the size of an erase up to whole blocks.
Rounded(size) == ((size + Block - 1) \div Block) * Block
PortSize(kind, size) == IF kind = "erase" THEN Rounded(size) ELSE size
PortAddr(d, addr) == (Offset[d] + addr) % Word

\* The checks of esp_partition_read, _write and _erase_range (ESP-IDF).
EspAccepts(kind, off, size) ==
    /\ off <= EspLen /\ off + size <= EspLen
    /\ kind = "erase" => off % Block = 0

\* An access gets as far as the device, and what it touches there.
Reaches(kind, d, addr, size) ==
    /\ InBound(d, addr, size)
    /\ port
    /\ EspAccepts(kind, PortAddr(d, addr), PortSize(kind, size))
Touched(kind, d, addr, size) ==
    PortAddr(d, addr) .. PortAddr(d, addr) + PortSize(kind, size) - 1
=============================================================================
