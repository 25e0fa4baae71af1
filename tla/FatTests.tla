------------------------------- MODULE FatTests -------------------------------
(***************************************************************************)
(* The SD card and the programs that test a FAT32 driver on it,            *)
(* labs/15-fat32: what the checks of the master boot record, the boot      *)
(* sector and the FAT admit, and thirteen programs that run one after the  *)
(* other, in any order, on the same card, with the power cut anywhere.     *)
(* fat32.c checks and ends its calls as below; between the two it is for   *)
(* the student to complete, and what is there is what its comments say.    *)
(***************************************************************************)
EXTENDS Integers, Sequences

CONSTANT Cards    \* the cards there are at first, from card_mk

VARIABLES
  card,     \* the sectors that are checked, and the files by name
  ftest,    \* the program: its name, what is left of it, old, how it ended
  fstate,   \* what the program has initialised: "sd", "fat32"
  before    \* history: the files when the program began
fatvars == <<card, ftest, fstate, before>>

-----------------------------------------------------------------------------
(* The checks.                                                             *)
is_pow2(x) == x \in {0} \cup {2^k : k \in 0 .. 7}
mbr_part_is_fat32(t) == t \in {11, 12}
known_types ==
  {0, 1, 4, 5, 6, 7, 11, 12, 14, 15, 17, 20, 22, 27, 28, 30, 66, 130, 131, 132, 133, 134, 135, 160, 161,
   165, 166, 168, 169, 171, 183, 184, 238, 239, 251, 252}

mbr_check(mbr) ==
  /\ mbr.sigval = 43605
  /\ mbr_part_is_fat32(mbr.parts[1]) /\ \A i \in 2 .. 4 : mbr.parts[i] = 0
mbr_get_partition(mbr, partno) == mbr.parts[partno + 1]
\* mbr_part_str panics for a type that it does not know.
mbr_partition_print(t) == t \in known_types /\ mbr_part_is_fat32(t)

fat32_volume_id_check(b) ==
  /\ b.bytes_per_sec = 512 /\ b.nfats = 2 /\ b.sig = 43605
  /\ is_pow2(b.sec_per_cluster)
  /\ b.max_files = 0 /\ b.fs_nsec = 0 /\ b.zero = 0 /\ b.nsec_in_fs # 0
  /\ b.info_sec_num = 1 /\ b.backup_boot_loc = 6 /\ b.extended_sig = 41
fat32_fsinfo_check(info) == info = <<"0x41615252", "0x61417272", "0xaa550000">>

FREE_CLUSTER == 0
RESERVED_CLUSTER == 1
BAD_CLUSTER == 268435447
\* The upper four bits of an entry do not count; the values between the last
\* cluster and BAD_CLUSTER panic.
fat32_fat_entry_type(x) ==
  LET low == x.low
  IN CASE low \in {FREE_CLUSTER, RESERVED_CLUSTER, BAD_CLUSTER} -> "no cluster"
       [] low \in 2 .. 268435439 -> "USED_CLUSTER"
       [] low \in 268435440 .. 268435446 -> "panic"
       [] low \in 268435448 .. 268435455 -> "LAST_CLUSTER"
-----------------------------------------------------------------------------
(* The programs: statements, with the name of a file.                      *)
Do(op, name) == [op |-> op, name |-> name]
fat32_mk == <<Do("pi_sd_init", ""), Do("mbr_read", ""), Do("fat32_mk", "")>>
get_root == Append(fat32_mk, Do("fat32_get_root", ""))
readdir == Append(get_root, Do("fat32_readdir", ""))
PASS == <<Do("PASS", "")>>

sd_test == <<Do("pi_sd_init", ""), Do("sigval", "")>> \o PASS
mbr_test == <<Do("pi_sd_init", ""), Do("mbr_read", ""), Do("mbr_check", ""), Do("mbr_print", "")>> \o PASS
driver == <<Do("pi_sd_init", ""), Do("mbr_check", ""), Do("mbr_print", "")>> \o PASS
mk_test == fat32_mk \o PASS
read_and_hash(name) == <<Do("fat32_stat", name), Do("fat32_read", name)>>
ls_test == readdir \o PASS
read_test == readdir \o read_and_hash("CONFIG.TXT") \o PASS
\* These two stop on purpose, for the student to go on.
hash_read ==
  readdir \o read_and_hash("BOOTCODE.BIN") \o read_and_hash("START.ELF") \o read_and_hash("HELLO-F.BIN")
    \o read_and_hash("BOOTLO~1.BIN") \o read_and_hash("CONFIG.TXT") \o read_and_hash("KERNEL.IMG") \o <<Do("unfinished", "")>>
jump == readdir \o read_and_hash("BOOTCODE.BIN") \o read_and_hash("HELLO-F.BIN") \o <<Do("unfinished", "")>>

create_test == readdir \o <<Do("fat32_delete", "TEMP.TXT"), Do("assert create", "TEMP.TXT")>> \o PASS
delete_test == readdir \o <<Do("fat32_create", "TEMP.TXT"), Do("assert delete", "TEMP.TXT")>> \o PASS
rename_test == get_root \o <<Do("old", ""), Do("fat32_rename", "")>> \o PASS
truncate_test == get_root \o <<Do("old", ""), Do("fat32_truncate", "")>> \o PASS
\* Fault: the file of an earlier run is not deleted first.
write_testOnce ==
  readdir \o <<Do("assert create", "HELLO.TXT"), Do("assert write", "HELLO.TXT")>> \o PASS
write_test ==
  readdir \o <<Do("fat32_delete", "HELLO.TXT"), Do("assert create", "HELLO.TXT"), Do("assert write", "HELLO.TXT")>> \o PASS

Test ==
  [sd |-> sd_test, mbr |-> mbr_test, driver |-> driver, mk |-> mk_test, ls |-> ls_test, read |-> read_test,
   hash_read |-> hash_read, jump |-> jump, create |-> create_test, delete |-> delete_test,
   rename |-> rename_test, truncate |-> truncate_test, write |-> write_test]

\* A card with nothing wrong.
card_mk(files) ==
  [mbr |-> [sigval |-> 43605, parts |-> <<12, 0, 0, 0>>],
   boot |-> [bytes_per_sec |-> 512, nfats |-> 2, sig |-> 43605, sec_per_cluster |-> 64, max_files |-> 0, fs_nsec |-> 0,
             zero |-> 0, nsec_in_fs |-> 9, info_sec_num |-> 1, backup_boot_loc |-> 6, extended_sig |-> 41],
   fsinfo |-> <<"0x41615252", "0x61417272", "0xaa550000">>,
   fat |-> <<[top |-> 0, low |-> 3], [top |-> 15, low |-> 268435455]>>,
   files |-> files]

NotRun == [name |-> "", left |-> <<>>, old |-> "", end |-> "reset"]
Init == card \in Cards /\ ftest = NotRun /\ fstate = {} /\ before = card.files
-----------------------------------------------------------------------------
Stmt == Head(ftest.left)
At(ops) == ftest.end = "" /\ ftest.left # <<>> /\ Stmt.op \in ops
Onward == ftest' = [ftest EXCEPT !.left = Tail(@)]
Ends(why) == ftest' = [ftest EXCEPT !.end = why] /\ UNCHANGED <<card, fstate>>
Demand(ok) == IF ok THEN Onward /\ UNCHANGED <<card, fstate>> ELSE Ends("panic")

\* The next program is booted when one has ended, or after the power was cut.
Boot ==
  \E t \in DOMAIN Test :
    /\ ftest' = [name |-> t, left |-> Test[t], old |-> "", end |-> ""]
    /\ fstate' = {} /\ before' = card.files /\ UNCHANGED card

pi_sd_init ==
  \/ At({"pi_sd_init"}) /\ fstate' = fstate \cup {"sd"} /\ Onward /\ UNCHANGED card
  \/ At({"pi_sd_init"}) /\ Ends("card failed")

\* Every read asks for init_p; the card may fail.
pi_sd_read(ok) == Demand("sd" \in fstate /\ ok) \/ Ends("card failed")
ReadSector ==
  \/ At({"sigval"}) /\ pi_sd_read(card.mbr.sigval = 43605)
  \/ At({"mbr_read", "mbr_check"}) /\ pi_sd_read(mbr_check(card.mbr))
PrintPartition == At({"mbr_print"}) /\ Demand(mbr_partition_print(mbr_get_partition(card.mbr, 0)))

\* The driver's calls.  It reads the two sectors and the FAT; a card that
\* fails later is as good as a power cut.
MakeFs ==
  /\ At({"fat32_mk"})
  /\ IF /\ "fat32" \notin fstate /\ mbr_part_is_fat32(card.mbr.parts[1])
        /\ fat32_volume_id_check(card.boot) /\ fat32_fsinfo_check(card.fsinfo)
     THEN fstate' = fstate \cup {"fat32"} /\ Onward /\ UNCHANGED card
     ELSE Ends("panic")
Mounted == "fat32" \in fstate
\* A file is read along its chain of clusters to the one that is the last.
Chained == \A i \in DOMAIN card.fat : fat32_fat_entry_type(card.fat[i]) = IF i = Len(card.fat) THEN "LAST_CLUSTER" ELSE "USED_CLUSTER"
Exists(name) == name \in DOMAIN card.files
fat32_get_root == At({"fat32_get_root"}) /\ Demand(Mounted)
fat32_readdir == At({"fat32_readdir"}) /\ Demand(Mounted)
\* The programs read through what fat32_stat returns, NULL for no such file.
fat32_stat == At({"fat32_stat"}) /\ Demand(Mounted /\ Exists(Stmt.name))
fat32_read == At({"fat32_read"}) /\ Demand(Mounted /\ Chained /\ card.files[Stmt.name] = "intact")
Old ==
  /\ At({"old"})
  /\ IF Mounted /\ (Exists("A.TXT") \/ Exists("B.TXT"))
     THEN /\ ftest' = [ftest EXCEPT !.left = Tail(@), !.old = IF Exists("A.TXT") THEN "A.TXT" ELSE "B.TXT"]
          /\ UNCHANGED <<card, fstate>>
     ELSE Ends("panic")

Without(name) == [f \in DOMAIN card.files \ {name} |-> card.files[f]]
With(files, name, data) == [f \in DOMAIN files \cup {name} |-> IF f = name THEN data ELSE files[f]]
\* Of the names that the programs pass, which ones are 8.3 names.
fat32_is_valid_name(name) == name \in {"A.TXT", "B.TXT", "TEMP.TXT", "HELLO.TXT"}
\* A call that changes the card: it panics when nothing is mounted, and fails
\* or does its work; its result is looked at or not.
Change(ok, files, asserted) ==
  IF ~Mounted THEN Ends("panic")
  ELSE /\ IF ok THEN card' = [card EXCEPT !.files = files] ELSE UNCHANGED card
       /\ ftest' = IF ok \/ ~asserted THEN [ftest EXCEPT !.left = Tail(@)] ELSE [ftest EXCEPT !.end = "panic"]
       /\ UNCHANGED fstate
fat32_delete ==
  /\ At({"fat32_delete", "assert delete"})
  /\ Change(fat32_is_valid_name(Stmt.name) /\ Exists(Stmt.name), Without(Stmt.name), Stmt.op = "assert delete")
fat32_create ==
  /\ At({"fat32_create", "assert create"})
  /\ Change(fat32_is_valid_name(Stmt.name) /\ ~Exists(Stmt.name), With(card.files, Stmt.name, "empty"), Stmt.op = "assert create")
fat32_write == At({"assert write"}) /\ Change(Exists(Stmt.name), With(card.files, Stmt.name, "Hello, World!"), TRUE)
fat32_truncate == At({"fat32_truncate"}) /\ Change(Exists(ftest.old), With(card.files, ftest.old, "empty"), TRUE)
Other(name) == IF name = "A.TXT" THEN "B.TXT" ELSE "A.TXT"
fat32_rename ==
  /\ At({"fat32_rename"})
  /\ LET new == Other(ftest.old)
     IN Change(fat32_is_valid_name(new) /\ Exists(ftest.old) /\ ~Exists(new),
               With(Without(ftest.old), new, card.files[ftest.old]), TRUE)
Finish == At({"PASS", "unfinished"}) /\ Ends(Stmt.op)

Next ==
  \/ Boot
  \/ /\ \/ pi_sd_init \/ ReadSector \/ PrintPartition \/ MakeFs \/ fat32_get_root \/ fat32_readdir \/ fat32_stat \/ fat32_read \/ Old
        \/ fat32_delete \/ fat32_create \/ fat32_write \/ fat32_truncate \/ fat32_rename \/ Finish
     /\ UNCHANGED before
-----------------------------------------------------------------------------
WellFormed(c) ==
  \E t \in {11, 12}, n \in 0 .. 128 :
    /\ is_pow2(n)
    /\ c = [card_mk(c.files) EXCEPT !.mbr.parts[1] = t, !.boot.sec_per_cluster = n]
Own(t) ==
  CASE t \in {"create", "delete"} -> {"TEMP.TXT"} [] t = "write" -> {"HELLO.TXT"}
    [] t \in {"rename", "truncate"} -> {"A.TXT", "B.TXT"} [] OTHER -> {}
Reads(t) ==
  CASE t = "read" -> {"CONFIG.TXT"} [] t = "jump" -> {"BOOTCODE.BIN", "HELLO-F.BIN"}
    [] t = "hash_read" -> {"BOOTCODE.BIN", "START.ELF", "HELLO-F.BIN", "BOOTLO~1.BIN", "CONFIG.TXT", "KERNEL.IMG"}
    [] OTHER -> {}
Restrict(files, names) == [f \in DOMAIN files \cap names |-> files[f]]

(* The tests can be run again: whatever the programs before left on the    *)
(* card, complete or cut off, a test panics only for what it needs and     *)
(* does not find (a card whose sectors are right, the files to read, one   *)
(* of A.TXT and B.TXT); it passes only with its own work done, whoever did *)
(* it before, and at no time has it touched a file of others.  A number of *)
(* sectors per cluster of 0 is admitted: it is no power of two.            *)
TestsRunAgain ==
  LET t == ftest.name
      mine == Restrict(card.files, Own(t))
      old == Restrict(before, Own(t))
      fs == "fat32" \in fstate
  IN /\ ftest.end = "panic" =>
          \/ ~WellFormed(card) \/ (t \in {"rename", "truncate"} /\ old = <<>>)
          \/ \E f \in Reads(t) : ~Exists(f) \/ card.files[f] # "intact"
     /\ fs => WellFormed([card EXCEPT !.fat = card_mk(<<>>).fat])
     /\ Restrict(card.files, DOMAIN card.files \ Own(t)) = Restrict(before, DOMAIN before \ Own(t))
     /\ ftest.end = "PASS" =>
          CASE t = "create" -> mine = [f \in Own(t) |-> "empty"]
            [] t = "delete" -> mine = <<>>
            [] t = "write" -> mine = [f \in Own(t) |-> "Hello, World!"]
            [] t = "rename" -> \E f \in DOMAIN old : mine = [g \in Own(t) \ {f} |-> old[f]]
            [] t = "truncate" -> mine = [f \in DOMAIN old |-> "empty"]
            [] OTHER -> TRUE
=============================================================================
