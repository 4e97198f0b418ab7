------------------------------- MODULE Fat32 --------------------------------
(***************************************************************************)
(* The FAT32 file system and the file system calls above it: sys_open,     *)
(* sys_read, sys_write, sys_lseek, sys_getdents, sys_chdir and sys_close.  *)
(*                                                                         *)
(* A system call gives up the processor only inside IDE_transfer, so an    *)
(* action here is the code from the end of one transfer to the start of    *)
(* the next: pc names the transfer a call waits for, and the action at pc  *)
(* performs it.  Every open makes its own index_node; descriptors live in  *)
(* g_file_struct, one table for all tasks.                                 *)
(*                                                                         *)
(* Data bytes are not stored: what matters is which cluster a byte of a    *)
(* file is read from or written to.  Directory entries and the FAT are.    *)
(***************************************************************************)
EXTENDS Integers, Sequences, FiniteSets, SequencesExt

CONSTANTS Clients,         \* the tasks that make system calls
          Opens,           \* the paths and flags each client opens
          Counts,          \* the byte counts they pass
          MaxFiles,        \* TASK_FILE_MAX
          MaxOwned,        \* bound on the descriptors of each client
          MaxSize,         \* bound on the size of a file and the position
          BytesPerCluster,
          EntriesPerSector, \* FAT entries in a sector: 128
          SectorsPerFat,   \* BPB_FATSz32
          LastCluster,     \* the highest cluster the volume has
          NumFATs,
          RootCluster,     \* BPB_RootClus
          Fat, Directory   \* the volume at start-up: the FAT, the directory clusters

FatSectors == 0..(SectorsPerFat - 1)
FatEntries == 0..(EntriesPerSector * SectorsPerFat - 1)
Clusters == 2..LastCluster    \* entries 0 and 1 are reserved, those behind have no cluster
EOC == EntriesPerSector * SectorsPerFat    \* 0x0ffffff8
Boot == 0                     \* where a transfer to sector 0 goes

ASSUME Fat32Assumption ==
  /\ {BytesPerCluster, EntriesPerSector, SectorsPerFat, NumFATs, MaxFiles} \subseteq Nat \ {0}
  /\ Clusters \subseteq FatEntries
  /\ Fat \in [FatEntries -> 0..EOC] /\ 0 \notin {Fat[0], Fat[1]}
  /\ RootCluster \in DOMAIN Directory /\ DOMAIN Directory \subseteq Clusters

NoFile == [kind |-> "none"]
Descriptors == 0..(MaxFiles - 1)

VARIABLES
  vol,            \* the disk: the copies of the FAT, the directory clusters
  g_file_struct,  \* the open files
  call            \* the system call each client is in

vars == <<vol, g_file_struct, call>>

\* A directory entry: its kind ("long" is a part of a long name, "free" is deleted
\* or never used), name, first cluster and size.
Live(e) == e.kind \in {"file", "dir", "device"}
EntriesPerCluster == Len(Directory[RootCluster])

\* A call and the local variables of the functions it is in.
Idle == [pc |-> "idle", ret |-> "none", fd |-> 0, path |-> <<>>, flags |-> {}, cluster |-> 0,
         next |-> 0, sector |-> Boot, fresh |-> FALSE, count |-> 0, index |-> 0, offset |-> 0,
         i |-> 0, entry |-> 0, value |-> 0, buf |-> <<>>]

TypeOK ==
  /\ vol.fat \in [1..NumFATs -> [FatEntries -> 0..EOC]]
  /\ DOMAIN vol.dir = DOMAIN Directory
  /\ \A fd \in Descriptors : g_file_struct[fd].kind \in {"none", "file", "dir", "device"}
  /\ \A c \in Clients : DOMAIN call[c] = DOMAIN Idle

Init ==
  /\ vol = [fat |-> [n \in 1..NumFATs |-> Fat], dir |-> Directory]
  /\ g_file_struct = [fd \in Descriptors |-> NoFile]
  /\ call = [c \in Clients |-> Idle]

\* The root inode; no directory cluster holds an entry for it.
RootInode ==
  [kind |-> "dir", first |-> RootCluster, size |-> 0, location |-> 0, slot |-> 0]

-----------------------------------------------------------------------------
(* Transfers *)

\* DISK1_FAT32_read_FAT_Entry.  The sector computed for 0x0ffffff8 lies 1 GB behind the
\* FAT, in an unused part of the disk.
ReadFat(e) == IF e = EOC THEN 0 ELSE vol.fat[1][e]

FatSector(e) == {n \in FatEntries : n \div EntriesPerSector = e \div EntriesPerSector}

\* The page fault handler halts with interrupts off; nothing runs any more.
Halted == \E c \in Clients : call[c].pc = "fault"

\* Client c stands at pc and can go on.
At(c, pc) == call[c].pc = pc /\ ~Halted

Becomes(c, k) == call' = [call EXCEPT ![c] = k]
Return(c) == Becomes(c, Idle)

-----------------------------------------------------------------------------
(* path_walk and FAT32_lookup *)

\* The index_node FAT32_lookup makes of slot n of a directory cluster.
MakeInode(cluster, n) ==
  LET e == vol.dir[cluster][n]
  IN  [kind |-> e.kind, first |-> e.first, size |-> e.size, location |-> cluster, slot |-> n]

Matches(cluster, name) ==
  {n \in 1..EntriesPerCluster : Live(vol.dir[cluster][n]) /\ vol.dir[cluster][n].name = name}

FreeDescriptors == {fd \in Descriptors : g_file_struct[fd] = NoFile}
LeastOf(S) == CHOOSE x \in S : \A y \in S : x <= y

\* sys_open after path_walk: the file gets the first free descriptor.  O_TRUNC
\* sets the size in memory only.
Open(c, k, inode) ==
  LET size == IF "O_TRUNC" \in k.flags THEN 0 ELSE inode.size
      filp == [inode EXCEPT !.size = size]
      file == [kind |-> inode.kind, inode |-> filp, owner |-> c, listed |-> <<>>,
               position |-> IF "O_APPEND" \in k.flags THEN size ELSE 0,
               mode |-> k.flags \cap {"O_TRUNC", "O_RDWR"}]
  IN  IF ("O_DIRECTORY" \in k.flags) # (inode.kind = "dir") \/ FreeDescriptors = {}
      THEN UNCHANGED g_file_struct
      ELSE g_file_struct' = [g_file_struct EXCEPT ![LeastOf(FreeDescriptors)] = file]

\* The end of path_walk in sys_open and in sys_chdir, which keeps nothing.
Walked(c, k, inode) ==
  /\ IF k.ret = "open" THEN Open(c, k, inode) ELSE UNCHANGED g_file_struct
  /\ Return(c)

StartWalk(c, k) ==
  IF k.path = <<>>
  THEN Walked(c, k, RootInode)
  ELSE Becomes(c, [k EXCEPT !.pc = "lookup", !.cluster = RootCluster]) /\ UNCHANGED g_file_struct

sys_open(c, path, flags) ==
  /\ Cardinality({fd \in Descriptors : g_file_struct[fd] # NoFile /\ g_file_struct[fd].owner = c})
       < MaxOwned[c]
  /\ StartWalk(c, [Idle EXCEPT !.ret = "open", !.path = path, !.flags = flags])
  /\ UNCHANGED vol

sys_chdir(c, path) ==
  /\ StartWalk(c, [Idle EXCEPT !.ret = "chdir", !.path = path])
  /\ UNCHANGED vol

\* A directory cluster has been read: i components of the path are behind.
Lookup(c) ==
  LET k == call[c]
      name == k.path[k.i + 1]
      inode == MakeInode(k.cluster, LeastOf(Matches(k.cluster, name)))
  IN  /\ At(c, "lookup")
      /\ UNCHANGED vol
      /\ IF Matches(k.cluster, name) = {}
         THEN Becomes(c, [k EXCEPT !.pc = "lookup_fat"]) /\ UNCHANGED g_file_struct
         ELSE IF k.i + 1 = Len(k.path) THEN Walked(c, k, inode)
         ELSE /\ Becomes(c, [k EXCEPT !.i = @ + 1, !.cluster = inode.first])
              /\ UNCHANGED g_file_struct

LookupFat(c) ==
  LET k == call[c]
      next == ReadFat(k.cluster)
  IN  /\ At(c, "lookup_fat")
      /\ IF next = EOC THEN Return(c) ELSE Becomes(c, [k EXCEPT !.pc = "lookup", !.cluster = next])
      /\ UNCHANGED <<vol, g_file_struct>>

-----------------------------------------------------------------------------
(* The calls on a descriptor.  Programs use the descriptors they opened, and write to
   those they opened with O_RDWR; no call tests that flag. *)

File(c) == g_file_struct[call[c].fd]
Inode(c) == File(c).inode

Uses(c, fd, kinds) ==
  /\ g_file_struct[fd].kind \in kinds
  /\ g_file_struct[fd].owner = c

Less(x, y) == IF x < y THEN x ELSE y

sys_close(c, fd) ==
  /\ Uses(c, fd, {"file", "dir", "device"})
  /\ g_file_struct' = [g_file_struct EXCEPT ![fd] = NoFile]
  /\ UNCHANGED <<vol, call>>

\* FAT32_lseek to position 0, to the end, or by a distance.
sys_lseek(c, fd, pos) ==
  /\ Uses(c, fd, {"file"})
  /\ pos >= 0 /\ pos <= g_file_struct[fd].inode.size
  /\ g_file_struct' = [g_file_struct EXCEPT ![fd].position = pos]
  /\ UNCHANGED <<vol, call>>

\* Fault variant: the chain is not followed.
Seek_Never(k, steps, then) == [k EXCEPT !.pc = then]

\* The walk along the chain to the cluster of the position: FAT32_read, FAT32_write
\* and FAT32_readdir begin with it.
Seek(k, steps, then) ==
  IF steps = 0 THEN [k EXCEPT !.pc = then]
  ELSE [k EXCEPT !.pc = "seek", !.i = steps, !.ret = then]

SeekFat(c) ==
  LET k == call[c]
      next == ReadFat(k.cluster)
      on == [k EXCEPT !.cluster = next, !.i = @ - 1]
  IN  /\ At(c, "seek")
      /\ IF \/ k.ret = "readdir" /\ next = EOC
            \/ k.ret = "write_read" /\ next = 0 /\ k.i = 1
         THEN Return(c)
         ELSE Becomes(c, IF k.i = 1 THEN [on EXCEPT !.pc = k.ret, !.ret = "none"] ELSE on)
      /\ UNCHANGED <<vol, g_file_struct>>

-----------------------------------------------------------------------------
(* FAT32_read *)

\* What the loop copies out of a cluster; the comparison is signed.
Length(k) == Less(k.index, BytesPerCluster - k.offset)

\* The count is cut to the size of the file, below 0 if the position is beyond it.
sys_read(c, fd, count) ==
  LET f == g_file_struct[fd]
      n == Less(count, f.inode.size - f.position)
      k == [Idle EXCEPT !.fd = fd, !.cluster = f.inode.first, !.count = n, !.index = n,
                        !.offset = f.position % BytesPerCluster]
  IN  /\ Uses(c, fd, {"file"})
      /\ f.inode.first # 0
      /\ f.position <= MaxSize
      /\ Becomes(c, Seek(k, f.position \div BytesPerCluster, "read"))
      /\ UNCHANGED <<vol, g_file_struct>>

\* A negative length: copy_to_user takes it for a huge one, passes verify_area as the
\* sum wraps, and faults at the end of what is mapped; the handler halts.
ReadFault(c) ==
  LET k == call[c]
  IN  /\ At(c, "read")
      /\ Length(k) < 0
      /\ Becomes(c, [k EXCEPT !.pc = "fault"])
      /\ UNCHANGED <<vol, g_file_struct>>

ReadData(c) ==
  LET k == call[c]
      left == k.index - Length(k)
  IN  /\ At(c, "read")
      /\ Length(k) >= 0
      /\ g_file_struct' = [g_file_struct EXCEPT ![k.fd].position = @ + Length(k)]
      /\ IF left = 0 THEN Return(c)
         ELSE Becomes(c, [k EXCEPT !.pc = "read_fat", !.index = left, !.offset = 0])
      /\ UNCHANGED vol

ReadNext(c) ==
  LET k == call[c]
      next == ReadFat(k.cluster)
  IN  /\ At(c, "read_fat")
      /\ IF next = 0 THEN Return(c) ELSE Becomes(c, [k EXCEPT !.pc = "read", !.cluster = next])
      /\ UNCHANGED <<vol, g_file_struct>>

-----------------------------------------------------------------------------
(* FAT32_find_available_cluster, DISK1_FAT32_write_FAT_Entry, fat32_write_inode:
   k.ret says where their caller goes on *)

Find(k, ret) == [k EXCEPT !.pc = "find", !.ret = ret, !.i = 0]

WriteFat(k, e, v, ret) == [k EXCEPT !.pc = "fat_read", !.ret = ret, !.entry = e, !.value = v]

WriteInode(k, ret) == [k EXCEPT !.pc = "inode_read", !.ret = ret]

\* The head of FAT32_write's loop: a cluster that was just added is not read first,
\* and sector stays what it was.
Loop(k) == [k EXCEPT !.pc = IF k.fresh THEN "write" ELSE "write_read"]

Resume(k) ==
  CASE k.ret = "first"  -> WriteFat(k, k.cluster, EOC, "loop")
    [] k.ret = "loop"   -> Loop(k)
    [] k.ret = "link"   -> WriteFat(k, k.next, EOC, "linked")
    [] k.ret = "linked" -> Loop([k EXCEPT !.cluster = k.next, !.fresh = TRUE])
    [] k.ret = "done"   -> Idle

\* One sector of the FAT has been searched for a free entry, to the end of the sector
\* whether or not the volume has that many clusters.
FindSector(c) ==
  LET k == call[c]
      free == {e \in FatEntries : e \div EntriesPerSector = k.i /\ vol.fat[1][e] = 0}
      found == LeastOf(free)
  IN  /\ At(c, "find")
      /\ UNCHANGED vol
      /\ IF free = {}
         THEN /\ IF k.i + 1 \in FatSectors THEN Becomes(c, [k EXCEPT !.i = @ + 1]) ELSE Return(c)
              /\ UNCHANGED g_file_struct
         ELSE IF k.ret = "first"
         THEN /\ g_file_struct' = [g_file_struct EXCEPT ![k.fd].inode.first = found]
              /\ Becomes(c, WriteInode([k EXCEPT !.cluster = found, !.fresh = TRUE], "first"))
         ELSE /\ Becomes(c, WriteFat([k EXCEPT !.next = found], k.cluster, found, "link"))
              /\ UNCHANGED g_file_struct

FatRead(c) ==
  LET k == call[c]
      sector == [e \in FatSector(k.entry) |-> vol.fat[1][e]]
  IN  /\ At(c, "fat_read")
      /\ Becomes(c, [k EXCEPT !.pc = "fat_write", !.i = 1, !.buf = [sector EXCEPT ![k.entry] = k.value]])
      /\ UNCHANGED <<vol, g_file_struct>>

\* Fault variant: only the first copy is written.
FatWrite_FirstCopy(c) ==
  LET k == call[c]
  IN  /\ At(c, "fat_write")
      /\ vol' = [vol EXCEPT !.fat[k.i] = [e \in FatEntries |-> IF e \in DOMAIN k.buf THEN k.buf[e] ELSE @[e]]]
      /\ Becomes(c, Resume([k EXCEPT !.buf = <<>>]))
      /\ UNCHANGED g_file_struct

\* The sector goes to every copy of the FAT, one transfer each.
FatWrite(c) ==
  LET k == call[c]
  IN  /\ At(c, "fat_write")
      /\ vol' = [vol EXCEPT !.fat[k.i] = [e \in FatEntries |-> IF e \in DOMAIN k.buf THEN k.buf[e] ELSE @[e]]]
      /\ Becomes(c, IF k.i < NumFATs THEN [k EXCEPT !.i = @ + 1] ELSE Resume([k EXCEPT !.buf = <<>>]))
      /\ UNCHANGED g_file_struct


\* Fault variant: the first cluster is not written back.
InodeRead_SizeOnly(c) ==
  LET k == call[c]
      inode == Inode(c)
  IN  /\ At(c, "inode_read")
      /\ Becomes(c, [k EXCEPT !.pc = "inode_write",
                       !.buf = [vol.dir[inode.location] EXCEPT ![inode.slot].size = inode.size]])
      /\ UNCHANGED <<vol, g_file_struct>>

InodeRead(c) ==
  LET k == call[c]
      inode == Inode(c)
  IN  /\ At(c, "inode_read")
      /\ Becomes(c, [k EXCEPT !.pc = "inode_write",
                       !.buf = [vol.dir[inode.location] EXCEPT ![inode.slot].first = inode.first,
                                                               ![inode.slot].size = inode.size]])
      /\ UNCHANGED <<vol, g_file_struct>>

InodeWrite(c) ==
  LET k == call[c]
  IN  /\ At(c, "inode_write")
      /\ vol' = [vol EXCEPT !.dir[Inode(c).location] = k.buf]
      /\ Becomes(c, Resume([k EXCEPT !.buf = <<>>]))
      /\ UNCHANGED g_file_struct

-----------------------------------------------------------------------------
(* FAT32_write *)

sys_write(c, fd, count) ==
  LET f == g_file_struct[fd]
      k == [Idle EXCEPT !.fd = fd, !.cluster = f.inode.first, !.count = count, !.index = count,
                        !.offset = f.position % BytesPerCluster]
  IN  /\ Uses(c, fd, {"file"})
      /\ "O_RDWR" \in f.mode
      /\ f.position + count <= MaxSize
      /\ Becomes(c, IF f.inode.first = 0 THEN Find(k, "first")
                  ELSE Seek(k, f.position \div BytesPerCluster, "write_read"))
      /\ UNCHANGED <<vol, g_file_struct>>

\* The cluster that will be written in part has been read.
WriteRead(c) ==
  LET k == call[c]
  IN  /\ At(c, "write_read")
      /\ Becomes(c, [k EXCEPT !.pc = "write", !.sector = k.cluster])
      /\ UNCHANGED <<vol, g_file_struct>>

\* A cluster has been written.  At the end the size goes to the directory if it grew.
WriteData(c) ==
  LET k == call[c]
      left == k.index - Length(k)
      position == File(c).position + Length(k)
      grown == position > Inode(c).size
      k2 == [k EXCEPT !.index = left, !.offset = 0]
  IN  /\ At(c, "write")
      /\ UNCHANGED vol
      /\ IF left # 0
         THEN /\ g_file_struct' = [g_file_struct EXCEPT ![k.fd].position = position]
              /\ Becomes(c, [k2 EXCEPT !.pc = "write_fat"])
         ELSE /\ g_file_struct' = [g_file_struct EXCEPT ![k.fd].position = position,
                                     ![k.fd].inode.size = IF grown THEN position ELSE @]
              /\ Becomes(c, IF grown THEN WriteInode(k2, "done") ELSE Idle)

\* The cluster after the one just written.  If there is one the loop goes on, with
\* cluster as it was.
WriteNext(c) ==
  LET k == call[c]
      next == ReadFat(k.cluster)
  IN  /\ At(c, "write_fat")
      /\ Becomes(c, IF next = EOC THEN Find(k, "extend") ELSE Loop([k EXCEPT !.next = next]))
      /\ UNCHANGED <<vol, g_file_struct>>

-----------------------------------------------------------------------------
(* FAT32_readdir; the position counts entries *)

sys_getdents(c, fd) ==
  LET f == g_file_struct[fd]
      k == [Idle EXCEPT !.fd = fd, !.cluster = f.inode.first]
  IN  /\ Uses(c, fd, {"dir"})
      /\ Becomes(c, Seek(k, f.position \div EntriesPerCluster, "readdir"))
      /\ UNCHANGED <<vol, g_file_struct>>

\* Fault variant: the position stays at the entry delivered.
Readdir_KeepPosition(c) ==
  LET k == call[c]
      from == File(c).position % EntriesPerCluster
      rest == {n \in (from + 1)..EntriesPerCluster : Live(vol.dir[k.cluster][n])}
      n == LeastOf(rest)
  IN  /\ At(c, "readdir")
      /\ UNCHANGED vol
      /\ IF rest = {}
         THEN /\ g_file_struct' = [g_file_struct EXCEPT ![k.fd].position = @ + EntriesPerCluster - from]
              /\ Becomes(c, [k EXCEPT !.pc = "readdir_fat"])
         ELSE /\ g_file_struct' = [g_file_struct EXCEPT ![k.fd].position = @ + n - from - 1,
                                     ![k.fd].listed = Append(@, vol.dir[k.cluster][n].name)]
              /\ Return(c)

\* A cluster of the directory has been read: the next entry in it is delivered.
Readdir(c) ==
  LET k == call[c]
      from == File(c).position % EntriesPerCluster
      rest == {n \in (from + 1)..EntriesPerCluster : Live(vol.dir[k.cluster][n])}
      n == LeastOf(rest)
  IN  /\ At(c, "readdir")
      /\ UNCHANGED vol
      /\ IF rest = {}
         THEN /\ g_file_struct' = [g_file_struct EXCEPT ![k.fd].position = @ + EntriesPerCluster - from]
              /\ Becomes(c, [k EXCEPT !.pc = "readdir_fat"])
         ELSE /\ g_file_struct' = [g_file_struct EXCEPT ![k.fd].position = @ + n - from,
                                     ![k.fd].listed = Append(@, vol.dir[k.cluster][n].name)]
              /\ Return(c)

ReaddirFat(c) ==
  LET k == call[c]
      next == ReadFat(k.cluster)
  IN  /\ At(c, "readdir_fat")
      /\ IF next = EOC THEN Return(c) ELSE Becomes(c, [k EXCEPT !.pc = "readdir", !.cluster = next])
      /\ UNCHANGED <<vol, g_file_struct>>

-----------------------------------------------------------------------------
SystemCall(c) ==
  /\ At(c, "idle")
  /\ \/ \E o \in Opens[c] :
          \/ sys_open(c, o.path, o.flags)
          \/ "O_DIRECTORY" \in o.flags /\ sys_chdir(c, o.path)
     \/ \E fd \in Descriptors :
          \/ sys_close(c, fd)
          \/ sys_getdents(c, fd)
          \/ \E pos \in 0..MaxSize : sys_lseek(c, fd, pos)
          \/ \E n \in Counts : sys_read(c, fd, n) \/ sys_write(c, fd, n)

Transferred(c) ==
  \/ Lookup(c) \/ LookupFat(c) \/ SeekFat(c)
  \/ ReadData(c) \/ ReadFault(c) \/ ReadNext(c)
  \/ FindSector(c) \/ FatRead(c) \/ FatWrite(c) \/ InodeRead(c) \/ InodeWrite(c)
  \/ WriteRead(c) \/ WriteData(c) \/ WriteNext(c)
  \/ Readdir(c) \/ ReaddirFat(c)

Next ==
  \/ \E c \in Clients : SystemCall(c) \/ Transferred(c)
  \/ Halted /\ UNCHANGED vars

Spec == Init /\ [][Next]_vars

-----------------------------------------------------------------------------
(* Writers.  Nothing keeps two of them apart between their transfers.  The four ways
   in which they can meet are told here, and Spec without them is SerialSpec. *)

\* The clusters a writer has found free and may not have marked yet.
Found(c) ==
  LET k == call[c]
  IN  CASE k.pc \in {"inode_read", "inode_write"} /\ k.ret = "first" -> {k.cluster}
        [] k.pc \in {"fat_read", "fat_write"} -> {k.entry, k.value} \ {EOC}
        [] OTHER -> {}

\* The file a descriptor is open on, as the place of its directory entry, and the
\* descriptors a client may write to.
Opened(fd) == <<g_file_struct[fd].inode.location, g_file_struct[fd].inode.slot>>
WrittenBy(c) ==
  {fd \in Descriptors : LET f == g_file_struct[fd]
                        IN  f.kind = "file" /\ f.owner = c /\ "O_RDWR" \in f.mode}

Meet(a, b) ==
  \/ Found(a) \cap Found(b) # {}
  \/ /\ call[a].pc = "fat_write" /\ call[b].pc = "fat_write"
     /\ FatSector(call[a].entry) = FatSector(call[b].entry)
  \/ /\ call[a].pc = "inode_write" /\ call[b].pc = "inode_write"
     /\ Inode(a).location = Inode(b).location
  \/ \E fa \in WrittenBy(a), fb \in WrittenBy(b) : Opened(fa) = Opened(fb)

SerialNext == Next /\ (\A a, b \in Clients : a # b => ~Meet(a, b))'
SerialSpec == Init /\ [][SerialNext]_vars

-----------------------------------------------------------------------------
Data == FatEntries \ {0, 1}

\* The chain that starts at cluster e, cut off where it would repeat itself.
Chain(e) ==
  LET hop[n \in 1..Cardinality(FatEntries) + 1] == IF n = 1 THEN e ELSE ReadFat(hop[n - 1])
      len == CHOOSE n \in 0..Cardinality(FatEntries) :
               /\ \A m \in 1..n : hop[m] \in Data
               /\ hop[n + 1] \notin Data \/ n = Cardinality(FatEntries)
  IN  [n \in 1..len |-> hop[n]]

\* The live entries of the volume, as pairs of a directory cluster and a slot.
Entries == {s \in (DOMAIN vol.dir) \X (1..EntriesPerCluster) : Live(vol.dir[s[1]][s[2]])}
EntryAt(s) == vol.dir[s[1]][s[2]]
OnDisk == {s \in Entries : EntryAt(s).first # 0}
Chains == {<<s, Chain(EntryAt(s).first)>> : s \in OnDisk} \cup {<<<<0, 0>>, Chain(RootCluster)>>}

Writing(c) == call[c].pc \in {"find", "fat_read", "fat_write", "inode_read", "inode_write",
                              "write_read", "write", "write_fat"}

\* No cluster belongs to two files or directories.  It does not hold of two writers: both
\* may find the same entry free before either marks it (fat32.c:122, 164).
ChainsApart ==
  \A x, y \in Chains : x[1] # y[1] => ToSet(x[2]) \cap ToSet(y[2]) = {}

\* Between write calls the copies of the FAT agree and the chains of the files and
\* directories are chains: each ends in the end mark, none meets another or itself.
\* FAT32_write allocates, links and marks clusters in six or more transfers
\* (fat32.c:147-164, 203-219), and gives up in the middle if the FAT is full.
VolumeConsistent ==
  /\ TypeOK
  /\ (\A c \in Clients : ~Writing(c)) =>
     /\ \A n \in 2..NumFATs : vol.fat[n] = vol.fat[1]
     /\ \A x \in Chains : IsInjective(x[2]) /\ ReadFat(Last(x[2])) = EOC
     /\ ChainsApart

\* A transfer of cluster by call k is one of the place of k's file that position names.
InPlace(cluster, k, e, position) ==
  /\ position \div BytesPerCluster < Len(Chain(e))
  /\ cluster = Chain(e)[position \div BytesPerCluster + 1]
  /\ k.offset = position % BytesPerCluster

\* A byte that is read from the data area is the byte of the file at that position,
\* while a writer extends the chain in between.  So is the first piece of a write that
\* starts inside the chain of the file (fat32.c:152, 174), and no piece of a write
\* reaches a cluster of another file or of a directory, although sector may be left
\* over from an earlier piece.  Where the other pieces go, see WritesInPlace.
TransfersInPlace ==
  \A c \in Clients :
    LET k == call[c]
        first == Inode(c).first
        position == File(c).position
        inside == position \div BytesPerCluster < Len(Chain(first))
    IN  /\ (k.pc = "read" /\ k.cluster \in Data /\ Length(k) > 0) =>
             InPlace(k.cluster, k, first, position)
        /\ (k.pc = "write" /\ k.index = k.count /\ ~k.fresh /\ inside) =>
             InPlace(k.sector, k, first, position)
        /\ k.pc = "write" =>
             \A x \in Chains : x[1] # Opened(k.fd) => k.sector \notin ToSet(x[2])

\* Each piece of a write goes to the cluster its position names, as write followed by
\* lseek and read expects.  It does not hold: a piece after the first goes to the
\* sector of the first, or to sector 0, once a cluster has been added, or over the
\* first piece again (fat32.c:171-190, 202-222); and a write at the end of the last
\* cluster follows the end mark.
WritesInPlace ==
  \A c \in Clients :
    call[c].pc = "write" => InPlace(call[c].sector, call[c], Inode(c).first, File(c).position)

\* What a writer's descriptor says of its file is what the directory says once its
\* call has returned (fat32.c:161-163, 225-229).  Without SerialSpec it does not hold: the
\* cluster of the directory a writer writes back may be older than another's entry.
DirectoryExact ==
  \A fd \in Descriptors : LET f == g_file_struct[fd] IN
    (f.kind = "file" /\ f.mode = {"O_RDWR"} /\ ~Writing(f.owner)) =>
      LET e == vol.dir[f.inode.location][f.inode.slot]
      IN  f.inode.first = e.first /\ f.inode.size = e.size


\* The entries of a directory, cluster by cluster.
Listing(e) == FlattenSeq([n \in DOMAIN Chain(e) |-> vol.dir[Chain(e)[n]]])

\* However its calls fall between those of a writer, a reader of a directory has been
\* given each live entry it has passed once and in order (fat32.c:315, 400).
ListingExact ==
  \A fd \in Descriptors : LET f == g_file_struct[fd] IN
    f.kind = "dir" =>
      LET passed == SelectSeq(SubSeq(Listing(f.inode.first), 1, f.position), Live)
      IN  f.listed = [n \in DOMAIN passed |-> passed[n].name]
=============================================================================
