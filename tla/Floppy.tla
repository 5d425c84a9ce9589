------------------------------- MODULE Floppy -------------------------------
(***************************************************************************)
(* The floppy driver (drivers/floppy.c) from flop_block_read down to the   *)
(* commands of the controller: detection of media and of media changes,    *)
(* the cache of cylinders, the retries.  A call is a stack of frames; the  *)
(* steps are those between which the driver sleeps.  Disks are swapped and *)
(* cached cylinders purged by others.  The motor is left out.              *)
(* One task uses the drive at a time, and disks are changed between calls. *)
(***************************************************************************)
EXTENDS Integers, Sequences, SequencesExt, FiniteSets

CONSTANTS
    Disks, NULL,
    Purged, Blank,      \* buffers without memory, and not yet filled
    Torn,               \* bytes of a transfer that failed among older ones
    floppy_formats,     \* name |-> [cyls, heads, spt, datarate]
    detect_order,       \* the formats the drive is tried with
    format,             \* of each disk, its format's name
    Lbas,               \* blocks asked for
    Selected,           \* cylinders selected in the debug menu
    CYLINDER_CACHE_CYLS, RECALIBRATE_RETRIES, SEEK_RETRIES, HANDLE_CYLINDER_RETRIES

VARIABLES
    disk, dskchg, pos,          \* the drive: disk, change line, head's position
    f, detect_idx, cyl,         \* struct floppy_drive
    cache, cache_format,        \* d->cache (NULL or oldest first), its cyl_size
    dma_buf, dma_buf_cyl,
    stk, ret,                   \* frames, last one running; what the last call returned
    blk_sem,                    \* of the block device, between calls
    got                         \* history: the last block read

drive == <<disk, dskchg, pos>>
driver == <<f, detect_idx, cyl>>
caches == <<cache, cache_format>>
dma == <<dma_buf, dma_buf_cyl>>
vars == <<drive, driver, caches, dma, stk, ret, blk_sem, got>>

Format(name) == floppy_formats[name]

lba_to_cyl(name, lba) == lba \div (Format(name).heads * Format(name).spt)
lba_to_head(name, lba) == (lba \div Format(name).spt) % Format(name).heads
lba_to_sector(name, lba) == (lba % Format(name).spt) + 1

\* Formats with cylinders of the same size.
cyl_size(name) == Format(name).heads * Format(name).spt

Init ==
    /\ disk \in Disks \cup {NULL} /\ dskchg = TRUE /\ pos = 0
    /\ f = NULL /\ detect_idx = 1 /\ cyl = 0
    /\ cache = NULL /\ cache_format = NULL
    /\ dma_buf = NULL /\ dma_buf_cyl = -1
    /\ stk = << [at |-> "reset", c |-> 0, n |-> 0] >> /\ ret = "ok" /\ got = NULL
    /\ blk_sem = 1

(* ------------------------------ frames ---------------------------------- *)

Top == Last(stk)
At(label) == stk # <<>> /\ Top.at = label

\* The frame on top goes on at label; and calls callee first.
Goto(label) == stk' = Front(stk) \o <<[Top EXCEPT !.at = label]>>
Call(callee, label) ==
    stk' = Front(stk) \o <<[Top EXCEPT !.at = label], [at |-> callee, c |-> Top.c, n |-> 0]>>
\* callee with an argument of its own.
CallAt(callee, c, label) ==
    stk' = Front(stk) \o <<[Top EXCEPT !.at = label], [at |-> callee, c |-> c, n |-> 0]>>
Again == stk' = Front(stk) \o <<[Top EXCEPT !.n = @ + 1]>>
Return(r) == stk' = Front(stk) /\ ret' = r

\* A failed assertion stops the kernel.
Panic == stk' = <<[at |-> "panic", c |-> 0, n |-> 0]>> /\ UNCHANGED ret

\* NULL is followed: the page fault kills the task.
do_page_fault == stk' = <<>> /\ ret' = "killed"

\* A task killed inside devfs_get_block_count does not post its semaphore.
Posted == blk_sem' = IF stk' = <<>> /\ ret' = "killed" /\ stk[1].at = "check" THEN 0 ELSE blk_sem

(* ----------------------------- commands --------------------------------- *)

\* The head goes to a cylinder, or the command fails before it is there.  A
\* head that moves clears the change line, if there is a disk.
Move(to) ==
    /\ pos' \in {pos, to}
    /\ dskchg' = (dskchg /\ (disk = NULL \/ pos' = pos))
    /\ UNCHANGED disk

\* A command of the controller that moves the head, and cmd_sense_interrupt
\* after it.  It is not taken, or no interrupt comes (wait_irq); its status is
\* bad, so once more; or the drive says it is where it should be, or did so
\* before and now nothing.
Positioning(to, retries) ==
    /\ Move(to)
    /\ \/ Return("fail") /\ cyl' \in {cyl, pos'}
       \/ Top.n + 1 < retries /\ Again /\ cyl' \in {cyl, pos'} /\ UNCHANGED ret
       \/ Return("ok") /\ cyl' = to /\ to \in {cyl, pos'}

cmd_recalibrate ==
    /\ At("recalibrate")
    /\ Positioning(0, RECALIBRATE_RETRIES)
    /\ UNCHANGED <<f, detect_idx, caches, dma, got, blk_sem>>

\* probe: the drive is reset, told its timings and recalibrated; if that fails
\* it has no io_base, and is not followed further.
reset_drive ==
    /\ At("reset")
    /\ \/ Goto("absent")
       \/ Call("recalibrate", "probe")
    /\ UNCHANGED <<drive, driver, caches, dma, ret, got, blk_sem>>

probe ==
    /\ At("probe")
    /\ IF ret = "ok" THEN Return("ok") ELSE Goto("absent") /\ UNCHANGED ret
    /\ UNCHANGED <<drive, driver, caches, dma, got, blk_sem>>

\* Where cmd_seek_internal goes: not beyond the last cylinder.
Target == IF f # NULL /\ Top.c > Format(f).cyls - 1 THEN Format(f).cyls - 1 ELSE Top.c

\* Seek to cylinder Top.c, unless the driver believes it is there.
cmd_seek_internal ==
    /\ At("seek")
    /\ IF Top.n = 0 /\ cyl = Top.c THEN Return("ok") /\ UNCHANGED <<drive, cyl>>
       ELSE Positioning(Target, SEEK_RETRIES)
    /\ UNCHANGED <<f, detect_idx, caches, dma, got, blk_sem>>

\* What check_error may find in the status of a command that went well or did
\* not: nothing, an error, or bits that fail an assertion (errors without the
\* error code, a drive that is not ready, as when no status could be read).
check_error(good) == (IF good THEN {"none"} ELSE {}) \cup {"error", "assert"}

\* Read ID: the disk is there and turns, and its data rate is the one set.
SameRate == disk # NULL /\ Format(format[disk]).datarate = Format(f).datarate

cmd_read_id ==
    /\ At("read_id")
    /\ IF f = NULL THEN do_page_fault /\ UNCHANGED cyl
       ELSE \/ Return("fail") /\ UNCHANGED cyl
            \/ \E e \in check_error(SameRate) :
                  \/ e = "none" /\ Return("ok") /\ cyl' = pos
                  \/ e = "error" /\ Return("fail") /\ UNCHANGED cyl
                  \/ e = "assert" /\ Panic /\ UNCHANGED cyl
    /\ Posted
    /\ UNCHANGED <<drive, f, detect_idx, caches, dma, got>>

(* -------------------------- detection of media -------------------------- *)

\* Mutant: after the last format comes the first again.
next_media_type_Wrap(label) ==
    LET idx == IF f # NULL THEN (detect_idx % Len(detect_order)) + 1 ELSE detect_idx IN
    /\ detect_idx' = idx /\ f' = detect_order[idx]
    /\ Call("read_id", label) /\ UNCHANGED ret

\* next_media_type, then cmd_read_id with it.
next_media_type(label) ==
    IF f # NULL /\ detect_idx = Len(detect_order)
    THEN /\ detect_idx' = 1 /\ f' = NULL /\ Return("fail")
    ELSE LET idx == IF f # NULL THEN detect_idx + 1 ELSE detect_idx IN
         /\ detect_idx' = idx /\ f' = detect_order[idx]
         /\ Call("read_id", label) /\ UNCHANGED ret

detect_media ==
    /\ At("detect")
    /\ Call("recalibrate", "detect1")
    /\ UNCHANGED <<drive, driver, caches, dma, ret, got, blk_sem>>

\* Recalibrated: start with the first format.
DetectFirst ==
    /\ At("detect1")
    /\ IF ret # "ok" THEN Return(ret) /\ UNCHANGED <<f, detect_idx>>
       ELSE /\ f' = detect_order[1] /\ detect_idx' = 1
            /\ Call("read_id", "detect2") /\ UNCHANGED ret
    /\ UNCHANGED <<drive, cyl, caches, dma, got, blk_sem>>

\* The ID was read, or not: the next format.
DetectNext ==
    /\ At("detect2")
    /\ IF ret = "ok" THEN Return("ok") /\ UNCHANGED <<f, detect_idx>>
       ELSE next_media_type("detect2")
    /\ UNCHANGED <<drive, cyl, caches, dma, got, blk_sem>>

\* No number names the buffers any more: what is in them is as good as nothing.
Forgotten(buf) == IF buf \in {NULL, Purged} THEN buf ELSE Blank
Invalid(entries) == [k \in DOMAIN entries |-> [num |-> -1, buf |-> Forgotten(entries[k].buf)]]

\* check_media_changed, where f stands for "there is a disk".  The change line
\* with f set: it has been taken out; look again.  With f not set: try to clear
\* the line by a seek.  No line and no f: detect the format.
check_media_changed ==
    /\ At("check")
    /\ \/ /\ dskchg /\ f # NULL
          /\ f' = NULL
          /\ IF cache = NULL THEN do_page_fault /\ UNCHANGED cache  \* cyl_cache_invalidate(NULL)
             ELSE cache' = Invalid(cache) /\ UNCHANGED <<stk, ret>>
       \/ /\ dskchg /\ f = NULL     \* clear_disk_changed
          /\ CallAt("seek", IF cyl <= 0 THEN cyl + 1 ELSE cyl - 1, "check_seek")
          /\ UNCHANGED <<f, cache, ret>>
       \/ /\ ~dskchg /\ f = NULL
          /\ Call("detect", "inserted") /\ UNCHANGED <<f, cache, ret>>
       \/ /\ ~dskchg /\ f # NULL
          /\ Return("ok") /\ UNCHANGED <<f, cache>>
    /\ Posted
    /\ UNCHANGED <<drive, detect_idx, cyl, cache_format, dma, got>>

\* After clear_disk_changed: if the line is clear there is a new disk.
CheckCleared ==
    /\ At("check_seek")
    /\ IF ret = "ok" /\ ~dskchg THEN Call("detect", "inserted") /\ UNCHANGED ret ELSE Return("ok")
    /\ UNCHANGED <<drive, driver, caches, dma, got, blk_sem>>

\* media_inserted asserts that the format was detected.
media_inserted ==
    /\ At("inserted")
    /\ IF ret # "ok" THEN Panic ELSE Return("ok")
    /\ UNCHANGED <<drive, driver, caches, dma, got, blk_sem>>

(* --------------------------- reading a cylinder ------------------------- *)

\* cmd_seek: to a cylinder of a disk that is there.
cmd_seek ==
    /\ \/ At("cmd_seek") /\ Call("check", "cmd_seek1") /\ UNCHANGED ret
       \/ At("cmd_seek1") /\ f = NULL /\ Return("fail")
       \/ At("cmd_seek1") /\ f # NULL /\ Call("seek", "return") /\ UNCHANGED ret
    /\ UNCHANGED <<drive, driver, caches, dma, got, blk_sem>>

\* do_handle_cylinder: seek, read the ID, then the loop.
do_handle_cylinder ==
    /\ \/ At("handle") /\ f = NULL /\ Return("fail")
       \/ At("handle") /\ f # NULL /\ Call("cmd_seek", "handle_id") /\ UNCHANGED ret
       \/ At("handle_id") /\ ret = "ok" /\ Call("read_id", "handle_read") /\ UNCHANGED ret
       \/ At("handle_read") /\ ret = "ok" /\ Goto("handle_data") /\ UNCHANGED ret
       \/ (At("handle_id") \/ At("handle_read")) /\ ret # "ok" /\ Return("fail")
    /\ UNCHANGED <<drive, driver, caches, dma, got, blk_sem>>

\* A cylinder can be read when its ID says it is the one asked for.
Readable(c) == disk # NULL /\ format[disk] = f /\ pos = c /\ c < Format(f).cyls

\* A transfer that did not end well may have put other bytes into dma_buf;
\* dma_buf_cyl still names the cylinder that was there.
Broken == dma_buf' \in {dma_buf} \cup (IF disk # NULL THEN {Torn} ELSE {})

\* Mutant: dma_buf_cyl is set before the transfer has succeeded.
ReadLoop_Early ==
    /\ At("handle_data") /\ f # NULL
    /\ dma_buf_cyl' = Top.c
    /\ \/ Return("fail") /\ Broken
       \/ \E e \in check_error(Readable(Top.c)) :
             \/ e = "none" /\ dma_buf' = [disk |-> disk, cyl |-> Top.c] /\ Return("ok")
             \/ e = "error" /\ Top.n + 1 < HANDLE_CYLINDER_RETRIES /\ Again /\ Broken /\ UNCHANGED ret
             \/ e = "error" /\ Top.n + 1 = HANDLE_CYLINDER_RETRIES /\ Return("fail") /\ Broken
             \/ e = "assert" /\ Panic /\ Broken
    /\ UNCHANGED <<drive, driver, caches, got, blk_sem>>

\* The loop: no interrupt comes; or the transfer ends, and its status is good,
\* bad with retries left, bad with none left, or impossible.
ReadLoop ==
    /\ At("handle_data")
    /\ IF f = NULL THEN do_page_fault /\ UNCHANGED dma
       ELSE \/ Return("fail") /\ Broken /\ UNCHANGED dma_buf_cyl
            \/ \E e \in check_error(Readable(Top.c)) :
                  \/ /\ e = "none"
                     /\ dma_buf' = [disk |-> disk, cyl |-> Top.c] /\ dma_buf_cyl' = Top.c
                     /\ Return("ok")
                  \/ /\ e = "error" /\ Top.n + 1 < HANDLE_CYLINDER_RETRIES
                     /\ Again /\ Broken /\ UNCHANGED <<dma_buf_cyl, ret>>
                  \/ /\ e = "error" /\ Top.n + 1 = HANDLE_CYLINDER_RETRIES
                     /\ Return("fail") /\ Broken /\ UNCHANGED dma_buf_cyl
                  \/ e = "assert" /\ Panic /\ Broken /\ UNCHANGED dma_buf_cyl
    /\ Posted
    /\ UNCHANGED <<drive, driver, caches, got>>

\* handle_cylinder (read_cyl): once more after detecting the media again.
handle_cylinder ==
    /\ \/ At("read_cyl") /\ Call("handle", "read_cyl1") /\ UNCHANGED ret
       \/ At("read_cyl1") /\ ret = "ok" /\ Return("ok")
       \/ At("read_cyl1") /\ ret # "ok" /\ Call("detect", "read_cyl2") /\ UNCHANGED ret
       \/ At("read_cyl2") /\ ret # "ok" /\ Return("fail")
       \/ At("read_cyl2") /\ ret = "ok" /\ Call("handle", "return") /\ UNCHANGED ret
    /\ UNCHANGED <<drive, driver, caches, dma, got, blk_sem>>

\* A function that returns what the last one it called did.
Returned ==
    /\ At("return")
    /\ Return(ret)
    /\ UNCHANGED <<drive, driver, caches, dma, got, blk_sem>>

(* ------------------------------- the cache ------------------------------ *)

\* An entry's buffer: NULL (no purgeable yet), Purged, Blank, or what was
\* read.
Empty == [num |-> -1, buf |-> NULL]
cyl_cache_init == [k \in 1..CYLINDER_CACHE_CYLS |-> Empty]

\* An entry becomes the most recently used one.
ToTail(entries, k, e) == RemoveAt(entries, k) \o <<e>>

Hits(c) == {k \in DOMAIN cache : cache[k].buf # NULL /\ cache[k].num = c}

\* cyl_cache_read: is there a disk?  (Asked twice, the second time by
\* flop_block_size, whose answer is not looked at.)
CacheCheck ==
    /\ \/ At("cache") /\ Call("check", "cache1") /\ UNCHANGED ret
       \/ At("cache1") /\ f = NULL /\ Return("fail")
       \/ At("cache1") /\ f # NULL /\ Call("check", "cache2") /\ UNCHANGED ret
       \/ At("cache2") /\ f = NULL /\ do_page_fault
    /\ Posted
    /\ UNCHANGED <<drive, driver, caches, dma, got>>

Fits == cache # NULL /\ cyl_size(cache_format) = cyl_size(f)

\* purgeable_free asserts that its argument is not NULL.
CanDestroy == \A k \in DOMAIN cache : cache[k].buf # NULL

\* A cache for cylinders of another size is destroyed first.
CacheInit ==
    /\ At("cache2") /\ f # NULL /\ ~Fits
    /\ IF cache # NULL /\ ~CanDestroy THEN Panic /\ UNCHANGED caches
       ELSE cache' = cyl_cache_init /\ cache_format' = f /\ UNCHANGED <<stk, ret>>
    /\ UNCHANGED <<drive, driver, dma, got, blk_sem>>

\* The search, from the most recently used entry.
CacheSearch ==
    /\ At("cache2") /\ f # NULL /\ Fits
    /\ IF Hits(Top.c) = {} THEN Goto("miss")
       ELSE \E k \in Hits(Top.c) :
               /\ \A j \in Hits(Top.c) : j <= k
               /\ stk' = Front(stk) \o <<[Top EXCEPT !.at = "hit", !.n = k]>>
    /\ UNCHANGED <<drive, driver, caches, dma, ret, got, blk_sem>>

\* purgeable_get of the entry found, which may have been purged meanwhile.
CacheHit ==
    /\ At("hit")
    /\ LET k == Top.n IN
       IF cache[k].num = Top.c
       THEN cache' = ToTail(cache, k, cache[k]) /\ Return("ok")
       ELSE cache' = [cache EXCEPT ![k].buf = Blank] /\ Goto("miss") /\ UNCHANGED ret
    /\ UNCHANGED <<drive, driver, cache_format, dma, got, blk_sem>>

\* The least recently used entry is to be used; dma_buf may hold the cylinder.
CacheMiss ==
    /\ At("miss")
    /\ cache' = IF cache[1].buf = NULL THEN [cache EXCEPT ![1].buf = Blank] ELSE cache
    /\ IF Top.c = dma_buf_cyl THEN Goto("fill") /\ ret' = "ok"
       ELSE Call("read_cyl", "fill") /\ UNCHANGED ret
    /\ UNCHANGED <<drive, driver, cache_format, dma, got, blk_sem>>

CacheFill ==
    /\ At("fill")
    /\ IF ret # "ok" THEN Return("fail") /\ UNCHANGED cache
       ELSE cache' = ToTail(cache, 1, [num |-> Top.c, buf |-> dma_buf]) /\ Return("ok")
    /\ UNCHANGED <<drive, driver, cache_format, dma, got, blk_sem>>

\* on_cyl_purge, from any task that needs memory: not of a buffer between
\* purgeable_get and purgeable_put.  It asserts that the entry is in use.
Locked(k) == k = Len(cache) /\ ((At("read2") /\ ret = "ok") \/ \E j \in DOMAIN stk : stk[j].at = "copy")

on_cyl_purge(k) ==
    /\ cache # NULL /\ cache[k].buf \notin {NULL, Purged} /\ ~Locked(k)
    /\ IF cache[k].num >= 0
       THEN cache' = [cache EXCEPT ![k] = [num |-> -1, buf |-> Purged]] /\ UNCHANGED <<stk, ret>>
       ELSE Panic /\ UNCHANGED cache
    /\ UNCHANGED <<drive, driver, cache_format, dma, got, blk_sem>>

(* ---------------------------- the block device -------------------------- *)

Int8(n) == ((n + 128) % 256) - 128
UInt16(n) == n % 65536

Start(frame) == stk = <<>> /\ stk' = <<frame>> /\ ret' = "ok" /\ got' = NULL

\* Both come through devfs, which asks for the size of a block first, with the
\* semaphore.
flop_block_count ==
    /\ blk_sem = 1
    /\ Start([at |-> "check", c |-> 0, n |-> 0])
    /\ UNCHANGED <<drive, driver, caches, dma, blk_sem>>

flop_block_read(lba) ==
    /\ blk_sem = 1
    /\ Start([at |-> "read", c |-> lba, n |-> 0])
    /\ UNCHANGED <<drive, driver, caches, dma, blk_sem>>

\* The cylinder's number is an int8_t in cyl_cache_read, which refuses negative
\* ones; n is the block's place in its cylinder.
ReadBlock ==
    /\ \/ At("read") /\ Call("check", "read1") /\ UNCHANGED ret
       \/ At("read1") /\ f = NULL /\ Return("fail")
       \/ /\ At("read1") /\ f # NULL
          /\ LET lba == UInt16(Top.c)
                 c   == Int8(lba_to_cyl(f, lba))
                 n   == lba_to_head(f, lba) * Format(f).spt + lba_to_sector(f, lba) - 1
             IN  IF c < 0 THEN Return("fail")
                 ELSE /\ stk' = << [at |-> "read2", c |-> Top.c, n |-> n], [at |-> "cache", c |-> c, n |-> 0] >>
                      /\ UNCHANGED ret
       \/ At("read2") /\ ret # "ok" /\ Return("fail")
       \/ At("read2") /\ ret = "ok" /\ Call("check", "copy") /\ UNCHANGED ret
    /\ UNCHANGED <<drive, driver, caches, dma, got, blk_sem>>

\* The block is copied and the buffer put back.
CopyBlock ==
    /\ At("copy")
    /\ IF f = NULL THEN do_page_fault /\ UNCHANGED got
       ELSE /\ got' = [lba |-> Top.c, data |-> Last(cache).buf, n |-> Top.n, f |-> f, disk |-> disk]
            /\ Return("ok")
    /\ Posted
    /\ UNCHANGED <<drive, driver, caches, dma>>

\* hexdump_cyl and hash_cyl of the debug menu.
hash_cyl(c) ==
    /\ Start([at |-> "read_cyl", c |-> c, n |-> 0])
    /\ dma_buf' = NULL /\ dma_buf_cyl' = -1
    /\ UNCHANGED <<drive, driver, caches, blk_sem>>

seek_selected(c) ==
    /\ Start([at |-> "cmd_seek", c |-> c, n |-> 0])
    /\ UNCHANGED <<drive, driver, caches, dma, blk_sem>>

(* ------------------------------- the user ------------------------------- *)

Eject ==
    /\ disk # NULL /\ stk = <<>>
    /\ disk' = NULL /\ dskchg' = TRUE
    /\ UNCHANGED <<pos, driver, caches, dma, stk, ret, got, blk_sem>>

Insert(x) ==
    /\ disk = NULL /\ stk = <<>>
    /\ disk' = x /\ dskchg' = TRUE
    /\ UNCHANGED <<pos, driver, caches, dma, stk, ret, got, blk_sem>>

-----------------------------------------------------------------------------

Step ==
    \/ reset_drive \/ probe
    \/ cmd_recalibrate \/ cmd_seek_internal \/ cmd_read_id
    \/ detect_media \/ DetectFirst \/ DetectNext
    \/ check_media_changed \/ CheckCleared \/ media_inserted
    \/ cmd_seek \/ do_handle_cylinder \/ ReadLoop \/ handle_cylinder \/ Returned
    \/ CacheCheck \/ CacheInit \/ CacheSearch \/ CacheHit \/ CacheMiss \/ CacheFill
    \/ ReadBlock \/ CopyBlock

Next ==
    \/ Step
    \/ flop_block_count
    \/ \E lba \in Lbas : flop_block_read(lba)
    \/ \E c \in Selected : hash_cyl(c) \/ seek_selected(c)
    \/ cache # NULL /\ \E k \in DOMAIN cache : on_cyl_purge(k)
    \/ Eject \/ \E x \in Disks : Insert(x)

Spec == Init /\ [][Next]_vars

\* The driver's task goes on; sleeps end.
FairSpec == Spec /\ WF_vars(Step)

-----------------------------------------------------------------------------

\* A cylinder's number is looked up in 8 bits, so from here on blocks come
\* round to others.
Wraps(name, lba) == lba >= 256 * cyl_size(name)

\* A block that is read is in the place its number says: whatever failed, was
\* retried, evicted or purged before, and however far behind the disk's end it
\* is, neither cache nor dma_buf passes a cylinder off as another.  There are
\* two exceptions, and no third: numbers that wrap, and a cylinder taken from
\* dma_buf (dma_buf_cyl says it is there) after a later transfer failed half way.
RightBlock ==
    got # NULL =>
        /\ got.data \notin {NULL, Blank, Purged}
        /\ \/ got.data = Torn
           \/ Wraps(got.f, got.lba)
           \/ got.data.cyl * cyl_size(got.f) + got.n = got.lba

\* What is read is on the disk that is in the drive ("Media change (eject)
\* detection", README): nothing read before a change is used after it.
InsertedDisk == got # NULL /\ got.data # Torn => got.data.disk = got.disk

\* Every call ends, with a result, with its task killed or the kernel's panic: the retries of
\* commands, formats and cylinders are bounded together.
CallsEnd == (stk # <<>>) ~> (stk = <<>> \/ At("panic") \/ At("absent"))
=============================================================================
