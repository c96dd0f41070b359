------------------------------- MODULE Logger -------------------------------
(***************************************************************************)
(* drivers/staging/android/logger.c: one log, a ring of bytes that writers *)
(* never wait for and that overwrites its oldest entries, and its readers, *)
(* each with an offset that a writer pulls forward when it laps it.        *)
(*                                                                         *)
(* What is done under log->mutex between two points where a process may    *)
(* sleep, or meet somebody who does not take the mutex, is one step: the   *)
(* head, each reader of fix_up_readers, the header and each segment of a   *)
(* write.  Of an entry the length matters, in two bytes of its header, and *)
(* where it starts; poll and the ioctls that only read are left out.       *)
(***************************************************************************)
EXTENDS Integers, Sequences, SequencesExt

CONSTANTS
  Writers, Readers,   \* processes that write; open files that read
  NONE,
  Size,               \* log->size
  Base,               \* values of a byte
  Header,             \* sizeof(struct logger_entry)
  Payloads,           \* lengths of a payload, up to LOGGER_ENTRY_MAX_PAYLOAD
  Bytes               \* bytes of a payload

MaxLen == Header + Max(Payloads)    \* LOGGER_ENTRY_MAX_LEN

ASSUME LoggerAssumption ==
  /\ NONE \notin Writers \cup Readers
  /\ Header \in Nat /\ Header >= 2 /\ Base \in Nat /\ Base >= 2
  /\ Payloads \subseteq 1..(Base * Base - 1) /\ Payloads # {}
  /\ Bytes \subseteq 0..(Base - 1) /\ Bytes # {}
  /\ Size \in Nat /\ Size >= 2 * MaxLen

Offsets == 0..(Size - 1)

VARIABLES
  buffer, w_off, head,
  readers,     \* the list of open readers
  r_off,
  mutex,       \* who holds log->mutex
  wr,          \* where each writer is, with orig, header.len and its place in the list
  rd,          \* where each reader is
  sleeping,    \* readers on log->wq in TASK_INTERRUPTIBLE
  whole,       \* entries written completely and not written over or flushed
  damaged      \* auxiliary: one of the two accidents has happened

(* The accidents logger.c is open to.  A write whose copy fails puts w_off *)
(* back to an orig that it read before it had the mutex, and another write *)
(* has moved w_off since.  A file is closed, which takes no mutex, while a *)
(* writer is at its reader.                                                *)
logVars == <<buffer, w_off, head, whole, damaged>>
vars == <<logVars, readers, r_off, mutex, wr, rd, sleeping>>

logger_offset(n) == n % Size
dist(a, b) == (b - a) % Size     \* from a forward to b

idle == [pc |-> "idle", orig |-> 0, len |-> 0, left |-> 0, at |-> NONE]

Init ==
  /\ buffer = [o \in Offsets |-> 0] /\ w_off = 0 /\ head = 0 /\ whole = {}
  /\ readers = <<>> /\ r_off = [r \in Readers |-> 0] /\ mutex = NONE
  /\ wr = [w \in Writers |-> idle]
  /\ rd = [r \in Readers |-> "closed"] /\ sleeping = {} /\ damaged = FALSE
----------------------------------------------------------------------------
get_entry_len(off) == Header + buffer[off] + Base * buffer[logger_offset(off + 1)]

(* The offset of the first entry at least len bytes after off.             *)
get_next_entry[len \in 1..MaxLen] ==
  [off \in Offsets |->
     LET nr == get_entry_len(off)
         next == logger_offset(off + nr)
     IN  IF nr >= len THEN next ELSE get_next_entry[len - nr][next]]

clock_interval(a, b, c) ==
  IF b < a THEN a < c \/ b >= c ELSE a < c /\ b >= c

(* Where fix_up_readers of a write of len bytes moves offset off to.       *)
fix_up(off, len) ==
  IF clock_interval(w_off, logger_offset(w_off + len), off)
    THEN get_next_entry[len][off] ELSE off

(* The n bytes of f, written at w_off.                                     *)
do_write_log(f, n) ==
  /\ buffer' = [o \in Offsets |->
                  IF dist(w_off, o) < n THEN f[dist(w_off, o) + 1] ELSE buffer[o]]
  /\ w_off' = logger_offset(w_off + n)

untouched(n) ==
  {e \in whole : dist(w_off, e.off) >= n /\ dist(w_off, e.off) + e.len <= Size}
----------------------------------------------------------------------------
(* logger_aio_write: orig is read before the mutex is taken.               *)
logger_aio_write(w) ==
  /\ wr[w].pc = "idle"
  /\ \E len \in Payloads :
       wr' = [wr EXCEPT ![w] = [pc |-> "lock", orig |-> w_off, len |-> len, left |-> len, at |-> NONE]]
  /\ UNCHANGED <<logVars, readers, r_off, mutex, rd, sleeping>>

(* The reader after the place in the list where w is, if it is still open. *)
next_reader(r) ==
  LET i == CHOOSE j \in DOMAIN readers : readers[j] = r
  IN  IF i = Len(readers) THEN NONE ELSE readers[i + 1]

write_at(w, r) ==
  wr' = [wr EXCEPT ![w].pc = IF r = NONE THEN "header" ELSE "fix", ![w].at = r]

fix_up_head(w) ==
  /\ wr[w].pc = "lock" /\ mutex = NONE /\ mutex' = w
  /\ head' = fix_up(head, Header + wr[w].len)
  /\ write_at(w, IF readers = <<>> THEN NONE ELSE Head(readers))
  /\ UNCHANGED <<buffer, w_off, whole, damaged, readers, r_off, rd, sleeping>>

(* Mutant: the readers are left where they are.                            *)
fix_up_reader_mutant(w) ==
  /\ wr[w].pc = "fix" /\ wr[w].at \in Range(readers)
  /\ write_at(w, next_reader(wr[w].at))
  /\ UNCHANGED <<logVars, readers, r_off, mutex, rd, sleeping>>

fix_up_reader(w) ==
  /\ wr[w].pc = "fix" /\ wr[w].at \in Range(readers)
  /\ r_off' = [r_off EXCEPT ![wr[w].at] = fix_up(@, Header + wr[w].len)]
  /\ write_at(w, next_reader(wr[w].at))
  /\ UNCHANGED <<logVars, readers, mutex, rd, sleeping>>

write_header(w) ==
  /\ wr[w].pc = "header"
  /\ do_write_log([i \in 1..Header |-> CASE i = 1 -> wr[w].len % Base
                                         [] i = 2 -> wr[w].len \div Base
                                         [] OTHER -> 0], Header)
  /\ whole' = untouched(Header)
  /\ wr' = [wr EXCEPT ![w].pc = "payload"]
  /\ UNCHANGED <<head, damaged, readers, r_off, mutex, rd, sleeping>>

(* One segment of the payload; the last one ends the write.                *)
do_write_log_from_user(w) ==
  /\ wr[w].pc = "payload"
  /\ \E n \in 1..wr[w].left, b \in Bytes :
       /\ do_write_log([i \in 1..n |-> b], n)
       /\ \/ /\ n < wr[w].left
             /\ wr' = [wr EXCEPT ![w].left = @ - n]
             /\ whole' = untouched(n)
             /\ UNCHANGED mutex
          \/ /\ n = wr[w].left
             /\ wr' = [wr EXCEPT ![w].pc = "wake_up"]
             /\ LET len == Header + wr[w].len
                IN  whole' = untouched(n) \cup {[off |-> logger_offset(w_off + n - len), len |-> len]}
             /\ mutex' = NONE
  /\ UNCHANGED <<head, damaged, readers, r_off, rd, sleeping>>

(* Where the entry that w is writing begins.                               *)
entry_start(w) == logger_offset(w_off - (Header + wr[w].len - wr[w].left))

(* copy_from_user fails, having written any part of the segment.           *)
write_fault(w) ==
  /\ wr[w].pc = "payload"
  /\ \E n \in 1..wr[w].left : \E f \in [1..n -> Bytes] :
       /\ buffer' = [o \in Offsets |->
                       IF dist(w_off, o) < n THEN f[dist(w_off, o) + 1] ELSE buffer[o]]
       /\ whole' = untouched(n)
  /\ w_off' = wr[w].orig
  /\ damaged' = (damaged \/ wr[w].orig # entry_start(w))
  /\ mutex' = NONE
  /\ wr' = [wr EXCEPT ![w] = idle]
  /\ UNCHANGED <<head, readers, r_off, rd, sleeping>>

(* Mutant: nobody is woken.                                                *)
wake_up_mutant(w) ==
  /\ wr[w].pc = "wake_up"
  /\ wr' = [wr EXCEPT ![w] = idle]
  /\ UNCHANGED <<logVars, readers, r_off, mutex, rd, sleeping>>

wake_up(w) ==
  /\ wr[w].pc = "wake_up"
  /\ wr' = [wr EXCEPT ![w] = idle]
  /\ sleeping' = {}
  /\ rd' = [r \in Readers |-> IF rd[r] = "asleep" THEN "start" ELSE rd[r]]
  /\ UNCHANGED <<logVars, readers, r_off, mutex>>
----------------------------------------------------------------------------
goto(r, pc) == rd' = [rd EXCEPT ![r] = pc]

logger_read(r) ==
  /\ rd[r] = "idle" /\ goto(r, "start")
  /\ UNCHANGED <<logVars, readers, r_off, mutex, wr, sleeping>>

prepare_to_wait(r) ==
  /\ rd[r] = "start" /\ goto(r, "prepared")
  /\ sleeping' = sleeping \cup {r}
  /\ UNCHANGED <<logVars, readers, r_off, mutex, wr>>

(* mutex_lock has to wait and comes back in TASK_RUNNING.                  *)
lock_contended(r) ==
  /\ rd[r] = "prepared" /\ mutex # NONE /\ r \in sleeping
  /\ sleeping' = sleeping \ {r}
  /\ UNCHANGED <<logVars, readers, r_off, mutex, wr, rd>>

check_log(r) ==
  /\ rd[r] = "prepared" /\ mutex = NONE
  /\ IF w_off = r_off[r] THEN goto(r, "empty") /\ UNCHANGED sleeping
                         ELSE goto(r, "found") /\ sleeping' = sleeping \ {r}
  /\ UNCHANGED <<logVars, readers, r_off, mutex, wr>>

(* -EAGAIN of a file that does not block, -EINTR, or schedule.             *)
read_gives_up(r) ==
  /\ rd[r] = "empty" /\ goto(r, "idle")
  /\ sleeping' = sleeping \ {r}
  /\ UNCHANGED <<logVars, readers, r_off, mutex, wr>>

schedule(r) ==
  /\ rd[r] = "empty"
  /\ goto(r, IF r \in sleeping THEN "asleep" ELSE "start")
  /\ UNCHANGED <<logVars, readers, r_off, mutex, wr, sleeping>>

signal(r) ==
  /\ rd[r] = "asleep" /\ goto(r, "start")
  /\ sleeping' = sleeping \ {r}
  /\ UNCHANGED <<logVars, readers, r_off, mutex, wr>>

(* The rest of logger_read: the log may be empty again, the buffer of user *)
(* space too small or not there.                                           *)
read_entry(r) ==
  /\ rd[r] = "found" /\ mutex = NONE
  /\ \/ /\ w_off = r_off[r] /\ goto(r, "start") /\ UNCHANGED r_off
     \/ /\ w_off # r_off[r] /\ goto(r, "idle")
        /\ \/ UNCHANGED r_off
           \/ r_off' = [r_off EXCEPT ![r] = logger_offset(@ + get_entry_len(@))]
  /\ UNCHANGED <<logVars, readers, mutex, wr, sleeping>>

logger_open(r) ==
  /\ rd[r] = "closed" /\ mutex = NONE /\ goto(r, "idle")
  /\ readers' = Append(readers, r)
  /\ r_off' = [r_off EXCEPT ![r] = head]
  /\ UNCHANGED <<logVars, mutex, wr, sleeping>>

(* logger_release does not take the mutex.  A writer that is at the reader *)
(* follows the pointers that list_del has poisoned and dies with an oops,  *)
(* holding the mutex.                                                      *)
logger_release(r) ==
  /\ rd[r] = "idle" /\ goto(r, "closed")
  /\ wr' = [w \in Writers |-> IF wr[w].at = r THEN [wr[w] EXCEPT !.pc = "oops"] ELSE wr[w]]
  /\ damaged' = (damaged \/ \E w \in Writers : wr[w].at = r)
  /\ readers' = RemoveFirst(readers, r)
  /\ r_off' = [r_off EXCEPT ![r] = 0]
  /\ UNCHANGED <<buffer, w_off, head, whole, mutex, sleeping>>

logger_flush ==
  /\ mutex = NONE
  /\ head' = w_off /\ whole' = {}
  /\ r_off' = [r \in Readers |-> IF r \in Range(readers) THEN w_off ELSE r_off[r]]
  /\ UNCHANGED <<buffer, w_off, damaged, readers, mutex, wr, rd, sleeping>>
----------------------------------------------------------------------------
writeStep(w) ==
  \/ fix_up_reader(w) \/ write_header(w) \/ do_write_log_from_user(w) \/ write_fault(w)
  \/ wake_up(w)

readStep(r) == prepare_to_wait(r) \/ schedule(r)

Next ==
  \/ \E w \in Writers : logger_aio_write(w) \/ fix_up_head(w) \/ writeStep(w)
  \/ \E r \in Readers : \/ logger_read(r) \/ readStep(r) \/ lock_contended(r) \/ check_log(r)
                        \/ read_gives_up(r) \/ signal(r) \/ read_entry(r)
                        \/ logger_open(r) \/ logger_release(r)
  \/ logger_flush

Spec == Init /\ [][Next]_vars

(* A write and a read that were started go on, and a mutex is given to     *)
(* those who wait for it in turn.                                          *)
FairSpec ==
  /\ Spec
  /\ \A w \in Writers : SF_vars(fix_up_head(w) \/ writeStep(w))
  /\ \A r \in Readers : SF_vars(readStep(r) \/ check_log(r) \/ read_entry(r))
----------------------------------------------------------------------------
(* Every piece of state has its type and the mutex its holder.             *)
LoggerTypeOK ==
  /\ buffer \in [Offsets -> 0..(Base - 1)] /\ w_off \in Offsets /\ head \in Offsets
  /\ r_off \in [Readers -> Offsets] /\ sleeping \subseteq Readers
  /\ \A r \in Readers : rd[r] # "closed" <=> r \in Range(readers)
  /\ \A w \in Writers : (wr[w].pc \in {"fix", "header", "payload"}) <=> mutex = w
  /\ \A r \in Readers : rd[r] = "asleep" => r \in sleeping

(* Whole entries, one after the other, are all there is from off to where  *)
(* the next one will be written.                                           *)
intact(off) ==
  \A d \in 0..(dist(off, w_off) - 1) :
    \E e \in whole : /\ dist(off, e.off) <= d /\ d < dist(off, e.off) + e.len
                     /\ dist(off, e.off) + e.len <= dist(off, w_off)

(* "Atomically reads exactly one log entry": whoever gets the mutex finds  *)
(* nothing but complete entries ahead of every reader, and of one that     *)
(* opens the log now, with the lengths they were written with, whatever    *)
(* was written over, wrapped around or flushed, and whatever failed half   *)
(* way with no other write between its look at w_off and its mutex.        *)
EntriesIntact ==
  mutex = NONE =>
    /\ \A off \in {head} \cup {r_off[r] : r \in Range(readers)} : intact(off)
    /\ \A e \in whole : get_entry_len(e.off) = e.len

(* A new reader misses no entry that is still complete, but those that the *)
(* writer reaches within two entries of the greatest length.               *)
OnlyOldestDropped ==
  mutex = NONE =>
    \A e \in whole : dist(head, e.off) < dist(head, w_off) \/ dist(w_off, e.off) < 2 * MaxLen

(* A read that has something to read, or that a write will have woken,     *)
(* returns, unless what there was is flushed, or one of the two accidents  *)
(* happens: w_off put back behind a reader wakes nobody, and a writer that *)
(* dies keeps the mutex.                                                   *)
BlockedReadEnds ==
  \A r \in Readers :
    (rd[r] \notin {"closed", "idle"} /\ w_off # r_off[r])
      ~> (rd[r] = "idle" \/ w_off = r_off[r] \/ damaged)

(* Until one of the two accidents happens a reader finds a sound log: its  *)
(* offset and the offset for new readers are at the start of a whole entry *)
(* after any write, wrap, flush or failed copy of any number of writers,   *)
(* and what fix_up_readers skips is what is about to be overwritten.       *)
LogSound ==
  ~ damaged => /\ LoggerTypeOK
               /\ EntriesIntact
               /\ OnlyOldestDropped
=============================================================================
