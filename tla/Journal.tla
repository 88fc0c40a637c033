------------------------------ MODULE Journal ------------------------------
(***************************************************************************)
(* The delta journal of simn-sim (persistence/journal.rs): the producer    *)
(* end of the channel, the background writer thread, its BufWriter, and    *)
(* the file as a restarted process sees it and as a power loss leaves it.  *)
(*                                                                         *)
(* A record is its number: the n-th delta ever encoded is n, so the        *)
(* channel's FIFO order, the order of the bytes in the file and the order  *)
(* of the numbers are one order and every layer is a set of numbers.       *)
(*                                                                         *)
(* A file image is [hdr, recs, torn]: the snapshot tick of the header      *)
(* (NoHeader when the magic is absent or incomplete), the records whose    *)
(* bytes are complete, and the point of a torn record: 0 when there is     *)
(* none, otherwise a number such that exactly the records below it come    *)
(* before the torn bytes.                                                  *)
(***************************************************************************)
EXTENDS Records

NoHeader == -1

VARIABLES
  jq,        \* Append ops in the channel
  jop,       \* the blocking call in the channel, its ack, or the closed channel
  jtick,     \* new_snapshot_tick of the Rotate op
  jbuf,      \* records in the BufWriter
  jfile,     \* the file as any process on this machine reads it
  jsync,     \* the file as of the last successful fsync
  jpending,  \* pending_bytes > 0
  jthread,   \* where the writer thread is
  durable,   \* history: records that were ever covered by a successful fsync
  dropped    \* history: records whose write_all failed

journalVars == <<jq, jop, jtick, jbuf, jfile, jsync, jpending, jthread, durable, dropped>>

Image == [hdr : Nat \cup {NoHeader}, recs : SUBSET Ids, torn : 0 .. MaxRecords + 1]

JournalTypeOK ==
  /\ jq \in SUBSET Ids
  /\ jop \in {"idle", "rotate", "flush", "ok", "err", "closed"}
  /\ jtick \in Nat
  /\ jbuf \in SUBSET Ids
  /\ jfile \in Image
  /\ jsync \in Image
  /\ jpending \in BOOLEAN
  /\ jthread \in {"loop", "truncated", "exited", "dead"}
  /\ durable \in SUBSET Ids
  /\ dropped \in SUBSET Ids

FreshImage(t) == [hdr |-> t, recs |-> {}, torn |-> 0]

JournalInit ==
  /\ jq = {} /\ jbuf = {} /\ durable = {} /\ dropped = {}
  /\ jop = "idle" /\ jtick = 0
  /\ jfile = FreshImage(0)
  /\ jsync = FreshImage(0)
  /\ jpending = FALSE
  /\ jthread = "loop"

(* read_journal stops at the first torn, short or corrupt record. *)
Readable(e) == {i \in e.recs : e.torn = 0 \/ i < e.torn}

(* Fault model: the header is not compared with the snapshot. *)
ReplayAnyHeader(e, s) == Readable(e)

(* load_with_content: the deltas are applied when the two ticks agree. *)
Replay(e, s) == IF e.hdr = s.tick THEN Readable(e) ELSE {}

----------------------------------------------------------------------------
(* The producer's calls, made on the simulation thread.                    *)

(* Fault model: open always starts a new file. *)
OpenTruncates(t) == jfile' = FreshImage(t) /\ jsync' = FreshImage(t)

(* JournalWriter::open keeps a file whose header carries t, torn tail and
   all, and appends to it; any other file is truncated and given a fresh,
   fsynced header. *)
OpenJournal(t) ==
  IF jfile.hdr = t THEN UNCHANGED <<jfile, jsync>>
  ELSE jfile' = FreshImage(t) /\ jsync' = FreshImage(t)

AppendOp(r) == jq' = jq \cup {r}

(* Fault model: the journal is labelled with the tick after the snapshot's. *)
CallRotateNextTick(t) == jop' = "rotate" /\ jtick' = t + 1

CallRotate(t) == jop' = "rotate" /\ jtick' = t

CallFlush == jop' = "flush" /\ jtick' = 0

CloseChannel == jop' = "closed" /\ jtick' = 0

----------------------------------------------------------------------------
(* The writer thread.                                                      *)

Landed(f, b) == [f EXCEPT !.recs = @ \cup b]

(* A flush of the BufWriter followed by an fsync, both successful. *)
FsyncOf(f, b) ==
  /\ jfile' = Landed(f, b)
  /\ jsync' = Landed(f, b)
  /\ jbuf' = {}
  /\ durable' = durable \cup f.recs \cup b

(* ... or one of the two fails: the flush (the bytes stay buffered) or the
   fsync (they are in the file, not on the disk). *)
FsyncFails(f, b) ==
  /\ \/ jfile' = f /\ jbuf' = b
     \/ jfile' = Landed(f, b) /\ jbuf' = {}
  /\ UNCHANGED <<jsync, durable>>

(* Fault model: pending_bytes is cleared and nothing is flushed. *)
TimedFsyncSkipped(f, b) ==
  /\ jpending' = FALSE
  /\ jfile' = f /\ jbuf' = b
  /\ UNCHANGED <<jsync, durable, faults>>

(* The timed fsync only warns about an error: pending_bytes is cleared
   whatever happened. *)
TimedFsync(f, b) ==
  /\ jpending' = FALSE
  /\ \/ NoFault /\ FsyncOf(f, b)
     \/ Fault /\ FsyncFails(f, b)

(* Op::Append.  write_all may first spill what is already buffered; the
   fsync runs when FSYNC_INTERVAL has passed since the last one. *)
WriteRecord(r) ==
  /\ jthread = "loop"
  /\ r \in jq /\ \A s \in jq : r <= s
  /\ jq' = jq \ {r}
  /\ \E f \in {jfile, Landed(jfile, jbuf)} :
       LET b == IF f = jfile THEN jbuf \cup {r} ELSE {r} IN
       \/ /\ jfile' = f /\ jbuf' = b /\ jpending' = TRUE
          /\ UNCHANGED <<jsync, durable, faults>>
       \/ TimedFsync(f, b)
  /\ UNCHANGED <<jop, jtick, jthread, dropped>>

(* Op::Append, write_all fails: a warning, and the record is gone.  Either
   nothing of it reached the file, or its first bytes did. *)
WriteFails(r) ==
  /\ Fault
  /\ jthread = "loop"
  /\ r \in jq /\ \A s \in jq : r <= s
  /\ jq' = jq \ {r}
  /\ dropped' = dropped \cup {r}
  /\ \/ UNCHANGED <<jfile, jbuf>>
     \/ /\ jfile.torn = 0
        /\ jfile' = [Landed(jfile, jbuf) EXCEPT !.torn = r]
        /\ jbuf' = {}
  /\ UNCHANGED <<jop, jtick, jsync, jpending, jthread, durable>>

(* recv_timeout expired with bytes pending. *)
IdleFsync ==
  /\ jthread = "loop" /\ jop \notin {"rotate", "flush", "closed"}
  /\ jq = {} /\ jpending
  /\ TimedFsync(jfile, jbuf)
  /\ UNCHANGED <<jq, jop, jtick, jthread, dropped>>

(* Op::Rotate, first half: flush, fsync, reopen the path truncated. *)
RotateTruncate ==
  /\ NoFault
  /\ jthread = "loop" /\ jop = "rotate" /\ jq = {}
  /\ jsync' = Landed(jfile, jbuf)
  /\ durable' = durable \cup jfile.recs \cup jbuf
  /\ jbuf' = {}
  /\ jfile' = FreshImage(NoHeader)
  /\ jthread' = "truncated"
  /\ UNCHANGED <<jq, jop, jtick, jpending, dropped>>

(* Op::Rotate, second half: header written and fsynced, handle swapped. *)
RotateHeader ==
  /\ NoFault
  /\ jthread = "truncated"
  /\ jfile' = FreshImage(jtick)
  /\ jsync' = FreshImage(jtick)
  /\ jpending' = FALSE
  /\ jthread' = "loop"
  /\ jop' = "ok"
  /\ UNCHANGED <<jq, jtick, jbuf, durable, dropped>>

(* Op::Rotate fails before the truncation: the old file and handle stay. *)
RotateRefused ==
  /\ Fault
  /\ jthread = "loop" /\ jop = "rotate" /\ jq = {}
  /\ FsyncFails(jfile, jbuf)
  /\ jop' = "err"
  /\ UNCHANGED <<jq, jtick, jpending, jthread, dropped>>

(* Op::Rotate fails after the truncation.  The old handle stays in use on a
   file without a header, or on one whose header is complete and not fsynced;
   the old handle's offset then leaves a gap that reads as a bad record. *)
RotateBroken ==
  /\ Fault
  /\ jthread = "truncated"
  /\ jfile' \in {FreshImage(NoHeader), FreshImage(jtick), [FreshImage(jtick) EXCEPT !.torn = 1]}
  /\ jop' = "err"
  /\ jthread' = "loop"
  /\ UNCHANGED <<jq, jtick, jbuf, jsync, jpending, durable, dropped>>

(* Fault model: the flush is done and never acknowledged. *)
FlushUnacknowledged ==
  /\ NoFault
  /\ jthread = "loop" /\ jop = "flush" /\ jq = {}
  /\ FsyncOf(jfile, jbuf)
  /\ jpending' = FALSE
  /\ UNCHANGED <<jq, jop, jtick, jthread, dropped>>

(* Op::FlushAndSync. *)
FlushDone ==
  /\ NoFault
  /\ jthread = "loop" /\ jop = "flush" /\ jq = {}
  /\ FsyncOf(jfile, jbuf)
  /\ jpending' = FALSE
  /\ jop' = "ok"
  /\ UNCHANGED <<jq, jtick, jthread, dropped>>

FlushFails ==
  /\ Fault
  /\ jthread = "loop" /\ jop = "flush" /\ jq = {}
  /\ FsyncFails(jfile, jbuf)
  /\ jop' = "err"
  /\ UNCHANGED <<jq, jtick, jpending, jthread, dropped>>

(* Fault model: the thread ends without the last flush. *)
WriterExitUnflushed ==
  /\ NoFault
  /\ jthread = "loop" /\ jop = "closed" /\ jq = {}
  /\ jbuf' = {}
  /\ jthread' = "exited"
  /\ UNCHANGED <<jq, jop, jtick, jfile, jsync, jpending, durable, dropped>>

(* The channel is closed and empty: a last flush and fsync, errors ignored;
   what could not be flushed goes with the buffer. *)
WriterExit ==
  /\ jthread = "loop" /\ jop = "closed" /\ jq = {}
  /\ \/ NoFault /\ FsyncOf(jfile, jbuf)
     \/ /\ Fault
        /\ jfile' \in {jfile, Landed(jfile, jbuf)} /\ jbuf' = {}
        /\ UNCHANGED <<jsync, durable>>
  /\ jthread' = "exited"
  /\ UNCHANGED <<jq, jop, jtick, jpending, dropped>>

WriterStep ==
  \/ \E r \in Ids : WriteRecord(r) \/ WriteFails(r)
  \/ IdleFsync
  \/ RotateTruncate \/ RotateHeader \/ RotateRefused \/ RotateBroken
  \/ FlushDone \/ FlushFails
  \/ WriterExit

----------------------------------------------------------------------------
(* What a crash leaves of the file: lo is certain, of the rest a prefix is
   there, and the record after it may be torn. *)
CutImages(lo, bound) ==
  LET all == jfile.recs \cup jbuf IN
  {e \in { [hdr |-> jfile.hdr, recs |-> lo \cup {i \in all : i <= k}, torn |-> t] :
             k \in 0 .. MaxRecords, t \in {jfile.torn, bound} } :
     e.torn = jfile.torn \/ (jfile.torn = 0 /\ e.recs # all)}

(* The process dies: the page cache survives, a spill may be cut short. *)
CrashImages(bound) == CutImages(jfile.recs, bound)

SameFile == jsync.hdr = jfile.hdr /\ jsync.recs \subseteq jfile.recs

(* The machine dies: what was fsynced survives, the rest up to some point. *)
PowerImages(bound) ==
  {jsync} \cup CutImages(IF SameFile THEN jsync.recs ELSE {}, bound)
============================================================================
