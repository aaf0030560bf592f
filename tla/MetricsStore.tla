---------------------------- MODULE MetricsStore ----------------------------
(***************************************************************************)
(* What becomes of a recorded request: MetricsCollector.record_request     *)
(* (dashboard/metrics.py) on the event loop, the AsyncWriter thread        *)
(* (dashboard/storage.py), the SQLite file, and restarts of the process.   *)
(*                                                                         *)
(* A request is the number of its recording, in the order of the clock.    *)
(* record_request awaits nothing and only the event loop calls it, so one  *)
(* is in progress at a time; the writer thread and the end of the process  *)
(* fall between its steps.  A bucket is the set of requests it counts; a   *)
(* minute without one has the empty set.                                   *)
(***************************************************************************)
EXTENDS SortedSeqs

CONSTANTS
  MaxRequests, \* bound: requests recorded in a run
  MaxMinute,   \* bound: the clock of a run stops here
  MaxLives,    \* bound: starts of the process
  Retain,      \* _BUCKETS: minutes of buckets kept in memory and loaded
  MaxRecent,   \* max_request_log
  MaxQueue,    \* max_queue of the writer
  BatchSize,   \* batch_size of the writer
  Unbindable   \* requests whose row SQLite's driver refuses to bind with an
               \* exception that is no sqlite3.Error: a token count beyond 64 bits,
               \* a model name that is not valid Unicode

Requests == 1..MaxRequests
Minutes == 0..MaxMinute

ASSUME StoreAssumption ==
  /\ MaxRequests \in Nat /\ MaxMinute \in Nat /\ MaxLives \in Nat \ {0}
  /\ Retain \in Nat /\ MaxRecent \in Nat \ {0}
  /\ MaxQueue \in Nat \ {0} /\ BatchSize \in Nat \ {0}
  /\ Unbindable \subseteq Requests

VARIABLES
  minute,   \* time.time(), in whole minutes
  alive,    \* the process runs
  log,      \* history: the minute and the life each request was recorded in
  lives,    \* history: starts of the process so far
  bucket,   \* _buckets: the requests each minute's bucket counts
  flushed,  \* the minutes whose bucket has flushed = True
  recent,   \* _recent, oldest first
  pending,  \* record_request: the row to enqueue, or 0
  toFlush,  \* record_request: to_flush, the minutes still to persist
  queue,    \* _queue of the writer
  writer,   \* where _loop is: "get", "fill", "write", or "dead" when it raised
  batch,    \* _loop: batch
  rows,     \* the requests table, in insertion order
  disk,     \* the minute_buckets table
  dropped,  \* the rows counted by _dropped
  lost,     \* history: the rows a storage error or the end of the process took
  unsaved   \* history: the minutes whose upsert failed or was cut short

recorder == <<pending, toFlush>>
store == <<rows, disk>>
memory == <<bucket, flushed, recent>>
thread == <<queue, writer, batch>>
history == <<log, lives, lost, unsaved>>
vars == <<minute, alive, memory, recorder, thread, store, dropped, history>>

\* The n newest of the requests S.
Newest(S, n) == {i \in S : Cardinality({j \in S : j > i}) < n}

LastN(s, n) == SubSeq(s, IF Len(s) > n THEN Len(s) - n + 1 ELSE 1, Len(s))

Init ==
  /\ minute = 0 /\ alive = TRUE
  /\ log = <<>> /\ lives = 1
  /\ bucket = [m \in Minutes |-> {}] /\ flushed = {} /\ recent = <<>>
  /\ pending = 0 /\ toFlush = {}
  /\ queue = <<>> /\ writer = "get" /\ batch = <<>>
  /\ rows = <<>> /\ disk = [m \in Minutes |-> {}]
  /\ dropped = {} /\ lost = {} /\ unsaved = {}

Tick ==
  /\ minute < MaxMinute
  /\ minute' = minute + 1
  /\ UNCHANGED <<alive, memory, recorder, thread, store, dropped, history>>

-----------------------------------------------------------------------------
\* The event loop

\* Variant: a minute closes only when the very next one opens.
ClosedByNext(m) == {c \in Minutes : c + 1 = m /\ bucket[c] # {} /\ c \notin flushed}

\* Variant: the bucket that opens is flushed too.
ClosedAndOpen(m) == {c \in Minutes : c <= m /\ (bucket[c] # {} \/ c = m) /\ c \notin flushed}

\* "flush any buckets that are now closed": what the first request of minute m
\* takes on itself to persist.
Closed(m) == {c \in Minutes : c < m /\ bucket[c] # {} /\ c \notin flushed}

\* The buckets _evict_old_buckets_locked keeps.
Kept(m) == {c \in Minutes : c + Retain >= m}

\* The locked section of record_request.
Record ==
  LET id == Len(log) + 1
      opens == bucket[minute] = {}
      closed == IF opens THEN Closed(minute) ELSE {}
      kept == IF opens THEN Kept(minute) ELSE Minutes
  IN /\ alive /\ pending = 0 /\ toFlush = {}
     /\ id \in Requests
     /\ log' = Append(log, [minute |-> minute, life |-> lives])
     /\ bucket' = [m \in Minutes |-> IF m = minute THEN bucket[m] \union {id}
                                     ELSE IF m \in kept THEN bucket[m] ELSE {}]
     /\ flushed' = (flushed \union closed) \intersect kept
     /\ recent' = LastN(Append(recent, id), MaxRecent)
     /\ pending' = id
     \* the bucket objects in to_flush outlive their eviction
     /\ toFlush' = {<<c, bucket'[c] \union bucket[c]>> : c \in closed}
     /\ UNCHANGED <<minute, alive, thread, store, dropped, lives, lost, unsaved>>

\* Variant: the queue has no limit.
EnqueueUnlimited ==
  /\ alive /\ pending # 0
  /\ pending' = 0
  /\ queue' = Append(queue, pending)
  /\ UNCHANGED <<minute, alive, memory, toFlush, writer, batch, store, dropped, history>>

\* enqueue(): "drops writes when the queue is full rather than stalling".
Enqueue ==
  /\ alive /\ pending # 0
  /\ pending' = 0
  /\ \/ /\ Len(queue) < MaxQueue
        /\ queue' = Append(queue, pending)
        /\ UNCHANGED dropped
     \/ /\ Len(queue) = MaxQueue
        /\ dropped' = dropped \union {pending}
        /\ UNCHANGED queue
  /\ UNCHANGED <<minute, alive, memory, toFlush, writer, batch, store, history>>

\* _persist_bucket: the upsert, or an exception that is logged and swallowed.
Persist(b) ==
  /\ alive /\ pending = 0 /\ b \in toFlush
  /\ toFlush' = toFlush \ {b}
  /\ \/ /\ disk' = [disk EXCEPT ![b[1]] = b[2]]
        /\ UNCHANGED unsaved
     \/ /\ unsaved' = unsaved \union {b[1]}
        /\ UNCHANGED disk
  /\ UNCHANGED <<minute, alive, memory, pending, thread, rows, dropped, log, lives, lost>>

-----------------------------------------------------------------------------
\* The writer thread

\* Variant: waits until a batch is full.
TakeFirstOfMany ==
  /\ alive /\ writer = "get" /\ Len(queue) >= BatchSize
  /\ batch' = <<Head(queue)>> /\ queue' = Tail(queue)
  /\ writer' = "fill"
  /\ UNCHANGED <<minute, alive, memory, recorder, store, dropped, history>>

\* The blocking get(); a timeout goes round again.
TakeFirst ==
  /\ alive /\ writer = "get" /\ queue # <<>>
  /\ batch' = <<Head(queue)>> /\ queue' = Tail(queue)
  /\ writer' = "fill"
  /\ UNCHANGED <<minute, alive, memory, recorder, store, dropped, history>>

\* get_nowait() until the batch is full or the queue is empty.
TakeMore ==
  /\ alive /\ writer = "fill"
  /\ \/ /\ Len(batch) < BatchSize /\ queue # <<>>
        /\ batch' = Append(batch, Head(queue)) /\ queue' = Tail(queue)
        /\ UNCHANGED writer
     \/ /\ Len(batch) = BatchSize \/ queue = <<>>
        /\ writer' = "write"
        /\ UNCHANGED <<queue, batch>>
  /\ UNCHANGED <<minute, alive, memory, recorder, store, dropped, history>>

\* executemany in autocommit: each INSERT stands when the next one fails.
WriteRow ==
  /\ alive /\ writer = "write" /\ Head(batch) \notin Unbindable
  /\ rows' = Append(rows, Head(batch))
  /\ batch' = Tail(batch)
  /\ writer' = IF Len(batch) = 1 THEN "get" ELSE "write"
  /\ UNCHANGED <<minute, alive, memory, recorder, queue, disk, dropped, history>>

\* Variant: the failed batch is put back.
RetryBatch ==
  /\ alive /\ writer = "write"
  /\ queue' = Append(queue, Head(batch))
  /\ batch' = Tail(batch)
  /\ writer' = IF Len(batch) = 1 THEN "get" ELSE "write"
  /\ UNCHANGED <<minute, alive, memory, recorder, store, dropped, history>>

\* sqlite3.Error: the rest of the batch is dropped, uncounted.
WriteFails ==
  /\ alive /\ writer = "write"
  /\ lost' = lost \union ToSet(batch)
  /\ batch' = <<>>
  /\ writer' = "get"
  /\ UNCHANGED <<minute, alive, memory, recorder, queue, store, dropped, log, lives, unsaved>>

\* Another exception leaves _loop: the thread is gone.
WriterDies ==
  /\ alive /\ writer = "write" /\ Head(batch) \in Unbindable
  /\ lost' = lost \union ToSet(batch)
  /\ batch' = <<>>
  /\ writer' = "dead"
  /\ UNCHANGED <<minute, alive, memory, recorder, queue, store, dropped, log, lives, unsaved>>

Writer == TakeFirst \/ TakeMore \/ WriteRow \/ WriteFails \/ WriterDies

-----------------------------------------------------------------------------
\* The process

\* The process ends, orderly or not: no shutdown handler flushes the collector or
\* stops the writer, whose thread is a daemon.
Stop ==
  /\ alive
  /\ alive' = FALSE
  /\ lost' = lost \union ToSet(queue) \union ToSet(batch) \union ({pending} \ {0})
  /\ unsaved' = unsaved \union {b[1] : b \in toFlush}
  /\ pending' = 0 /\ toFlush' = {}
  /\ queue' = <<>> /\ batch' = <<>> /\ writer' = "get"
  /\ bucket' = [m \in Minutes |-> {}] /\ flushed' = {} /\ recent' = <<>>
  /\ UNCHANGED <<minute, store, dropped, log, lives>>

\* Variant: the rows stay newest first.
LoadedUnreversed == Descending(Newest(ToSet(rows), MaxRecent))

\* load_recent_requests, reversed: the newest MaxRecent rows, oldest first.
LoadedRecent == Ascending(Newest(ToSet(rows), MaxRecent))

\* The buckets no older than Retain minutes to the second: of the one that old to the
\* minute, only in the first second of a minute.
LoadedBucket(m, firstSecond) ==
  IF m + Retain > minute \/ (firstSecond /\ m + Retain = minute) THEN disk[m] ELSE {}

\* _load_from_storage: either read may fail by itself, and then counts as empty.
Start ==
  /\ ~alive /\ lives < MaxLives
  /\ alive' = TRUE /\ lives' = lives + 1
  /\ recent' \in {LoadedRecent, <<>>}
  /\ \/ \E firstSecond \in BOOLEAN : bucket' = [m \in Minutes |-> LoadedBucket(m, firstSecond)]
     \/ bucket' = [m \in Minutes |-> {}]
  /\ flushed' = {m \in Minutes : bucket'[m] # {}}
  /\ UNCHANGED <<minute, recorder, thread, store, dropped, log, lost, unsaved>>

Next ==
  \/ Tick \/ Record \/ Enqueue
  \/ \E b \in toFlush : Persist(b)
  \/ Writer
  \/ Stop \/ Start

\* The writer is a thread of its own: whenever it can go on it eventually does.
Spec == Init /\ [][Next]_vars /\ WF_vars(Writer)

-----------------------------------------------------------------------------
TypeOK ==
  /\ minute \in Minutes /\ alive \in BOOLEAN /\ lives \in 1..MaxLives
  /\ log \in Seq([minute : Minutes, life : 1..MaxLives])
  /\ bucket \in [Minutes -> SUBSET Requests] /\ flushed \subseteq Minutes
  /\ recent \in Seq(Requests) /\ Len(recent) <= MaxRecent
  /\ pending \in {0} \union Requests
  /\ toFlush \subseteq Minutes \X SUBSET Requests
  /\ queue \in Seq(Requests) /\ Len(queue) <= MaxQueue
  /\ batch \in Seq(Requests) /\ Len(batch) <= BatchSize
  /\ writer \in {"get", "fill", "write", "dead"}
  /\ rows \in Seq(Requests) /\ disk \in [Minutes -> SUBSET Requests]
  /\ dropped \subseteq Requests /\ lost \subseteq Requests /\ unsaved \subseteq Minutes

Recorded(m, l) == {i \in DOMAIN log : log[i].minute = m /\ log[i].life = l}

\* Every request recorded is exactly once in the table, on its way there, counted as
\* dropped, or taken by a storage error or the end of the process; and the table and
\* what is on its way keep the order of recording: the writer never writes a row
\* twice, and a failed batch never comes back behind a later one.
EveryRowAccounted ==
  LET line == rows \o batch \o queue \o (IF pending = 0 THEN <<>> ELSE <<pending>>)
  IN /\ Increasing(line)
     /\ ToSet(line) \union dropped \union lost = DOMAIN log
     /\ ToSet(line) \intersect (dropped \union lost) = {}
     /\ dropped \intersect lost = {}

\* "a durable record of completed minutes": a minute in the table is all that one life
\* of the process recorded in it; nothing is counted into it after it was written.
DiskMinutesWhole ==
  \A m \in Minutes : disk[m] # {} => \E l \in 1..lives : disk[m] = Recorded(m, l)

\* Once a life has recorded a request in a later minute and is done with it, the
\* earlier minutes it recorded in are in the table, unless their own upsert failed or
\* the process ended before it: silent minutes in between do not matter, and neither
\* does eviction from memory.
ClosedMinutesOnDisk ==
  \A m \in Minutes, l \in 1..lives :
    /\ Recorded(m, l) # {}
    /\ \E later \in Minutes : later > m /\ Recorded(later, l) # {}
    /\ m \notin unsaved
    /\ \A b \in toFlush : b[1] # m
    => disk[m] = Recorded(m, l)

\* The request-log panel shows the newest requests in the order they happened, across
\* a restart: those of this life behind the rows that were in the table when it began,
\* or behind nothing if they could not be read.
PanelIsRecent ==
  LET mine == {i \in DOMAIN log : log[i].life = lives}
      before == {i \in ToSet(rows) : log[i].life # lives}
  IN alive =>
       /\ Increasing(recent)
       /\ ToSet(recent) \in {Newest(before \union mine, MaxRecent), Newest(mine, MaxRecent)}

\* A row in the queue is taken out of it, to be written or lost, as long as the writer
\* has met no row its driver refuses: a storage error does not stop the thread.
QueuedRowsAreTaken ==
  \A i \in Requests :
    i \in ToSet(queue) ~> (i \notin ToSet(queue) \/ lost \intersect Unbindable # {})

\* "Never let a storage error kill the writer thread" (_loop): whatever the rows are,
\* a queued row is taken out of the queue.
WriterKeepsGoing ==
  \A i \in Requests : i \in ToSet(queue) ~> i \notin ToSet(queue)
=============================================================================
