---------------------------- MODULE AsyncLogging ----------------------------
(***************************************************************************)
(* The logging back end (base/AsyncLogging.cc, AsyncLogging.h) and the     *)
(* rolling files it writes (base/LogFile.cc, AppendFile of FileUtil.cc).   *)
(*                                                                         *)
(* Front-end threads append lines to currentBuffer_ under mutex_; a full   *)
(* buffer goes to buffers_ and nextBuffer_ takes its place.  The logging   *)
(* thread swaps all of it out, at the latest every flushInterval_ seconds, *)
(* writes it, and keeps two of the written buffers to hand them in at the  *)
(* next swap, so that append seldom allocates.                             *)
(*                                                                         *)
(* A line is the number of its append, a buffer the sequence of its lines. *)
(* append is one critical section, so which thread calls it makes no       *)
(* difference.  A file is named after the second it was opened in.         *)
(***************************************************************************)
EXTENDS Naturals, Sequences, SequencesExt

CONSTANTS
  Capacity,    \* lines that fit in a Buffer
  DropLimit,   \* 25: more buffers than this at a swap are dropped
  RollSize,    \* rollSize_, in lines
  CheckEveryN, \* checkEveryN_, in append calls of LogFile
  Period,      \* kRollPerSeconds_
  MaxSec,      \* bound: the clock shows a second of 1..MaxSec
  MaxLines     \* bound: lines appended

ASSUME BoundsAssumption ==
  /\ Capacity \in Nat \ {0} /\ CheckEveryN \in Nat \ {0} /\ Period \in Nat \ {0}
  /\ DropLimit \in Nat /\ DropLimit >= 2
  /\ RollSize \in Nat /\ MaxSec \in Nat \ {0} /\ MaxLines \in Nat

VARIABLES
  running,         \* running_
  currentBuffer,   \* currentBuffer_
  nextBuffer,      \* nextBuffer_, or Null
  buffers,         \* buffers_
  pc,              \* where the logging thread is
  notified,        \* has cond_.notify reached the waiting logging thread?
  newBuffer1,      \* its newBuffer1, or Null
  newBuffer2,      \* its newBuffer2, or Null
  buffersToWrite,  \* its buffersToWrite
  done,            \* how many of buffersToWrite are written
  files,           \* the lines in the file of each second
  file,            \* file_: the second its file is named after, 0: none
  count,           \* count_ of the LogFile
  writtenBytes,    \* writtenBytes_ of file_, in lines
  startOfPeriod,   \* startOfPeriod_
  clock,           \* time(NULL)
  spc,             \* where the thread that calls start and stop is
  appended,        \* history: number of lines appended
  dropped,         \* history: lines erased with their buffers, or that fwrite refused
  written          \* history: lines in the order they were written

fileVars == <<files, file, count, writtenBytes, startOfPeriod, written>>
vars == <<running, currentBuffer, nextBuffer, buffers, pc, notified, newBuffer1,
          newBuffer2, buffersToWrite, done, files, file, count, writtenBytes,
          startOfPeriod, clock, spc, appended, dropped, written>>

\* A moved-from BufferPtr, and the line that reports a drop.
Null == <<MaxLines + 1>>
Notice == 0
Empty == << >>
Seconds == 1..MaxSec

\* The constructor.
Init ==
  /\ running = FALSE
  /\ currentBuffer = Empty
  /\ nextBuffer = Empty
  /\ buffers = << >>
  /\ pc = "unstarted"
  /\ notified = FALSE
  /\ newBuffer1 = Null
  /\ newBuffer2 = Null
  /\ buffersToWrite = << >>
  /\ done = 0
  /\ files = [s \in Seconds |-> << >>]
  /\ file = 0
  /\ count = 0
  /\ writtenBytes = 0
  /\ startOfPeriod = 0
  /\ clock \in Seconds
  /\ spc = "idle"
  /\ appended = 0
  /\ dropped = {}
  /\ written = << >>

\* cond_.notify: nobody but the logging thread waits.
Notify == notified' = (pc = "wait")

-----------------------------------------------------------------------------
(* Front end *)

\* The buffer that follows a full currentBuffer_: nextBuffer_ or a new one.
FreshBuffer == IF nextBuffer # Null THEN nextBuffer ELSE Empty

\* append, with the line's number as its text.
AppendLine ==
  /\ appended < MaxLines
  /\ appended' = appended + 1
  /\ \/ /\ Len(currentBuffer) < Capacity
        /\ currentBuffer' = Append(currentBuffer, appended')
        /\ UNCHANGED <<nextBuffer, buffers, notified>>
     \/ /\ Len(currentBuffer) >= Capacity
        /\ buffers' = Append(buffers, currentBuffer)
        /\ currentBuffer' = Append(FreshBuffer, appended')
        /\ nextBuffer' = Null
        /\ Notify
  /\ UNCHANGED <<running, pc, newBuffer1, newBuffer2, buffersToWrite, done, fileVars,
                 clock, spc, dropped>>

-----------------------------------------------------------------------------
(* LogFile *)

StartOf(sec) == (sec \div Period) * Period

\* rollFile: a new file, unless its name would not be later than the last one's
\* (lastRoll_ is the second of the current name).
RollFile(size) ==
  \/ clock > file /\ file' = clock /\ startOfPeriod' = StartOf(clock) /\ writtenBytes' = 0
  \/ clock <= file /\ writtenBytes' = size /\ UNCHANGED <<file, startOfPeriod>>

\* append_unlocked: write, then roll by size or, every CheckEveryN calls, by
\* period.  Its flush changes nothing a reader of the closed file sees.  An fwrite
\* that fails after n lines breaks the append off: nobody hears of it, the rest is
\* not tried again, and what did arrive is not counted.
AppendUnlocked(lines, n) ==
  LET arrived == SubSeq(lines, 1, n)
      size == IF n = Len(lines) THEN writtenBytes + n ELSE writtenBytes
  IN
  /\ written' = written \o arrived
  /\ files' = [files EXCEPT ![file] = @ \o arrived]
  /\ count' = IF size > RollSize THEN count ELSE (count + 1) % CheckEveryN
  /\ IF size > RollSize \/ (count' = 0 /\ StartOf(clock) # startOfPeriod)
     THEN RollFile(size)
     ELSE writtenBytes' = size /\ UNCHANGED <<file, startOfPeriod>>

-----------------------------------------------------------------------------
(* Back end *)

\* start: running_ is set before the thread exists and latch_ is waited for;
\* threadFunc opens the first file and makes its two spare buffers.
Start ==
  /\ spc = "idle"
  /\ spc' = "started"
  /\ running' = TRUE
  /\ pc' = "check"
  /\ newBuffer1' = Empty
  /\ newBuffer2' = Empty
  /\ file' = clock
  /\ startOfPeriod' = StartOf(clock)
  /\ UNCHANGED <<currentBuffer, nextBuffer, buffers, notified, buffersToWrite, done,
                 files, count, writtenBytes, clock, appended, dropped, written>>

\* while (running_)
Check ==
  /\ pc = "check"
  /\ pc' = IF running THEN "lock" ELSE "done"
  /\ UNCHANGED <<running, currentBuffer, nextBuffer, buffers, notified, newBuffer1,
                 newBuffer2, buffersToWrite, done, fileVars, clock, spc, appended, dropped>>

\* Slip: currentBuffer_ is put in front of the buffers filled before it.
SwappedOutCurrentFirst == <<currentBuffer>> \o buffers

\* The buffers swapped out: buffers_ and currentBuffer_ behind them.
SwappedOut == Append(buffers, currentBuffer)

\* The second half of the critical section.
Swap ==
  /\ buffersToWrite' = SwappedOut
  /\ buffers' = << >>
  /\ currentBuffer' = newBuffer1
  /\ newBuffer1' = Null
  /\ IF nextBuffer = Null
     THEN nextBuffer' = newBuffer2 /\ newBuffer2' = Null
     ELSE UNCHANGED <<nextBuffer, newBuffer2>>
  /\ pc' = IF Len(SwappedOut) > DropLimit THEN "drop" ELSE "write"
  /\ notified' = FALSE
  /\ UNCHANGED <<running, done, fileVars, clock, spc, appended, dropped>>

\* Slip: erase begins one buffer too early.
KeptOfBacklogOne(bs) == SubSeq(bs, 1, 1)

\* The buffers of a backlog that erase leaves.
KeptOfBacklog(bs) == SubSeq(bs, 1, 2)

\* A backlog: the drop is reported in the log, if the log can be written, then the
\* buffers are erased.
Drop ==
  /\ pc = "drop"
  /\ pc' = "write"
  /\ \E n \in 0..1 : AppendUnlocked(<<Notice>>, n)
  /\ buffersToWrite' = KeptOfBacklog(buffersToWrite)
  /\ dropped' = dropped \union (ToSet(FlattenSeq(buffersToWrite)) \ ToSet(FlattenSeq(buffersToWrite')))
  /\ UNCHANGED <<running, currentBuffer, nextBuffer, buffers, notified, newBuffer1, newBuffer2,
                 done, clock, spc, appended>>

\* The critical section when there is something in buffers_.
SwapAtOnce == pc = "lock" /\ buffers # << >> /\ Swap

\* cond_.waitForSeconds when there is not.
Wait ==
  /\ pc = "lock"
  /\ buffers = << >>
  /\ pc' = "wait"
  /\ UNCHANGED <<running, currentBuffer, nextBuffer, buffers, notified, newBuffer1,
                 newBuffer2, buffersToWrite, done, fileVars, clock, spc, appended, dropped>>

\* Slip: the wait has no timeout.
TimedOutNever == FALSE

\* pthread_cond_timedwait may give up at any time; flushInterval_ is not measured.
TimedOut == TRUE

\* The wait ends and the rest of the critical section follows.
Wake == pc = "wait" /\ (notified \/ TimedOut) /\ Swap

\* output.append of the next buffer, of which n lines reach the file.
Write ==
  /\ pc = "write"
  /\ done < Len(buffersToWrite)
  /\ LET lines == buffersToWrite[done + 1] IN
     \E n \in 0..Len(lines) :
       /\ AppendUnlocked(lines, n)
       /\ dropped' = dropped \union (ToSet(lines) \ ToSet(SubSeq(lines, 1, n)))
  /\ done' = done + 1
  /\ UNCHANGED <<running, currentBuffer, nextBuffer, buffers, pc, notified, newBuffer1,
                 newBuffer2, buffersToWrite, clock, spc, appended>>

\* After the last buffer: two buffers are kept, one for each BufferPtr that was
\* handed in, reset to be empty.  Taking from an empty vector is the assert.
Recycle ==
  /\ pc = "write"
  /\ done = Len(buffersToWrite)
  /\ newBuffer1' = IF newBuffer1 = Null THEN Empty ELSE newBuffer1
  /\ newBuffer2' = IF newBuffer2 = Null THEN Empty ELSE newBuffer2
  /\ buffersToWrite' = << >>
  /\ done' = 0
  /\ pc' = "check"
  /\ UNCHANGED <<running, currentBuffer, nextBuffer, buffers, notified, fileVars, clock, spc,
                 appended, dropped>>

-----------------------------------------------------------------------------
(* stop, and time *)

\* stop's running_ = false, and its cond_.notify without the mutex.
StopSet ==
  /\ spc = "started"
  /\ spc' = "notify"
  /\ running' = FALSE
  /\ UNCHANGED <<currentBuffer, nextBuffer, buffers, pc, notified, newBuffer1, newBuffer2,
                 buffersToWrite, done, fileVars, clock, appended, dropped>>

StopNotify ==
  /\ spc = "notify"
  /\ spc' = "join"
  /\ IF pc = "wait" THEN Notify ELSE UNCHANGED notified
  /\ UNCHANGED <<running, currentBuffer, nextBuffer, buffers, pc, newBuffer1, newBuffer2,
                 buffersToWrite, done, fileVars, clock, appended, dropped>>

\* thread_.join returns.
StopJoin ==
  /\ spc = "join"
  /\ pc = "done"
  /\ spc' = "stopped"
  /\ UNCHANGED <<running, currentBuffer, nextBuffer, buffers, pc, notified, newBuffer1,
                 newBuffer2, buffersToWrite, done, fileVars, clock, appended, dropped>>

\* The clock shows another second; it may be set back.
Clock ==
  /\ clock' \in Seconds \ {clock}
  /\ UNCHANGED <<running, currentBuffer, nextBuffer, buffers, pc, notified, newBuffer1,
                 newBuffer2, buffersToWrite, done, fileVars, spc, appended, dropped>>

Next ==
  \/ AppendLine
  \/ Start
  \/ Check
  \/ SwapAtOnce
  \/ Wait
  \/ Wake
  \/ Drop
  \/ Write
  \/ Recycle
  \/ StopSet
  \/ StopNotify
  \/ StopJoin
  \/ Clock

Spec == Init /\ [][Next]_vars

\* The logging thread runs when it can, its wait times out, and stop(), once
\* called, goes on.
FairSpec ==
  /\ Spec
  /\ WF_vars(Check) /\ WF_vars(SwapAtOnce) /\ WF_vars(Wait) /\ WF_vars(Wake)
  /\ WF_vars(Drop) /\ WF_vars(Write) /\ WF_vars(Recycle) /\ WF_vars(StopNotify) /\ WF_vars(StopJoin)

-----------------------------------------------------------------------------
(* Properties *)

Buffer == Seq(1..MaxLines)
LogLines == Seq(0..MaxLines)

\* The type invariant.
TypeOK ==
  /\ running \in BOOLEAN
  /\ currentBuffer \in Buffer
  /\ nextBuffer \in {Empty, Null}
  /\ buffers \in Seq(Buffer)
  /\ pc \in {"unstarted", "check", "lock", "wait", "drop", "write", "done"}
  /\ notified \in BOOLEAN
  /\ newBuffer1 \in {Empty, Null}
  /\ newBuffer2 \in {Empty, Null}
  /\ buffersToWrite \in Seq(Buffer)
  /\ done \in 0..Len(buffersToWrite)
  /\ files \in [Seconds -> LogLines]
  /\ file \in 0..MaxSec
  /\ count \in 0..(CheckEveryN - 1)
  /\ writtenBytes \in Nat
  /\ startOfPeriod \in 0..MaxSec
  /\ clock \in Seconds
  /\ spc \in {"idle", "started", "notify", "join", "stopped"}
  /\ appended \in 0..MaxLines
  /\ dropped \subseteq 1..MaxLines
  /\ written \in LogLines

\* The asserts of threadFunc: both spare buffers are there and empty when the
\* logging thread starts a round, and when it has written a round, enough
\* buffers are left to replace the ones it handed in (nextBuffer_ was only
\* missing if append had filled another buffer).
SpareBuffers ==
  /\ pc \in {"check", "lock", "wait"} =>
       newBuffer1 = Empty /\ newBuffer2 = Empty /\ buffersToWrite = << >>
  /\ pc = "write" =>
       /\ newBuffer1 = Null
       /\ Len(buffersToWrite) >= IF newBuffer2 = Null THEN 2 ELSE 1

\* The four buffers of the front and the back end go round without a gap: each
\* pointer holds what the code relies on when it dereferences it.
BuffersConsistent == TypeOK /\ SpareBuffers

\* The lines on their way: being written, waiting for the swap, and current.
InMemory ==
  FlattenSeq(SubSeq(buffersToWrite, done + 1, Len(buffersToWrite)))
    \o FlattenSeq(buffers) \o currentBuffer

\* Every line ever appended is in exactly one place, in the order of its append:
\* written, on its way, or gone with a backlog or a failed fwrite.  What stop()
\* leaves in memory is the end of the log.
EachLineOnce ==
  LET log == written \o InMemory
  IN  /\ ToSet(log) \ {Notice} = (1..appended) \ dropped
      /\ \A i, j \in DOMAIN log :
           i < j /\ log[i] # Notice /\ log[j] # Notice => log[i] < log[j]

\* The log files read in the order of their names give the lines in the order
\* they were written, although the clock may be set back between two rolls.
FilesInOrder == FlattenSeq(files) = written

\* The log is complete and in order, from append to the files on disk.
LogComplete == EachLineOnce /\ FilesInOrder

\* A line that is appended while the logger runs is written, dropped or refused by
\* fwrite, unless stop() is called, even if its buffer never fills.
LinesAreWritten ==
  \A n \in 1..MaxLines :
    (appended >= n /\ running) ~> (n \in ToSet(written) \/ n \in dropped \/ ~running)

\* stop() returns, although its notify may come before the logging thread waits.
StopReturns == (spc = "notify") ~> (spc = "stopped")

\* Neither a line nor a stop() waits for ever.
LoggerResponds == LinesAreWritten /\ StopReturns
=============================================================================
