----------------------------- MODULE ProcessManager -----------------------------
(***************************************************************************)
(* Child processes that answer lines (SingleProcessManager) and several of  *)
(* them behind one queue (MultiProcessManager).  Every start of a process   *)
(* makes a writer thread, which takes requests from the queue and writes    *)
(* them to the process, and a reader thread, which gives each line that is  *)
(* printed to the consumer that waits longest.  The writer of a process     *)
(* that is gone starts the next one.                                        *)
(*                                                                         *)
(* A process is named by its manager and the number of its start.  What was *)
(* written to it is kept; offered, polled, printed and heard are positions  *)
(* in that, so consumerq is written[polled + 1 .. offered].  A process      *)
(* prints one line for every line it reads, in order, or when nobody waits  *)
(* for replies (noreply) whatever it likes; a line is named by its number.  *)
(***************************************************************************)
EXTENDS Integers, Sequences, FiniteSets

CONSTANTS Requests,     \* calls of send
          MaxProcesses, MaxStarts,
          Settings,     \* what a configuration says and what may happen, see below
          None

\* processes and noreply are the configuration's; lines bounds what a process prints
\* unasked; only processes of the first manager go, and may is what happens to them
\* before their start number starts, and whether there is a shutdown.  A pipe holds room
\* lines (0: a line is longer than a pipe), and of the requests those in sends are made.
Setting(processes, noreply, starts, linesUnasked, may, room, sends) ==
    [processes |-> processes, noreply |-> noreply, starts |-> starts,
     lines |-> linesUnasked, may |-> may, room |-> room, sends |-> sends]

Events == {"die", "deaf", "stderr", "fail", "shutdown"}

ASSUME SettingsAssumption ==
    /\ None \notin Requests
    /\ MaxProcesses \in Nat \ {0} /\ MaxStarts \in Nat \ {0}
    /\ Settings \subseteq [processes : 1 .. MaxProcesses, noreply : BOOLEAN,
                            starts : 1 .. MaxStarts, lines : Nat, may : SUBSET Events,
                            room : Nat, sends : SUBSET Requests]

Managers == 1 .. MaxProcesses
Starts   == 1 .. MaxStarts
Procs    == Managers \X Starts

VARIABLES setting,
          client,       \* how far the call of send is
          replies,      \* what each request was answered: the numbers of requests
          q,            \* requests, shared by all managers
          start,        \* the start whose process is the field process, 0 if none
          up,           \* processes that are alive
          pipes,        \* "open", "deaf" (the process closed its stdin), "closed"
          stderr,       \* processes that have written to stderr
          written, offered, polled, printed, heard,
          writer, reader,   \* where the threads are
          entry,            \* what the writer has taken
          interrupted,      \* interrupt flags of the writers
          isShutdown,
          shut,         \* where shutdown is
          victim        \* the process it will destroy

callers == <<client, replies>>
lines   == <<written, offered, polled, printed, heard>>
process == <<start, up, pipes, stderr>>
threads == <<writer, reader, entry, interrupted>>
ending  == <<isShutdown, shut, victim>>
vars == <<setting, callers, q, process, lines, threads, ending>>

processes == setting.processes
noreply   == setting.noreply
May(event) == event \in setting.may

Of(p)  == p[1]
Now(m) == <<m, start[m]>>        \* the field process
Alive(m) == Now(m) \in up

\* before the first start nothing has been written, and no thread is there
Init ==
    /\ setting \in Settings
    /\ client = [r \in Requests |-> "new"]
    /\ replies = [r \in Requests |-> <<>>]
    /\ q = <<>>
    /\ start = [m \in Managers |-> 0]
    /\ up = {} /\ stderr = {}
    /\ pipes = [p \in Procs |-> "open"]
    /\ written = [p \in Procs |-> <<>>]
    /\ offered = [p \in Procs |-> 0] /\ polled = [p \in Procs |-> 0]
    /\ printed = [p \in Procs |-> 0] /\ heard = [p \in Procs |-> 0]
    /\ writer = [p \in Procs |-> "none"] /\ reader = [p \in Procs |-> "none"]
    /\ entry = [p \in Procs |-> None]
    /\ interrupted = [p \in Procs |-> FALSE]
    /\ isShutdown = [m \in Managers |-> FALSE]
    /\ shut = [m \in Managers |-> "no"]
    /\ victim = [m \in Managers |-> 0]

-----------------------------------------------------------------------------
(* start, and send.                                                         *)

NextStart(m) == <<m, start[m] + 1>>

\* start(): the next process is alive, its threads have begun
Starting(m, threadsNow) ==
    LET p == NextStart(m)
    IN  /\ start' = [start EXCEPT ![m] = p[2]]
        /\ up' = up \cup {p}
        /\ writer' = [threadsNow EXCEPT ![p] = "check"]
        /\ reader' = [reader EXCEPT ![p] = "check"]

\* the first start, by the operation "start process" of the initialization flow
FirstStart(m) ==
    /\ m <= processes /\ start[m] = 0
    /\ Starting(m, writer)
    /\ UNCHANGED <<setting, callers, q, pipes, stderr, lines, entry, interrupted, ending>>

\* only the manager of a single process looks whether it is alive
Send(r) ==
    /\ r \in setting.sends /\ client[r] = "new"
    /\ \A m \in 1 .. processes : start[m] > 0
    /\ IF processes = 1 /\ ~Alive(1)
       THEN client' = [client EXCEPT ![r] = "refused"] /\ UNCHANGED q
       ELSE client' = [client EXCEPT ![r] = "sent"] /\ q' = Append(q, r)
    /\ UNCHANGED <<setting, replies, process, lines, threads, ending>>

-----------------------------------------------------------------------------
(* The writer of process p.                                                 *)

\* process.isAlive() && !Thread.interrupted()
WriterChecks(p) ==
    /\ writer[p] = "check"
    /\ LET alive == Alive(Of(p))
       IN  /\ writer' = [writer EXCEPT ![p] = IF alive /\ ~interrupted[p] THEN "take"
                                              ELSE "exit"]
           /\ interrupted' = [interrupted EXCEPT ![p] = @ /\ ~alive]
    /\ UNCHANGED <<setting, callers, q, process, lines, reader, entry, ending>>

\* take, and the lock, which no other writer of the manager wants.  A writer that is
\* interrupted still takes what is there, unless it was waiting.
Takes(p) ==
    /\ writer[p] = "take"
    /\ q # <<>>
    /\ entry' = [entry EXCEPT ![p] = Head(q)]
    /\ q' = Tail(q)
    /\ writer' = [writer EXCEPT ![p] = "write"]
    /\ UNCHANGED <<setting, callers, process, lines, reader, interrupted, ending>>

TakeInterrupted(p) ==
    /\ writer[p] = "take" /\ interrupted[p]
    /\ interrupted' = [interrupted EXCEPT ![p] = FALSE]
    /\ writer' = [writer EXCEPT ![p] = "exit"]
    /\ UNCHANGED <<setting, callers, q, process, lines, reader, entry, ending>>

\* the process has read all but what the pipe holds, and reads a line when it has printed
\* the answer to the one before; one that does not answer reads at once
StdinHasRoom(p) == noreply \/ Len(written[p]) - printed[p] <= setting.room

\* write and flush, in the lock: they block while there is no room, and throw an
\* IOException when nobody can read it, also later
Writes(p) ==
    /\ writer[p] = "write"
    /\ IF p \in up /\ pipes[p] = "open"
       THEN /\ StdinHasRoom(p)
            /\ written' = [written EXCEPT ![p] = Append(@, entry[p])]
            /\ writer' = [writer EXCEPT ![p] = "offer"]
       ELSE /\ writer' = [writer EXCEPT ![p] = "exit"]
            /\ UNCHANGED written
    /\ UNCHANGED <<setting, callers, q, process, offered, polled, printed, heard,
                   reader, entry, interrupted, ending>>

\* mutant of Forgotten: entry is not set to null
Remembered(p) == entry

Forgotten(p) == [entry EXCEPT ![p] = None]

\* consumerq.offer, still in the lock
Offers(p) ==
    /\ writer[p] = "offer"
    /\ offered' = [offered EXCEPT ![p] = IF noreply THEN @ ELSE @ + 1]
    /\ entry' = Forgotten(p)
    /\ writer' = [writer EXCEPT ![p] = "check"]
    /\ UNCHANGED <<setting, callers, q, process, written, polled, printed, heard,
                   reader, interrupted, ending>>

\* mutants of Reoffered: what could not be written is dropped; null is offered, too
Dropped(p) == q
NullToo(p) == Append(q, entry[p])

\* "re-offer it, we failed to write to process"
Reoffered(p) == IF entry[p] = None THEN q ELSE Append(q, entry[p])

\* mutant of IsOver: isShutdown.get() is not looked at
NeverOver(m) == FALSE

IsOver(m) == isShutdown[m]

\* nothing more happens after shutdown; what was taken is dropped
Exits(p) ==
    /\ writer[p] = "exit"
    /\ IF IsOver(Of(p))
       THEN writer' = [writer EXCEPT ![p] = "gone"] /\ UNCHANGED q
       ELSE writer' = [writer EXCEPT ![p] = "respawn"] /\ q' = Reoffered(p)
    /\ entry' = [entry EXCEPT ![p] = None]
    /\ UNCHANGED <<setting, callers, process, lines, reader, interrupted, ending>>

Respawns(p) ==
    /\ writer[p] = "respawn"
    /\ start[Of(p)] < MaxStarts
    /\ Starting(Of(p), [writer EXCEPT ![p] = "terminate"])
    /\ UNCHANGED <<setting, callers, q, pipes, stderr, lines, entry, interrupted, ending>>

\* ProcessBuilder.start throws, and nobody catches it
RespawnFails(p) ==
    /\ writer[p] = "respawn" /\ May("fail")
    /\ writer' = [writer EXCEPT ![p] = "failed"]
    /\ UNCHANGED <<setting, callers, q, process, lines, reader, entry, interrupted, ending>>

\* mutant of Outgoing: the field, which is the new process by now
Incoming(p) == Now(Of(p))

\* outgoingProcess: the field process before start(), which only this writer changes
Outgoing(p) == p

\* Process.destroy, a SIGTERM, closes the pipes, too.  Assumed is that a process ends on it:
\* one that does not is killed 5 seconds later, unless its own reader interrupts the wait.
Destroy(p) == up' = up \ {p} /\ pipes' = [pipes EXCEPT ![p] = "closed"]

Terminates(p) ==
    /\ writer[p] = "terminate"
    /\ IF Outgoing(p) \in up THEN Destroy(Outgoing(p)) ELSE UNCHANGED <<up, pipes>>
    /\ writer' = [writer EXCEPT ![p] = "gone"]
    /\ UNCHANGED <<setting, callers, q, start, stderr, lines, reader, entry, interrupted, ending>>

Writer(p) == \/ WriterChecks(p) \/ Takes(p) \/ TakeInterrupted(p) \/ Writes(p) \/ Offers(p)
             \/ Exits(p) \/ Respawns(p) \/ RespawnFails(p) \/ Terminates(p)

-----------------------------------------------------------------------------
(* The reader of process p.                                                 *)

\* mutant of Ends: the finally block is missing
EndsAlone(p) == reader' = [reader EXCEPT ![p] = "ended"] /\ UNCHANGED interrupted

\* the finally block.  Consumers that are left in consumerq are never called.
Ends(p) ==
    /\ reader' = [reader EXCEPT ![p] = "ended"]
    /\ interrupted' = [interrupted EXCEPT ![p] = TRUE]

\* the loop goes on while the field process is alive, which may be a later one
GoesOn(p) ==
    IF Alive(Of(p)) THEN reader' = [reader EXCEPT ![p] = "read"] /\ UNCHANGED interrupted
    ELSE Ends(p)

Enters(p) ==
    /\ reader[p] = "check"
    /\ GoesOn(p)
    /\ UNCHANGED <<setting, callers, q, process, lines, writer, entry, ending>>

\* readLine: a line, or null at the end of the stream, or an IOException
ReadsLine(p) ==
    /\ reader[p] = "read" /\ pipes[p] # "closed"
    /\ \/ /\ heard[p] < printed[p]
          /\ heard' = [heard EXCEPT ![p] = @ + 1]
          /\ reader' = [reader EXCEPT ![p] = "sync"]
       \/ /\ heard[p] = printed[p] /\ p \notin up
          /\ reader' = [reader EXCEPT ![p] = "drain"]
          /\ UNCHANGED heard
    /\ UNCHANGED <<setting, callers, q, process, written, offered, polled, printed,
                   writer, entry, interrupted, ending>>

ReadFails(p) ==
    /\ reader[p] = "read" /\ pipes[p] = "closed"
    /\ Ends(p)
    /\ UNCHANGED <<setting, callers, q, process, lines, writer, entry, ending>>

\* mutant of LockIsFree: synchronized (lock) { } is missing
NoLock(m) == TRUE

\* the lock of a manager is held during the write and the offer
LockIsFree(m) == \A s \in Starts : writer[<<m, s>>] \notin {"write", "offer"}

Syncs(p) ==
    /\ reader[p] = "sync"
    /\ LockIsFree(Of(p))
    /\ reader' = [reader EXCEPT ![p] = "poll"]
    /\ UNCHANGED <<setting, callers, q, process, lines, writer, entry, interrupted, ending>>

\* consumerq.poll and accept.  Without a consumer the line should go to the listeners,
\* but the code gives it to them only when there are none (lineTriggers.isEmpty()).
Polls(p) ==
    /\ reader[p] = "poll"
    /\ reader' = [reader EXCEPT ![p] = "drain"]
    /\ IF ~noreply /\ polled[p] < offered[p]
       THEN /\ polled' = [polled EXCEPT ![p] = @ + 1]
            /\ replies' = [replies EXCEPT ![written[p][polled[p] + 1]] =
                              Append(@, written[p][heard[p]])]
       ELSE UNCHANGED <<polled, replies>>
    /\ UNCHANGED <<setting, client, q, process, written, offered, printed, heard,
                   writer, entry, interrupted, ending>>

\* drain(stderr): once there is something it reads up to the end of the stream, that
\* is until the process has ended
Drains(p) ==
    /\ reader[p] = "drain"
    /\ p \in stderr => p \notin up
    /\ stderr' = stderr \ {p}
    /\ GoesOn(p)
    /\ UNCHANGED <<setting, callers, q, start, up, pipes, lines, writer, entry, ending>>

Reader(p) == Enters(p) \/ ReadsLine(p) \/ ReadFails(p) \/ Syncs(p) \/ Polls(p) \/ Drains(p)

-----------------------------------------------------------------------------
(* The child processes.                                                     *)

\* besides what the pipe holds, the line that its reader is reading
StdoutHasRoom(p) ==
    printed[p] - heard[p] < setting.room + IF reader[p] = "read" THEN 1 ELSE 0

Prints(p) ==
    /\ p \in up
    /\ StdoutHasRoom(p)
    /\ printed[p] < IF noreply THEN setting.lines ELSE Len(written[p])
    /\ printed' = [printed EXCEPT ![p] = @ + 1]
    /\ UNCHANGED <<setting, callers, q, process, written, offered, polled, heard, threads, ending>>

\* bound: the last process of a manager is well, and those of all but the first manager
MayGo(p, event) == p \in up /\ Of(p) = 1 /\ p[2] < setting.starts /\ May(event)

Dies(p) ==
    /\ MayGo(p, "die")
    /\ up' = up \ {p}
    /\ UNCHANGED <<setting, callers, q, start, pipes, stderr, lines, threads, ending>>

ClosesStdin(p) ==
    /\ MayGo(p, "deaf") /\ pipes[p] = "open"
    /\ pipes' = [pipes EXCEPT ![p] = "deaf"]
    /\ UNCHANGED <<setting, callers, q, start, up, stderr, lines, threads, ending>>

Complains(p) ==
    /\ MayGo(p, "stderr")
    /\ stderr' = stderr \cup {p}
    /\ UNCHANGED <<setting, callers, q, start, up, pipes, lines, threads, ending>>

Child(p) == Prints(p) \/ Dies(p) \/ ClosesStdin(p) \/ Complains(p)

-----------------------------------------------------------------------------
(* shutdown, of one manager after the other.  Whatever it waits for, it     *)
(* stops waiting after a while (Q_DRAIN_WAIT).                              *)

BeginsShutdown(m) ==
    /\ May("shutdown")
    /\ m <= processes /\ \A n \in 1 .. processes : start[n] > 0
    /\ ~isShutdown[m] /\ \A n \in 1 .. m - 1 : shut[n] = "done"
    /\ isShutdown' = [isShutdown EXCEPT ![m] = TRUE]
    /\ victim' = [victim EXCEPT ![m] = start[m]]
    /\ shut' = [shut EXCEPT ![m] = IF Alive(m) THEN "waiting" ELSE "done"]
    /\ UNCHANGED <<setting, callers, q, process, lines, threads>>

Kills(m) ==
    /\ shut[m] = "waiting"
    /\ Destroy(<<m, victim[m]>>)
    /\ shut' = [shut EXCEPT ![m] = "done"]
    /\ UNCHANGED <<setting, callers, q, start, stderr, lines, threads, isShutdown, victim>>

-----------------------------------------------------------------------------
Next ==
    \/ \E r \in Requests : Send(r)
    \/ \E m \in Managers : FirstStart(m) \/ BeginsShutdown(m) \/ Kills(m)
    \/ \E p \in Procs : Writer(p) \/ Reader(p) \/ Child(p)

\* the threads run, and a process answers
Fairness == \A p \in Procs : WF_vars(Writer(p)) /\ WF_vars(Reader(p)) /\ WF_vars(Prints(p))

Spec == Init /\ [][Next]_vars /\ Fairness
-----------------------------------------------------------------------------
WriterPlaces == {"none", "check", "take", "write", "offer", "exit", "respawn", "terminate",
                 "failed", "gone"}
ReaderPlaces == {"none", "check", "read", "sync", "poll", "drain", "ended"}

ProcessTypeOK ==
    /\ setting \in Settings
    /\ client \in [Requests -> {"new", "refused", "sent"}]
    /\ replies \in [Requests -> Seq(Requests)]
    /\ q \in Seq(Requests)
    /\ start \in [Managers -> Starts \cup {0}]
    /\ up \subseteq Procs /\ stderr \subseteq Procs
    /\ pipes \in [Procs -> {"open", "deaf", "closed"}]
    /\ written \in [Procs -> Seq(Requests)]
    /\ offered \in [Procs -> Nat] /\ polled \in [Procs -> Nat]
    /\ printed \in [Procs -> Nat] /\ heard \in [Procs -> Nat]
    /\ writer \in [Procs -> WriterPlaces] /\ reader \in [Procs -> ReaderPlaces]
    /\ entry \in [Procs -> Requests \cup {None}]
    /\ interrupted \in [Procs -> BOOLEAN]
    /\ isShutdown \in [Managers -> BOOLEAN]
    /\ shut \in [Managers -> {"no", "waiting", "done"}]
    /\ victim \in [Managers -> Starts \cup {0}]

Given(r) == \E p \in Procs : \E i \in DOMAIN written[p] : written[p][i] = r

(* No request is given to processes twice, also when its writer is           *)
(* interrupted or its process dies around the write (entry = null, re-offer).  *)
GivenOnce ==
    \A p1, p2 \in Procs : \A i \in DOMAIN written[p1], j \in DOMAIN written[p2] :
        written[p1][i] = written[p2][j] => p1 = p2 /\ i = j

\* what a caller sees of a request
StateOf(r) ==
    CASE client[r] = "refused" -> "refused"
      [] client[r] = "new" -> "new"
      [] client[r] = "sent" /\ Given(r) -> "given"
      [] OTHER -> "waiting"

(* Every request is given to one process at most once and answered at most    *)
(* once, by the line printed for it, over any number of respawns: the lock     *)
(* that the reader takes and a consumerq per start are what makes this true.   *)
(* As far as consumerq is a queue: it is an ArrayDeque that is polled (268)     *)
(* outside of the lock in which it is offered (237), which can go wrong when    *)
(* it grows, from the 16th waiting consumer on.                              *)
Contract == INSTANCE RequestReply WITH state <- [r \in Requests |-> StateOf(r)]
FulfilsRequestReply == Contract!Spec

(* A process that was replaced does not run on: who started the next one is    *)
(* about to terminate it (terminate(outgoingProcess, ...)).                     *)
NoStrayProcess == \A p \in up : p # Now(Of(p)) => writer[p] = "terminate"

(* After shutdown nothing is started any more and what it saw running is        *)
(* destroyed, so that nothing is left; only a respawn that had looked at         *)
(* isShutdown before goes on, which takes a process that died or went deaf.      *)
ShutdownEnds ==
    \A m \in Managers :
        isShutdown[m] => /\ start[m] <= victim[m] + IF May("die") \/ May("deaf") THEN 1 ELSE 0
                         /\ shut[m] = "done" => <<m, victim[m]>> \notin up

Failed(m) == \E s \in Starts : writer[<<m, s>>] = "failed"

(* A process that died is replaced, also when its writer is waiting for a       *)
(* request and does not see it: the reader interrupts it.                       *)
DeadAreReplaced ==
    \A m \in Managers :
        (start[m] > 0 /\ ~Alive(m)) ~> (Alive(m) \/ isShutdown[m] \/ Failed(m))

\* r was given to a process that can not answer any more, or not be heard
LostWithProcess(r) ==
    \E p \in Procs : /\ \E i \in DOMAIN written[p] : written[p][i] = r
                     /\ p \notin up \/ p \in stderr

Blocked(p) == p \in up /\ pipes[p] = "open" /\ writer[p] = "write" /\ ~StdinHasRoom(p)

\* each waits for another: the writer, in the lock, for the process to read, the process
\* for its output to be read, and the reader for the lock, or in drain for the process
Jammed(p) ==
    /\ Blocked(p)
    /\ ~StdoutHasRoom(p)
    /\ reader[p] = "sync" \/ (reader[p] = "drain" /\ p \in stderr)

(* Every request that was sent is answered, or given if there are no replies,   *)
(* unless it was given to a process that then died or wrote to stderr; the      *)
(* manager is shut down; no process could be started again; or a process is      *)
(* jammed for ever, which takes more lines than the pipes hold.  It is the only  *)
(* deadlock: wherever else a writer blocks in write (234-236), it gets on.       *)
EveryoneServed ==
    \/ <>[](\E p \in Procs : Jammed(p))
    \/ \A r \in Requests :
           (client[r] = "sent") ~>
               \/ replies[r] # <<>> \/ (noreply /\ Given(r)) \/ LostWithProcess(r)
               \/ \E m \in Managers : isShutdown[m] \/ Failed(m)
=============================================================================
