------------------------- MODULE ProcessManagerProofs -------------------------
(***************************************************************************)
(* No request is given to two processes, every reply is the line that was    *)
(* printed for its request, no process is left running when it is replaced,   *)
(* and none after shutdown: for any number of processes, starts and requests. *)
(***************************************************************************)
EXTENDS ProcessManager, SequenceTheorems, TLAPS

\* a start that has not come
Untouched(p) ==
    /\ writer[p] = "none" /\ reader[p] = "none" /\ p \notin up /\ pipes[p] = "open"
    /\ written[p] = <<>> /\ entry[p] = None /\ ~ interrupted[p]
    /\ offered[p] = 0 /\ polled[p] = 0 /\ printed[p] = 0 /\ heard[p] = 0

\* of the starts of a manager only the last has a writer that can start another
StartInv ==
    \A p \in Procs :
        /\ p[2] > start[Of(p)] => Untouched(p)
        /\ p[2] < start[Of(p)] => writer[p] = "terminate" \/ (writer[p] = "gone" /\ p \notin up)
        /\ p[2] = start[Of(p)] => writer[p] \notin {"none", "terminate"}

EntryInv ==
    \A p \in Procs :
        /\ entry[p] # None => writer[p] \in {"write", "offer", "exit"}
        /\ writer[p] \in {"write", "offer"} => entry[p] # None
        /\ writer[p] = "offer" => /\ Len(written[p]) > 0
                                  /\ entry[p] = written[p][Len(written[p])]

-----------------------------------------------------------------------------
(* A request is in one place: the queue, the entry of one writer, or what was  *)
(* written to one process (and then still its entry until it is offered).      *)

Queued(r) == \E i \in DOMAIN q : q[i] = r
Carried(r) == \E p \in Procs : entry[p] = r /\ writer[p] # "offer"

OnceInv ==
    /\ \A i, j \in DOMAIN q : q[i] = q[j] => i = j
    /\ \A r \in Requests : /\ client[r] # "sent" => ~ Queued(r) /\ ~ Carried(r) /\ ~ Given(r)
                           /\ Queued(r) => ~ Carried(r) /\ ~ Given(r)
                           /\ Carried(r) => ~ Given(r)
    /\ \A p1, p2 \in Procs :
           /\ entry[p1] = entry[p2] /\ entry[p1] # None
           /\ writer[p1] # "offer" /\ writer[p2] # "offer"
           => p1 = p2
    /\ GivenOnce

(* The consumer that waits longest is that of the next line.                   *)
LineInv ==
    /\ ~ noreply => \A p \in Procs :
           /\ offered[p] + (IF writer[p] = "offer" THEN 1 ELSE 0) = Len(written[p])
           /\ heard[p] <= printed[p] /\ printed[p] <= Len(written[p])
           /\ polled[p] + (IF reader[p] \in {"sync", "poll"} THEN 1 ELSE 0) = heard[p]
           /\ reader[p] = "poll" => heard[p] <= offered[p]
    /\ \A r \in Requests : replies[r] # <<>> =>
           \E p \in Procs : \E i \in DOMAIN written[p] : i <= polled[p] /\ written[p][i] = r

-----------------------------------------------------------------------------
(* What a respawn after shutdown takes: that the process had died or was deaf.  *)

MayGoAway == May("die") \/ May("deaf")

Steady(m) ==
    IF isShutdown[m] THEN start[m] = victim[m] /\ writer[Now(m)] # "respawn"
    ELSE start[m] > 0 => /\ Now(m) \in up /\ pipes[Now(m)] = "open" /\ ~ interrupted[Now(m)]
                         /\ writer[Now(m)] \in {"check", "take", "write", "offer"}

ShutInv ==
    \A m \in Managers :
        /\ shut[m] = "no" <=> ~ isShutdown[m]
        /\ isShutdown[m] =>
               /\ victim[m] > 0
               /\ \/ start[m] = victim[m]
                  \/ start[m] = victim[m] + 1 /\ writer[Now(m)] # "respawn"
               /\ shut[m] = "done" => <<m, victim[m]>> \notin up
        /\ ~ MayGoAway => Steady(m)

IInv == ProcessTypeOK /\ StartInv /\ EntryInv /\ OnceInv /\ LineInv /\ ShutInv

-----------------------------------------------------------------------------
LEMMA Pairs ==
  /\ \A p \in Procs : /\ Of(p) \in Managers /\ p[2] \in Starts /\ p = <<Of(p), p[2]>>
                      /\ p[2] \in Nat /\ p[2] > 0
  /\ \A m \in Managers, s \in Starts : /\ <<m, s>> \in Procs
                                       /\ Of(<<m, s>>) = m /\ <<m, s>>[2] = s
BY DEF Procs, Of, Starts

LEMMA Constants ==
  /\ None \notin Requests
  /\ MaxStarts \in Nat \ {0} /\ MaxProcesses \in Nat \ {0}
  /\ \A m \in Managers : m \in Nat /\ m > 0
  /\ \A s \in Starts : s \in Nat /\ s > 0
BY SettingsAssumption DEF Managers, Starts

LEMMA Numbers ==
  ASSUME ProcessTypeOK
  PROVE  \A m \in Managers : start[m] \in Nat /\ victim[m] \in Nat
<1> TAKE m \in Managers
<1>1. start[m] \in Starts \cup {0} /\ victim[m] \in Starts \cup {0}
  BY DEF ProcessTypeOK
<1> QED  BY <1>1, Constants

LEMMA InitIInv == Init => IInv
<1> SUFFICES ASSUME Init PROVE IInv
  OBVIOUS
<1> USE Constants, Pairs
<1>1. ProcessTypeOK
  BY DEF Init, ProcessTypeOK, WriterPlaces, ReaderPlaces
<1>2. StartInv
  <2>1. ASSUME NEW p \in Procs
        PROVE  Untouched(p) /\ ~ (p[2] < start[Of(p)]) /\ p[2] # start[Of(p)]
    <3>1. Of(p) \in Managers /\ p[2] \in Nat /\ p[2] > 0 /\ start[Of(p)] = 0
      BY DEF Init
    <3>2. ~ (p[2] < start[Of(p)]) /\ p[2] # start[Of(p)]
      BY <3>1
    <3>3. Untouched(p)
      BY DEF Init, Untouched
    <3> QED  BY <3>2, <3>3
  <2> QED  BY <2>1 DEF StartInv
<1>3. EntryInv
  BY DEF Init, EntryInv
<1>4. OnceInv
  BY DEF Init, OnceInv, Queued, Carried, Given, GivenOnce
<1>5. LineInv
  BY DEF Init, LineInv
<1>6. ShutInv
  BY DEF Init, ShutInv, Steady
<1> QED  BY <1>1, <1>2, <1>3, <1>4, <1>5, <1>6 DEF IInv

LEMMA StartType ==
  ASSUME ProcessTypeOK, NEW m \in Managers, start[m] < MaxStarts,
         NEW threadsNow \in [Procs -> WriterPlaces], Starting(m, threadsNow)
  PROVE  /\ NextStart(m) \in Procs /\ NextStart(m) = <<m, start[m] + 1>>
         /\ start' \in [Managers -> Starts \cup {0}] /\ up' \subseteq Procs
         /\ writer' \in [Procs -> WriterPlaces] /\ reader' \in [Procs -> ReaderPlaces]
<1>1. start[m] + 1 \in Starts
  <2>1. start[m] \in Starts \cup {0}
    BY DEF ProcessTypeOK
  <2> QED  BY <2>1, Constants DEF Starts
<1>2. NextStart(m) \in Procs /\ NextStart(m)[2] = start[m] + 1 /\ NextStart(m) = <<m, start[m] + 1>>
  BY <1>1 DEF NextStart, Procs
<1>3. "check" \in WriterPlaces /\ "check" \in ReaderPlaces
  BY DEF WriterPlaces, ReaderPlaces
<1> HIDE DEF NextStart
<1> QED  BY <1>1, <1>2, <1>3 DEF Starting, ProcessTypeOK

LEMMA ReaderType ==
  ASSUME reader \in [Procs -> ReaderPlaces], interrupted \in [Procs -> BOOLEAN],
         NEW p \in Procs, GoesOn(p)
  PROVE  reader' \in [Procs -> ReaderPlaces] /\ interrupted' \in [Procs -> BOOLEAN]
BY DEF GoesOn, Ends, ReaderPlaces

LEMMA TypeStep ==
  ASSUME ProcessTypeOK, EntryInv, LineInv, [Next]_vars
  PROVE  ProcessTypeOK'
<1> USE DEF ProcessTypeOK, callers, lines, process, threads, ending
<1>1. ASSUME NEW r \in Requests, Send(r) PROVE ProcessTypeOK'
  <2>1. Append(q, r) \in Seq(Requests)
    OBVIOUS
  <2>2. \A c \in {"refused", "sent"} :
            [client EXCEPT ![r] = c] \in [Requests -> {"new", "refused", "sent"}]
    OBVIOUS
  <2>3. q' \in Seq(Requests) /\ client' \in [Requests -> {"new", "refused", "sent"}]
    BY <1>1, <2>1, <2>2 DEF Send
  <2> QED  BY <1>1, <2>3 DEF Send
<1>2. ASSUME NEW m \in Managers, FirstStart(m) PROVE ProcessTypeOK'
  <2>1. start[m] < MaxStarts /\ writer \in [Procs -> WriterPlaces] /\ Starting(m, writer)
    BY <1>2, Constants DEF FirstStart
  <2> QED  BY <1>2, <2>1, StartType DEF FirstStart
<1>3. ASSUME NEW m \in Managers, BeginsShutdown(m) PROVE ProcessTypeOK'
  BY <1>3 DEF BeginsShutdown
<1>4. ASSUME NEW m \in Managers, Kills(m) PROVE ProcessTypeOK'
  BY <1>4, Pairs DEF Kills, Destroy
<1>5. ASSUME NEW p \in Procs, Writer(p) PROVE ProcessTypeOK'
  <2> "check" \in WriterPlaces /\ "take" \in WriterPlaces /\ "write" \in WriterPlaces
      /\ "offer" \in WriterPlaces /\ "exit" \in WriterPlaces /\ "respawn" \in WriterPlaces
      /\ "terminate" \in WriterPlaces /\ "failed" \in WriterPlaces /\ "gone" \in WriterPlaces
    BY DEF WriterPlaces
  <2>1. CASE WriterChecks(p)
    BY <2>1 DEF WriterChecks
  <2>2. CASE Takes(p)
    <3>1. Head(q) \in Requests /\ Tail(q) \in Seq(Requests)
      BY <2>2 DEF Takes
    <3>2. /\ q' = Tail(q) /\ entry' = [entry EXCEPT ![p] = Head(q)]
          /\ writer' = [writer EXCEPT ![p] = "write"]
      BY <2>2 DEF Takes
    <3>3. /\ q' \in Seq(Requests) /\ entry' \in [Procs -> Requests \cup {None}]
          /\ writer' \in [Procs -> WriterPlaces]
      BY <3>1, <3>2
    <3> QED  BY <2>2, <3>3 DEF Takes
  <2>3. CASE TakeInterrupted(p)
    BY <2>3 DEF TakeInterrupted
  <2>4. CASE Writes(p)
    <3>1. CASE p \in up /\ pipes[p] = "open"
      <4>1. entry[p] \in Requests /\ written[p] \in Seq(Requests)
        BY <2>4 DEF EntryInv, Writes
      <4>2. Append(written[p], entry[p]) \in Seq(Requests)
        BY <4>1
      <4>3. /\ written' = [written EXCEPT ![p] = Append(@, entry[p])]
            /\ writer' = [writer EXCEPT ![p] = "offer"]
            /\ UNCHANGED <<setting, callers, q, process, offered, polled, printed, heard,
                           reader, entry, interrupted, ending>>
        BY <2>4, <3>1, Zenon DEF Writes
      <4>4. written' \in [Procs -> Seq(Requests)] /\ writer' \in [Procs -> WriterPlaces]
        BY <4>2, <4>3
      <4> QED  BY <4>3, <4>4
    <3>2. CASE ~ (p \in up /\ pipes[p] = "open")
      BY <2>4, <3>2 DEF Writes
    <3> QED  BY <3>1, <3>2
  <2>5. CASE Offers(p)
    BY <2>5 DEF Offers, Forgotten
  <2>6. CASE Exits(p)
    <3>1. Reoffered(p) \in Seq(Requests)
      BY DEF Reoffered
    <3>2. q' \in {q, Reoffered(p)}
      BY <2>6 DEF Exits
    <3>3. writer' \in [Procs -> WriterPlaces]
      BY <2>6 DEF Exits
    <3>4. entry' \in [Procs -> Requests \cup {None}]
      BY <2>6 DEF Exits
    <3> QED  BY <2>6, <3>1, <3>2, <3>3, <3>4 DEF Exits
  <2>7. CASE Respawns(p)
    <3>1. [writer EXCEPT ![p] = "terminate"] \in [Procs -> WriterPlaces]
      OBVIOUS
    <3> QED  BY <2>7, <3>1, Pairs, StartType DEF Respawns
  <2>8. CASE RespawnFails(p)
    BY <2>8 DEF RespawnFails
  <2>9. CASE Terminates(p)
    BY <2>9 DEF Terminates, Outgoing, Destroy
  <2> QED  BY <1>5, <2>1, <2>2, <2>3, <2>4, <2>5, <2>6, <2>7, <2>8, <2>9 DEF Writer
<1>6. ASSUME NEW p \in Procs, Reader(p) PROVE ProcessTypeOK'
  <2> "check" \in ReaderPlaces /\ "read" \in ReaderPlaces /\ "sync" \in ReaderPlaces
      /\ "poll" \in ReaderPlaces /\ "drain" \in ReaderPlaces /\ "ended" \in ReaderPlaces
    BY DEF ReaderPlaces
  <2>1. CASE Enters(p)
    <3>1. reader' \in [Procs -> ReaderPlaces] /\ interrupted' \in [Procs -> BOOLEAN]
      BY <2>1, ReaderType DEF Enters
    <3> QED  BY <2>1, <3>1 DEF Enters
  <2>2. CASE ReadsLine(p)
    <3>1. heard' = [heard EXCEPT ![p] = heard[p] + 1] \/ heard' = heard
      BY <2>2 DEF ReadsLine
    <3>3. heard' \in [Procs -> Nat]
      <4>1. [heard EXCEPT ![p] = heard[p] + 1] \in [Procs -> Nat]
        OBVIOUS
      <4> QED  BY <3>1, <4>1
    <3>2. reader' \in [Procs -> ReaderPlaces]
      <4>1. \/ reader' = [reader EXCEPT ![p] = "sync"]
            \/ reader' = [reader EXCEPT ![p] = "drain"]
        BY <2>2, Zenon DEF ReadsLine
      <4> QED  BY <4>1
    <3>4. UNCHANGED <<setting, callers, q, process, written, offered, polled, printed,
                      writer, entry, interrupted, ending>>
      BY <2>2, Zenon DEF ReadsLine
    <3> QED  BY <3>2, <3>3, <3>4
  <2>3. CASE ReadFails(p)
    BY <2>3 DEF ReadFails, Ends
  <2>4. CASE Syncs(p)
    BY <2>4 DEF Syncs
  <2>5. CASE Polls(p)
    <3>1. CASE ~ noreply /\ polled[p] < offered[p]
      <4>1. written[p] \in Seq(Requests) /\ polled[p] + 1 \in DOMAIN written[p]
            /\ heard[p] \in DOMAIN written[p]
        BY <2>5, <3>1 DEF LineInv, Polls
      <4>2. written[p][polled[p] + 1] \in Requests /\ written[p][heard[p]] \in Requests
        BY <4>1
      <4>3. replies' = [replies EXCEPT ![written[p][polled[p] + 1]] =
                            Append(@, written[p][heard[p]])]
        BY <2>5, <3>1, Zenon DEF Polls
      <4>4. \A r, answer \in Requests :
                [replies EXCEPT ![r] = Append(@, answer)] \in [Requests -> Seq(Requests)]
        OBVIOUS
      <4>5. replies' \in [Requests -> Seq(Requests)]
        BY <4>2, <4>3, <4>4
      <4>6. polled' \in [Procs -> Nat]
        <5>1. polled' = [polled EXCEPT ![p] = @ + 1]
          BY <2>5, <3>1, Zenon DEF Polls
        <5> QED  BY <5>1
      <4> QED  BY <2>5, <4>5, <4>6 DEF Polls
    <3>2. CASE ~ (~ noreply /\ polled[p] < offered[p])
      BY <2>5, <3>2 DEF Polls
    <3> QED  BY <3>1, <3>2
  <2>6. CASE Drains(p)
    <3>1. reader' \in [Procs -> ReaderPlaces] /\ interrupted' \in [Procs -> BOOLEAN]
      BY <2>6, ReaderType DEF Drains
    <3> QED  BY <2>6, <3>1 DEF Drains
  <2> QED  BY <1>6, <2>1, <2>2, <2>3, <2>4, <2>5, <2>6 DEF Reader
<1>7. ASSUME NEW p \in Procs, Child(p) PROVE ProcessTypeOK'
  <2>1. CASE Prints(p)
    <3>1. printed' \in [Procs -> Nat]
      BY <2>1 DEF Prints
    <3> QED  BY <2>1, <3>1 DEF Prints
  <2>2. CASE Dies(p)
    BY <2>2 DEF Dies
  <2>3. CASE ClosesStdin(p)
    BY <2>3 DEF ClosesStdin
  <2>4. CASE Complains(p)
    BY <2>4 DEF Complains
  <2> QED  BY <1>7, <2>1, <2>2, <2>3, <2>4 DEF Child
<1>8. CASE UNCHANGED vars
  BY <1>8 DEF vars
<1> QED  BY <1>1, <1>2, <1>3, <1>4, <1>5, <1>6, <1>7, <1>8 DEF Next

-----------------------------------------------------------------------------
(* Everything but a start is about one process.                             *)

SameAt(x) ==
    /\ writer'[x] = writer[x] /\ reader'[x] = reader[x] /\ (x \in up' <=> x \in up)
    /\ pipes'[x] = pipes[x] /\ written'[x] = written[x] /\ entry'[x] = entry[x]
    /\ interrupted'[x] = interrupted[x] /\ offered'[x] = offered[x] /\ polled'[x] = polled[x]
    /\ printed'[x] = printed[x] /\ heard'[x] = heard[x]

Local(p) == UNCHANGED <<setting, start>> /\ \A x \in Procs \ {p} : SameAt(x)

LEMMA LocalSteps ==
  ASSUME ProcessTypeOK, NEW p \in Procs
  PROVE  /\ Writer(p) /\ ~ Respawns(p) => Local(p)
         /\ Reader(p) => Local(p)
         /\ Child(p) => Local(p)
<1> USE DEF ProcessTypeOK, Local, SameAt, callers, lines, process, threads, ending
<1>1. ASSUME WriterChecks(p) PROVE Local(p)
  BY <1>1 DEF WriterChecks
<1>2. ASSUME Takes(p) PROVE Local(p)
  BY <1>2 DEF Takes
<1>3. ASSUME TakeInterrupted(p) PROVE Local(p)
  BY <1>3 DEF TakeInterrupted
<1>4. ASSUME Writes(p) PROVE Local(p)
  BY <1>4 DEF Writes
<1>5. ASSUME Offers(p) PROVE Local(p)
  BY <1>5 DEF Offers, Forgotten
<1>6. ASSUME Exits(p) PROVE Local(p)
  BY <1>6 DEF Exits
<1>7. ASSUME RespawnFails(p) PROVE Local(p)
  BY <1>7 DEF RespawnFails
<1>8. ASSUME Terminates(p) PROVE Local(p)
  BY <1>8 DEF Terminates, Outgoing, Destroy
<1>9. ASSUME Enters(p) PROVE Local(p)
  BY <1>9 DEF Enters, GoesOn, Ends
<1>10. ASSUME ReadsLine(p) PROVE Local(p)
  BY <1>10 DEF ReadsLine
<1>11. ASSUME ReadFails(p) PROVE Local(p)
  BY <1>11 DEF ReadFails, Ends
<1>12. ASSUME Syncs(p) PROVE Local(p)
  BY <1>12 DEF Syncs
<1>13. ASSUME Polls(p) PROVE Local(p)
  BY <1>13 DEF Polls
<1>14. ASSUME Drains(p) PROVE Local(p)
  BY <1>14 DEF Drains, GoesOn, Ends
<1>15. ASSUME Child(p) PROVE Local(p)
  BY <1>15 DEF Child, Prints, Dies, ClosesStdin, Complains
<1> QED
  BY <1>1, <1>2, <1>3, <1>4, <1>5, <1>6, <1>7, <1>8, <1>9, <1>10, <1>11, <1>12, <1>13, <1>14, <1>15
     DEF Writer, Reader

\* a start: p is the next process of m, and by is its predecessor, if it has one
StartStep(m, p) ==
    /\ start[m] < MaxStarts /\ p = <<m, start[m] + 1>> /\ p \in Procs
    /\ UNCHANGED <<setting, q, client, replies, pipes, lines, entry, interrupted, ending>>
    /\ start' = [start EXCEPT ![m] = start[m] + 1]
    /\ up' = up \cup {p}
    /\ writer'[p] = "check" /\ reader' = [reader EXCEPT ![p] = "check"]
    /\ \A x \in Procs \ {p, Now(m)} : writer'[x] = writer[x]
    /\ \/ start[m] = 0
       \/ /\ start[m] > 0 /\ Now(m) \in Procs /\ Now(m) # p
          /\ writer[Now(m)] = "respawn" /\ writer'[Now(m)] = "terminate"

LEMMA StartSteps ==
  ASSUME ProcessTypeOK, StartInv
  PROVE  /\ \A m \in Managers : FirstStart(m) => StartStep(m, NextStart(m))
         /\ \A p \in Procs : Respawns(p) => /\ StartStep(Of(p), NextStart(Of(p)))
                                            /\ p = Now(Of(p))
<1>1. ASSUME NEW m \in Managers, FirstStart(m) PROVE StartStep(m, NextStart(m))
  <2>1. start[m] < MaxStarts /\ writer \in [Procs -> WriterPlaces] /\ Starting(m, writer)
        /\ start[m] = 0
    BY <1>1, Constants DEF FirstStart, ProcessTypeOK
  <2>2. NextStart(m) \in Procs /\ NextStart(m) = <<m, start[m] + 1>> /\ NextStart(m)[2] = start[m] + 1
    BY <2>1, StartType DEF NextStart
  <2> HIDE DEF NextStart
  <2> QED  BY <1>1, <2>1, <2>2 DEF FirstStart, Starting, StartStep, ProcessTypeOK, callers
<1>2. ASSUME NEW p \in Procs, Respawns(p)
      PROVE  StartStep(Of(p), NextStart(Of(p))) /\ p = Now(Of(p))
  <2> DEFINE m == Of(p)
             w == [writer EXCEPT ![p] = "terminate"]
  <2>1. m \in Managers /\ p = <<m, p[2]>> /\ p[2] \in Nat /\ p[2] > 0 /\ start[m] \in Nat
    BY Pairs, Numbers
  <2>2. start[m] < MaxStarts /\ writer[p] = "respawn" /\ Starting(m, w)
    BY <1>2 DEF Respawns
  <2>3. w \in [Procs -> WriterPlaces]
    BY DEF ProcessTypeOK, WriterPlaces
  <2>4. start[m] = p[2] /\ p = Now(m)
    BY <2>1, <2>2 DEF StartInv, Untouched, Now
  <2>5. NextStart(m) \in Procs /\ NextStart(m) = <<m, start[m] + 1>> /\ NextStart(m)[2] = start[m] + 1
    BY <2>1, <2>2, <2>3, StartType DEF NextStart
  <2>6. NextStart(m) # p
    BY <2>1, <2>4, <2>5
  <2>7. UNCHANGED <<setting, q, client, replies, pipes, lines, entry, interrupted, ending>>
    BY <1>2 DEF Respawns, callers
  <2> HIDE DEF NextStart, m
  <2>8. writer' = [w EXCEPT ![NextStart(m)] = "check"]
        /\ start' = [start EXCEPT ![m] = start[m] + 1] /\ up' = up \cup {NextStart(m)}
        /\ reader' = [reader EXCEPT ![NextStart(m)] = "check"]
    BY <2>2, <2>5 DEF Starting
  <2>9. /\ writer'[NextStart(m)] = "check" /\ writer'[p] = "terminate"
        /\ \A x \in Procs \ {NextStart(m), p} : writer'[x] = writer[x]
    BY <2>3, <2>5, <2>6, <2>8 DEF ProcessTypeOK
  <2>10. StartStep(m, NextStart(m))
    BY <2>1, <2>2, <2>4, <2>5, <2>6, <2>7, <2>8, <2>9 DEF StartStep
  <2> QED  BY <2>4, <2>10 DEF m
<1> QED  BY <1>1, <1>2

\* destroying what shutdown saw
LEMMA KillsLocal ==
  ASSUME ProcessTypeOK, ShutInv, StartInv, NEW m \in Managers, Kills(m)
  PROVE  /\ <<m, victim[m]>> \in Procs /\ victim[m] <= start[m] /\ victim[m] > 0
         /\ Local(<<m, victim[m]>>) /\ isShutdown[m]
         /\ UNCHANGED <<writer, reader, written, lines, entry, interrupted>>
         /\ up' = up \ {<<m, victim[m]>>}
<1>1. shut[m] = "waiting" /\ isShutdown[m] /\ victim[m] > 0
  BY DEF Kills, ShutInv
<1>2. start[m] \in Nat /\ victim[m] \in Nat /\ victim[m] <= start[m]
  <2>1. start[m] = victim[m] \/ start[m] = victim[m] + 1
    BY <1>1 DEF ShutInv
  <2> QED  BY <2>1, Numbers
<1>3. <<m, victim[m]>> \in Procs
  <2>1. victim[m] \in Starts
    BY <1>1, <1>2 DEF ProcessTypeOK
  <2> QED  BY <2>1, Pairs
<1> PICK p \in Procs : p = <<m, victim[m]>>
  BY <1>3
<1>4. up' = up \ {p} /\ pipes' = [pipes EXCEPT ![p] = "closed"]
  BY DEF Kills, Destroy
<1>5. UNCHANGED <<setting, start, writer, reader, written, lines, entry, interrupted>>
  BY DEF Kills, lines, threads
<1>6. Local(p)
  BY <1>4, <1>5 DEF Local, SameAt, lines, ProcessTypeOK
<1> QED  BY <1>1, <1>2, <1>3, <1>4, <1>5, <1>6

LEMMA StartLocal ==
  ASSUME StartInv, NEW p \in Procs, Local(p),
         ~ (p[2] > start[Of(p)]),
         p[2] < start[Of(p)] => writer'[p] = "terminate" \/ (writer'[p] = "gone" /\ p \notin up'),
         p[2] = start[Of(p)] => writer'[p] \notin {"none", "terminate"}
  PROVE  StartInv'
<1>1. ASSUME NEW x \in Procs
      PROVE  /\ x[2] > start'[Of(x)] => Untouched(x)'
             /\ x[2] < start'[Of(x)] =>
                    writer'[x] = "terminate" \/ (writer'[x] = "gone" /\ x \notin up')
             /\ x[2] = start'[Of(x)] => writer'[x] \notin {"none", "terminate"}
  <2>1. start'[Of(x)] = start[Of(x)]
    BY DEF Local
  <2>2. CASE x = p
    BY <2>1, <2>2
  <2>3. CASE x # p
    <3>1. SameAt(x)
      BY <2>3 DEF Local
    <3>2. Untouched(x) => Untouched(x)'
      BY <3>1 DEF SameAt, Untouched
    <3> QED  BY <2>1, <3>1, <3>2 DEF StartInv, SameAt
  <2> QED  BY <2>2, <2>3
<1> QED  BY <1>1 DEF StartInv

\* where the writer of a process may be that does a step
LEMMA WriterMoves ==
  ASSUME ProcessTypeOK, NEW p \in Procs, Writer(p), ~ Respawns(p)
  PROVE  /\ writer[p] \notin {"none", "gone", "failed"}
         /\ writer'[p] \notin {"none", "terminate"}
         /\ writer[p] = "terminate" => writer'[p] = "gone" /\ p \notin up'
<1> USE DEF ProcessTypeOK
<1>1. CASE WriterChecks(p)
  BY <1>1 DEF WriterChecks
<1>2. CASE Takes(p)
  BY <1>2 DEF Takes
<1>3. CASE TakeInterrupted(p)
  BY <1>3 DEF TakeInterrupted
<1>4. CASE Writes(p)
  BY <1>4 DEF Writes
<1>5. CASE Offers(p)
  BY <1>5 DEF Offers
<1>6. CASE Exits(p)
  BY <1>6 DEF Exits
<1>7. CASE RespawnFails(p)
  BY <1>7 DEF RespawnFails
<1>8. CASE Terminates(p)
  BY <1>8 DEF Terminates, Outgoing, Destroy
<1> QED  BY <1>1, <1>2, <1>3, <1>4, <1>5, <1>6, <1>7, <1>8 DEF Writer

LEMMA OthersMove ==
  ASSUME ProcessTypeOK, StartInv, NEW p \in Procs, Reader(p) \/ Child(p)
  PROVE  /\ writer' = writer /\ up' \subseteq up
         /\ ~ Untouched(p)
<1>1. CASE Reader(p)
  BY <1>1 DEF Reader, Enters, ReadsLine, ReadFails, Syncs, Polls, Drains, process, Untouched
<1>2. CASE Child(p)
  BY <1>2 DEF Child, Prints, Dies, ClosesStdin, Complains, MayGo, process, threads, Untouched
<1> QED  BY <1>1, <1>2

LEMMA StartByStep ==
  ASSUME ProcessTypeOK, StartInv, NEW m \in Managers, NEW p, StartStep(m, p)
  PROVE  StartInv'
<1>1. /\ p \in Procs /\ Of(p) = m /\ p[2] = start[m] + 1 /\ start[m] \in Nat
      /\ p = <<m, start[m] + 1>>
  BY Numbers, Pairs DEF StartStep, Of
<1>2. start' = [start EXCEPT ![m] = start[m] + 1] /\ up' = up \cup {p}
  BY DEF StartStep
<1>3. ASSUME NEW x \in Procs
      PROVE  /\ x[2] > start'[Of(x)] => Untouched(x)'
             /\ x[2] < start'[Of(x)] =>
                    writer'[x] = "terminate" \/ (writer'[x] = "gone" /\ x \notin up')
             /\ x[2] = start'[Of(x)] => writer'[x] \notin {"none", "terminate"}
  <2>0. Of(x) \in Managers /\ x = <<Of(x), x[2]>> /\ x[2] \in Nat /\ x[2] > 0
        /\ start[Of(x)] \in Nat
    BY Pairs, Numbers
  <2>1. CASE x = p
    BY <1>1, <1>2, <2>1 DEF StartStep, ProcessTypeOK
  <2>2. CASE x # p /\ x = Now(m)
    <3>1. x[2] = start[m] /\ Of(x) = m
      BY <2>2 DEF Now, Of
    <3>2. start[m] > 0 /\ writer'[x] = "terminate"
      BY <2>0, <2>2, <3>1 DEF StartStep
    <3>3. start'[m] = start[m] + 1
      BY <1>2 DEF ProcessTypeOK
    <3> QED  BY <1>1, <3>1, <3>2, <3>3
  <2>3. CASE x # p /\ x # Now(m)
    <3>1. writer'[x] = writer[x] /\ (x \in up' <=> x \in up)
      BY <1>2, <2>3 DEF StartStep
    <3>2. Untouched(x) => Untouched(x)'
      <4>1. reader'[x] = reader[x]
        BY <2>3 DEF StartStep, ProcessTypeOK
      <4> QED  BY <3>1, <4>1 DEF StartStep, Untouched, lines
    <3>3. CASE Of(x) = m
      <4>1. start'[m] = start[m] + 1
        BY <1>2 DEF ProcessTypeOK
      <4>2. x[2] # start[m] + 1 /\ x[2] # start[m]
        BY <2>0, <2>3, <3>3, <1>1 DEF Now
      <4>3. /\ x[2] > start[m] + 1 => x[2] > start[m]
            /\ x[2] < start[m] + 1 => x[2] < start[m]
        BY <1>1, <2>0, <4>2
      <4> QED  BY <3>1, <3>2, <3>3, <4>1, <4>2, <4>3 DEF StartInv
    <3>4. CASE Of(x) # m
      <4>1. start'[Of(x)] = start[Of(x)]
        BY <1>2, <2>0, <3>4 DEF ProcessTypeOK
      <4> QED  BY <3>1, <3>2, <4>1 DEF StartInv
    <3> QED  BY <3>3, <3>4
  <2> QED  BY <2>1, <2>2, <2>3
<1> QED  BY <1>3 DEF StartInv

LEMMA StartInvStep ==
  ASSUME ProcessTypeOK, StartInv, ShutInv, [Next]_vars
  PROVE  StartInv'
<1>1. ASSUME NEW m \in Managers, FirstStart(m) PROVE StartInv'
  BY <1>1, StartSteps, StartByStep
<1>2. ASSUME NEW p \in Procs, Respawns(p) PROVE StartInv'
  BY <1>2, Pairs, StartSteps, StartByStep
<1>3. ASSUME NEW m \in Managers, Kills(m) PROVE StartInv'
  <2>1. PICK p \in Procs : p = <<m, victim[m]>>
    BY <1>3, KillsLocal
  <2>2. Of(p) = m /\ p[2] = victim[m] /\ start[m] \in Nat /\ victim[m] \in Nat
    BY <2>1, Numbers DEF Of
  <2>3. Local(p) /\ victim[m] <= start[m] /\ writer' = writer /\ up' = up \ {p}
    BY <1>3, <2>1, KillsLocal
  <2>4. ~ (p[2] > start[Of(p)])
    BY <2>2, <2>3
  <2> QED  BY <2>3, <2>4, StartLocal DEF StartInv
<1>4. ASSUME NEW p \in Procs, Writer(p), ~ Respawns(p) PROVE StartInv'
  <2>1. Local(p)
    BY <1>4, LocalSteps
  <2>2. /\ writer[p] \notin {"none", "gone", "failed"}
        /\ writer'[p] \notin {"none", "terminate"}
        /\ writer[p] = "terminate" => writer'[p] = "gone" /\ p \notin up'
    BY <1>4, WriterMoves
  <2>3. ~ (p[2] > start[Of(p)])
    BY <2>2 DEF StartInv, Untouched
  <2> QED  BY <2>1, <2>2, <2>3, StartLocal DEF StartInv
<1>5. ASSUME NEW p \in Procs, Reader(p) \/ Child(p) PROVE StartInv'
  <2>1. Local(p) /\ writer' = writer /\ up' \subseteq up /\ ~ Untouched(p)
    BY <1>5, LocalSteps, OthersMove
  <2> QED  BY <2>1, StartLocal DEF StartInv
<1>6. ASSUME NEW r \in Requests, Send(r) PROVE StartInv'
  BY <1>6 DEF Send, StartInv, Untouched, process, lines, threads
<1>7. ASSUME NEW m \in Managers, BeginsShutdown(m) PROVE StartInv'
  BY <1>7 DEF BeginsShutdown, StartInv, Untouched, process, lines, threads
<1>8. CASE UNCHANGED vars
  BY <1>8 DEF vars, StartInv, Untouched, process, lines, threads
<1> QED  BY <1>1, <1>2, <1>3, <1>4, <1>5, <1>6, <1>7, <1>8 DEF Next, Writer

-----------------------------------------------------------------------------
(* Entries.                                                                 *)

LEMMA EntryInvStep ==
  ASSUME ProcessTypeOK, StartInv, ShutInv, EntryInv, [Next]_vars
  PROVE  EntryInv'
<1> DEFINE E(p) == /\ entry[p] # None => writer[p] \in {"write", "offer", "exit"}
                   /\ writer[p] \in {"write", "offer"} => entry[p] # None
                   /\ writer[p] = "offer" => /\ Len(written[p]) > 0
                                             /\ entry[p] = written[p][Len(written[p])]
<1> USE DEF ProcessTypeOK
<1>0. \A p \in Procs : E(p)
  BY DEF EntryInv
<1>a. ASSUME NEW p \in Procs, SameAt(p) PROVE E(p)'
  BY <1>0, <1>a DEF SameAt
<1>b. ASSUME NEW p \in Procs, Local(p), E(p)' PROVE EntryInv'
  <2>1. ASSUME NEW x \in Procs PROVE E(x)'
    BY <1>a, <1>b DEF Local
  <2> QED  BY <2>1 DEF EntryInv
<1>1. ASSUME NEW m \in Managers, NEW p, StartStep(m, p) PROVE EntryInv'
  <2>1. Untouched(p) /\ p \in Procs
    <3>1. p \in Procs /\ Of(p) = m /\ p[2] = start[m] + 1 /\ start[m] \in Nat
      BY <1>1, Numbers DEF StartStep, Of
    <3>2. p[2] > start[Of(p)]
      BY <3>1
    <3> QED  BY <3>1, <3>2 DEF StartInv
  <2>2. UNCHANGED <<entry, written>> /\ writer'[p] = "check"
    BY <1>1 DEF StartStep, lines
  <2>3. \A x \in Procs \ {p} : writer'[x] = writer[x]
                               \/ (writer[x] = "respawn" /\ writer'[x] = "terminate")
    <3>1. Now(m) \in Procs => start[m] > 0
      BY Pairs DEF Now
    <3> QED  BY <1>1, <3>1 DEF StartStep
  <2>4. ASSUME NEW x \in Procs PROVE E(x)'
    BY <1>0, <2>1, <2>2, <2>3 DEF Untouched
  <2> QED  BY <2>4 DEF EntryInv
<1>2. ASSUME NEW p \in Procs, Writer(p), ~ Respawns(p) PROVE EntryInv'
  <2>0. Local(p)
    BY <1>2, LocalSteps
  <2>1. CASE WriterChecks(p)
    BY <1>0, <1>b, <2>0, <2>1 DEF WriterChecks, lines
  <2>2. CASE Takes(p)
    <3>1. Head(q) \in Requests
      BY <2>2 DEF Takes
    <3> QED  BY <1>0, <1>b, <2>0, <2>2, <3>1, Constants DEF Takes, lines
  <2>3. CASE TakeInterrupted(p)
    BY <1>0, <1>b, <2>0, <2>3 DEF TakeInterrupted, lines
  <2>4. CASE Writes(p)
    <3>1. entry[p] \in Requests /\ entry[p] # None /\ entry' = entry /\ written[p] \in Seq(Requests)
      BY <1>0, <2>4, Constants DEF Writes
    <3>2. CASE p \in up /\ pipes[p] = "open"
      <4>1. written'[p] = Append(written[p], entry[p]) /\ writer'[p] = "offer"
        BY <2>4, <3>2 DEF Writes
      <4>2. Len(written'[p]) > 0 /\ written'[p][Len(written'[p])] = entry[p]
        BY <3>1, <4>1
      <4> QED  BY <1>b, <2>0, <3>1, <4>1, <4>2
    <3>3. CASE ~ (p \in up /\ pipes[p] = "open")
      <4>1. writer'[p] = "exit"
        BY <2>4, <3>3 DEF Writes
      <4> QED  BY <1>b, <2>0, <3>1, <4>1
    <3> QED  BY <3>2, <3>3
  <2>5. CASE Offers(p)
    BY <1>0, <1>b, <2>0, <2>5 DEF Offers, Forgotten
  <2>6. CASE Exits(p)
    BY <1>0, <1>b, <2>0, <2>6 DEF Exits, lines
  <2>7. CASE RespawnFails(p)
    BY <1>0, <1>b, <2>0, <2>7 DEF RespawnFails, lines
  <2>8. CASE Terminates(p)
    BY <1>0, <1>b, <2>0, <2>8 DEF Terminates, lines
  <2> QED  BY <1>2, <2>1, <2>2, <2>3, <2>4, <2>5, <2>6, <2>7, <2>8 DEF Writer
<1>3. ASSUME UNCHANGED <<writer, entry, written>> PROVE EntryInv'
  BY <1>3 DEF EntryInv
<1>4. ASSUME NEW p \in Procs, Reader(p) \/ Child(p) PROVE EntryInv'
  <2>1. UNCHANGED <<writer, entry, written>>
    BY <1>4 DEF Reader, Enters, ReadsLine, ReadFails, Syncs, Polls, Drains, Child, Prints, Dies,
                ClosesStdin, Complains, threads, lines
  <2> QED  BY <1>3, <2>1
<1>5. ASSUME NEW m \in Managers, FirstStart(m) PROVE EntryInv'
  BY <1>1, <1>5, StartSteps
<1>6. ASSUME NEW p \in Procs, Respawns(p) PROVE EntryInv'
  BY <1>1, <1>6, Pairs, StartSteps
<1>7. ASSUME NEW r \in Requests, Send(r) PROVE EntryInv'
  BY <1>3, <1>7 DEF Send, lines, threads
<1>8. ASSUME NEW m \in Managers, BeginsShutdown(m) \/ Kills(m) PROVE EntryInv'
  BY <1>3, <1>8 DEF BeginsShutdown, Kills, lines, threads
<1>9. CASE UNCHANGED vars
  BY <1>3, <1>9 DEF vars, lines, threads
<1> QED  BY <1>2, <1>4, <1>5, <1>6, <1>7, <1>8, <1>9 DEF Next, Writer

-----------------------------------------------------------------------------
(* Requests: where they are.                                                *)

LEMMA Appended ==
  ASSUME NEW s \in Seq(Requests), NEW e \in Requests
  PROVE  /\ DOMAIN s = 1 .. Len(s) /\ Len(s) \in Nat
         /\ Append(s, e) \in Seq(Requests)
         /\ DOMAIN Append(s, e) = 1 .. (Len(s) + 1) /\ Len(Append(s, e)) = Len(s) + 1
         /\ \A i \in 1 .. Len(s) : Append(s, e)[i] = s[i]
         /\ Append(s, e)[Len(s) + 1] = e
OBVIOUS

LEMMA Taken ==
  ASSUME NEW s \in Seq(Requests), s # <<>>
  PROVE  /\ DOMAIN s = 1 .. Len(s) /\ Len(s) \in Nat /\ Len(s) > 0
         /\ Head(s) = s[1] /\ Head(s) \in Requests
         /\ DOMAIN Tail(s) = 1 .. (Len(s) - 1)
         /\ \A i \in 1 .. (Len(s) - 1) : Tail(s)[i] = s[i + 1]
OBVIOUS

QueueOnce == \A i, j \in DOMAIN q : q[i] = q[j] => i = j

LEMMA QueueAppend ==
  ASSUME q \in Seq(Requests), QueueOnce, NEW r \in Requests, ~ Queued(r), q' = Append(q, r)
  PROVE  QueueOnce' /\ \A x : Queued(x)' <=> Queued(x) \/ x = r
<1>1. /\ DOMAIN q = 1 .. Len(q) /\ Len(q) \in Nat /\ DOMAIN q' = 1 .. (Len(q) + 1)
      /\ \A i \in 1 .. Len(q) : q'[i] = q[i]
      /\ q'[Len(q) + 1] = r
  BY Appended
<1>2. DOMAIN q' = DOMAIN q \cup {Len(q) + 1}
  BY <1>1
<1>3. \A x : Queued(x)' <=> Queued(x) \/ x = r
  BY <1>1, <1>2 DEF Queued
<1>4. \A i \in DOMAIN q : q[i] # r
  BY DEF Queued
<1>5. QueueOnce'
  BY <1>1, <1>2, <1>4 DEF QueueOnce
<1> QED  BY <1>3, <1>5

LEMMA QueueTail ==
  ASSUME q \in Seq(Requests), QueueOnce, q # <<>>, q' = Tail(q)
  PROVE  QueueOnce' /\ Queued(Head(q)) /\ \A x : Queued(x)' <=> Queued(x) /\ x # Head(q)
<1>1. /\ DOMAIN q = 1 .. Len(q) /\ Len(q) \in Nat /\ Len(q) > 0 /\ Head(q) = q[1]
      /\ DOMAIN q' = 1 .. (Len(q) - 1)
      /\ \A i \in 1 .. (Len(q) - 1) : q'[i] = q[i + 1]
  BY Taken
<1>2. \A i \in DOMAIN q' : i \in DOMAIN q /\ i + 1 \in DOMAIN q /\ i + 1 # 1 /\ q'[i] = q[i + 1]
  BY <1>1
<1>3. \A j \in DOMAIN q : j = 1 \/ (j - 1 \in DOMAIN q' /\ q'[j - 1] = q[j])
  BY <1>1
<1>4. 1 \in DOMAIN q
  BY <1>1
<1>5. QueueOnce'
  <2> SUFFICES ASSUME NEW i \in DOMAIN q', NEW j \in DOMAIN q', q'[i] = q'[j] PROVE i = j
    BY DEF QueueOnce
  <2>1. i \in Int /\ j \in Int
    BY <1>1
  <2>2. i + 1 = j + 1
    BY <1>2 DEF QueueOnce
  <2> QED  BY <2>1, <2>2
<1>6. Queued(Head(q))
  BY <1>1, <1>4 DEF Queued
<1>7. ASSUME NEW x, Queued(x)' PROVE Queued(x) /\ x # Head(q)
  <2>1. PICK i \in DOMAIN q' : q'[i] = x
    BY <1>7 DEF Queued
  <2>2. i + 1 \in DOMAIN q /\ i + 1 # 1 /\ q[i + 1] = x
    BY <1>2, <2>1
  <2> QED  BY <1>1, <1>4, <2>2 DEF Queued, QueueOnce
<1>8. ASSUME NEW x, Queued(x), x # Head(q) PROVE Queued(x)'
  BY <1>1, <1>3, <1>8 DEF Queued
<1> QED  BY <1>5, <1>6, <1>7, <1>8

LEMMA GivenAppend ==
  ASSUME written \in [Procs -> Seq(Requests)], GivenOnce, NEW p \in Procs,
         NEW r \in Requests, ~ Given(r), written' = [written EXCEPT ![p] = Append(@, r)]
  PROVE  GivenOnce' /\ \A x : Given(x)' <=> Given(x) \/ x = r
<1>1. /\ DOMAIN written[p] = 1 .. Len(written[p]) /\ Len(written[p]) \in Nat
      /\ DOMAIN written'[p] = 1 .. (Len(written[p]) + 1)
      /\ \A i \in 1 .. Len(written[p]) : written'[p][i] = written[p][i]
      /\ written'[p][Len(written[p]) + 1] = r
  BY Appended
<1> PICK n : n = Len(written[p]) + 1
  OBVIOUS
<1>2. /\ n \notin DOMAIN written[p] /\ DOMAIN written'[p] = DOMAIN written[p] \cup {n}
      /\ written'[p][n] = r /\ \A i \in DOMAIN written[p] : written'[p][i] = written[p][i]
  BY <1>1
<1>3. \A x \in Procs \ {p} : written'[x] = written[x]
  OBVIOUS
<1>4. \A x \in Procs : \A i \in DOMAIN written[x] : written[x][i] # r
  BY DEF Given
<1>5. \A x \in Procs : \A i \in DOMAIN written'[x] :
          \/ i \in DOMAIN written[x] /\ written'[x][i] = written[x][i]
          \/ x = p /\ i = n /\ written'[x][i] = r
  BY <1>2, <1>3
<1>6. \A x \in Procs : \A i \in DOMAIN written[x] :
          i \in DOMAIN written'[x] /\ written'[x][i] = written[x][i]
  BY <1>2, <1>3
<1>7. \A x : Given(x)' <=> Given(x) \/ x = r
  <2> TAKE x
  <2>1. Given(x)' => Given(x) \/ x = r
    BY <1>5 DEF Given
  <2>2. Given(x) => Given(x)'
    BY <1>6 DEF Given
  <2>3. x = r => Given(x)'
    BY <1>2 DEF Given
  <2> QED  BY <2>1, <2>2, <2>3
<1>8. GivenOnce'
  <2> SUFFICES ASSUME NEW p1 \in Procs, NEW p2 \in Procs,
                      NEW i \in DOMAIN written'[p1], NEW j \in DOMAIN written'[p2],
                      written'[p1][i] = written'[p2][j]
               PROVE  p1 = p2 /\ i = j
    BY DEF GivenOnce
  <2> QED  BY <1>4, <1>5 DEF GivenOnce
<1> QED  BY <1>7, <1>8

LEMMA OnceInvStep ==
  ASSUME ProcessTypeOK, StartInv, EntryInv, EntryInv', OnceInv, [Next]_vars
  PROVE  OnceInv'
<1> DEFINE CarriedOnce ==
               \A p1, p2 \in Procs :
                   /\ entry[p1] = entry[p2] /\ entry[p1] # None
                   /\ writer[p1] # "offer" /\ writer[p2] # "offer"
                   => p1 = p2
           OnePlace(r) == /\ client[r] # "sent" => ~ Queued(r) /\ ~ Carried(r) /\ ~ Given(r)
                          /\ Queued(r) => ~ Carried(r) /\ ~ Given(r)
                          /\ Carried(r) => ~ Given(r)
<1>0. /\ QueueOnce /\ CarriedOnce /\ GivenOnce /\ \A r \in Requests : OnePlace(r)
      /\ q \in Seq(Requests) /\ written \in [Procs -> Seq(Requests)]
      /\ entry \in [Procs -> Requests \cup {None}] /\ client \in [Requests -> {"new", "refused", "sent"}]
      /\ writer \in [Procs -> WriterPlaces]
  BY DEF OnceInv, QueueOnce, ProcessTypeOK
<1>a. ASSUME QueueOnce', CarriedOnce', GivenOnce', \A r \in Requests : OnePlace(r)'
      PROVE  OnceInv'
  BY <1>a DEF OnceInv, QueueOnce
\* a writer moves and what it carries stays the same
<1>b. ASSUME UNCHANGED <<client, q, written, entry>>,
             \A p \in Procs : entry[p] # None => (writer'[p] = "offer" <=> writer[p] = "offer")
      PROVE  OnceInv'
  <2>1. QueueOnce' /\ GivenOnce' /\ \A x : (Queued(x)' <=> Queued(x)) /\ (Given(x)' <=> Given(x))
    BY <1>0, <1>b DEF QueueOnce, GivenOnce, Queued, Given
  <2>2. CarriedOnce' /\ \A x \in Requests : Carried(x)' => Carried(x)
    BY <1>0, <1>b, Constants DEF Carried
  <2>3. \A x \in Requests : OnePlace(x)'
    BY <1>0, <1>b, <2>1, <2>2
  <2> QED  BY <1>a, <2>1, <2>2, <2>3
<1>1. ASSUME NEW r \in Requests, Send(r) PROVE OnceInv'
  <2>1. client[r] # "sent" /\ UNCHANGED <<written, entry, writer>>
    BY <1>1 DEF Send, lines, threads
  <2>2. ~ Queued(r) /\ ~ Carried(r) /\ ~ Given(r)
    BY <1>0, <2>1
  <2>3. \A x \in Requests : (Carried(x)' <=> Carried(x)) /\ (Given(x)' <=> Given(x))
    BY <2>1 DEF Carried, Given
  <2>4. CarriedOnce' /\ GivenOnce'
    BY <1>0, <2>1 DEF GivenOnce
  <2>5. CASE client' = [client EXCEPT ![r] = "refused"] /\ UNCHANGED q
    <3>1. QueueOnce' /\ \A x : Queued(x)' <=> Queued(x)
      BY <1>0, <2>5 DEF QueueOnce, Queued
    <3>2. \A x \in Requests : client'[x] # "sent" => client[x] # "sent"
      BY <1>0, <2>1, <2>5
    <3>3. \A x \in Requests : OnePlace(x)'
      BY <1>0, <2>3, <3>1, <3>2
    <3> QED  BY <1>a, <2>4, <3>1, <3>3
  <2>6. CASE client' = [client EXCEPT ![r] = "sent"] /\ q' = Append(q, r)
    <3>1. QueueOnce' /\ \A x : Queued(x)' <=> Queued(x) \/ x = r
      BY <1>0, <2>2, <2>6, QueueAppend
    <3>2. \A x \in Requests : client'[x] # "sent" => client[x] # "sent" /\ x # r
      BY <1>0, <2>6
    <3>3. \A x \in Requests : OnePlace(x)'
      BY <1>0, <2>2, <2>3, <3>1, <3>2
    <3> QED  BY <1>a, <2>4, <3>1, <3>3
  <2> QED  BY <1>1, <2>5, <2>6 DEF Send
<1>2. ASSUME NEW p \in Procs, Takes(p) PROVE OnceInv'
  <2>1. /\ q # <<>> /\ q' = Tail(q) /\ entry' = [entry EXCEPT ![p] = Head(q)]
        /\ writer[p] = "take" /\ writer' = [writer EXCEPT ![p] = "write"]
        /\ UNCHANGED <<client, written>>
    BY <1>2 DEF Takes, callers, lines
  <2>2. Head(q) \in Requests
    BY <1>0, <2>1, Taken
  <2>3. QueueOnce' /\ Queued(Head(q)) /\ \A x : Queued(x)' <=> Queued(x) /\ x # Head(q)
    BY <1>0, <2>1, QueueTail
  <2>4. GivenOnce' /\ \A x : Given(x)' <=> Given(x)
    BY <1>0, <2>1 DEF GivenOnce, Given
  <2>5. ~ Carried(Head(q)) /\ ~ Given(Head(q)) /\ client[Head(q)] = "sent"
    BY <1>0, <2>2, <2>3
  <2> PICK h \in Requests : h = Head(q)
    BY <2>2
  <2>6. /\ \A x \in Procs \ {p} : entry'[x] = entry[x] /\ writer'[x] = writer[x]
        /\ entry'[p] = h /\ writer'[p] = "write"
    BY <1>0, <2>1
  <2>7. \A x \in Requests : Carried(x)' => Carried(x) \/ x = h
    BY <2>6 DEF Carried
  <2>8. CarriedOnce'
    <3> SUFFICES ASSUME NEW p1 \in Procs, NEW p2 \in Procs, entry'[p1] = entry'[p2],
                        entry'[p1] # None, writer'[p1] # "offer", writer'[p2] # "offer"
                 PROVE  p1 = p2
      OBVIOUS
    <3>1. \A x \in Procs \ {p} : entry[x] = h => writer[x] = "offer"
      BY <2>5 DEF Carried
    <3>2. CASE p1 = p /\ p2 # p
      BY <2>6, <3>1, <3>2
    <3>3. CASE p2 = p /\ p1 # p
      BY <2>6, <3>1, <3>3
    <3>4. CASE p1 # p /\ p2 # p
      <4>1. /\ entry[p1] = entry[p2] /\ entry[p1] # None
            /\ writer[p1] # "offer" /\ writer[p2] # "offer"
        BY <2>6, <3>4
      <4> QED  BY <1>0, <4>1
    <3> QED  BY <3>2, <3>3, <3>4
  <2>9. \A x \in Requests : OnePlace(x)'
    BY <1>0, <2>1, <2>3, <2>4, <2>5, <2>7
  <2> QED  BY <1>a, <2>3, <2>4, <2>8, <2>9
<1>3. ASSUME NEW p \in Procs, Writes(p), p \in up, pipes[p] = "open" PROVE OnceInv'
  <2>1. /\ writer[p] = "write" /\ writer' = [writer EXCEPT ![p] = "offer"]
        /\ written' = [written EXCEPT ![p] = Append(@, entry[p])]
        /\ UNCHANGED <<client, q, entry>>
    BY <1>3 DEF Writes, callers
  <2> PICK r \in Requests : r = entry[p]
    BY <1>0, <2>1 DEF EntryInv
  <2>2. Carried(r) /\ ~ Given(r)
    BY <1>0, <2>1 DEF Carried
  <2>3. ~ Queued(r) /\ client[r] = "sent"
    BY <1>0, <2>2
  <2>4. GivenOnce' /\ \A x : Given(x)' <=> Given(x) \/ x = r
    BY <1>0, <2>1, <2>2, GivenAppend
  <2>5. QueueOnce' /\ \A x : Queued(x)' <=> Queued(x)
    BY <1>0, <2>1 DEF QueueOnce, Queued
  <2>6. \A x \in Procs \ {p} : writer'[x] = writer[x]
    BY <1>0, <2>1
  <2>7. writer'[p] = "offer" /\ writer[p] # "offer"
    BY <1>0, <2>1
  <2>8. \A x \in Requests : Carried(x)' => Carried(x) /\ x # r
    <3> SUFFICES ASSUME NEW x \in Requests, NEW z \in Procs, entry[z] = x, writer'[z] # "offer"
                 PROVE  Carried(x) /\ x # r
      BY <2>1 DEF Carried
    <3>1. z # p /\ writer[z] # "offer"
      BY <2>6, <2>7
    <3>2. Carried(x)
      BY <3>1 DEF Carried
    <3>3. x # r
      BY <1>0, <2>7, <3>1, Constants
    <3> QED  BY <3>2, <3>3
  <2>9. CarriedOnce'
    BY <1>0, <2>1, <2>6, <2>7
  <2>10. \A x \in Requests : OnePlace(x)'
    BY <1>0, <2>1, <2>3, <2>4, <2>5, <2>8
  <2> QED  BY <1>a, <2>4, <2>5, <2>9, <2>10
<1>4. ASSUME NEW p \in Procs, Offers(p) PROVE OnceInv'
  <2>1. /\ writer[p] = "offer" /\ writer' = [writer EXCEPT ![p] = "check"]
        /\ entry' = [entry EXCEPT ![p] = None] /\ UNCHANGED <<client, q, written>>
    BY <1>4 DEF Offers, Forgotten, callers
  <2>2. /\ \A x \in Procs \ {p} : entry'[x] = entry[x] /\ writer'[x] = writer[x]
        /\ entry'[p] = None
    BY <1>0, <2>1
  <2>3. QueueOnce' /\ GivenOnce' /\ \A x : (Queued(x)' <=> Queued(x)) /\ (Given(x)' <=> Given(x))
    BY <1>0, <2>1 DEF QueueOnce, GivenOnce, Queued, Given
  <2>4. \A x \in Requests : Carried(x)' => Carried(x)
    BY <2>2, Constants DEF Carried
  <2>5. CarriedOnce'
    BY <1>0, <2>2
  <2>6. \A x \in Requests : OnePlace(x)'
    BY <1>0, <2>1, <2>3, <2>4
  <2> QED  BY <1>a, <2>3, <2>5, <2>6
<1>5. ASSUME NEW p \in Procs, Exits(p) PROVE OnceInv'
  <2>1. /\ writer[p] = "exit" /\ writer'[p] # "offer"
        /\ \A x \in Procs \ {p} : writer'[x] = writer[x]
        /\ entry' = [entry EXCEPT ![p] = None] /\ UNCHANGED <<client, written>>
        /\ q' = q \/ (entry[p] # None /\ q' = Append(q, entry[p]))
    BY <1>0, <1>5 DEF Exits, Reoffered, callers, lines
  <2>2. /\ \A x \in Procs \ {p} : entry'[x] = entry[x]
        /\ entry'[p] = None
    BY <1>0, <2>1
  <2>3. GivenOnce' /\ \A x : Given(x)' <=> Given(x)
    BY <1>0, <2>1 DEF GivenOnce, Given
  <2>4. CarriedOnce'
    BY <1>0, <2>1, <2>2
  <2>5. \A x \in Requests : Carried(x)' => Carried(x) /\ x # entry[p]
    <3> SUFFICES ASSUME NEW x \in Requests, NEW z \in Procs, entry'[z] = x, writer'[z] # "offer"
                 PROVE  Carried(x) /\ x # entry[p]
      BY DEF Carried
    <3>1. z # p /\ entry[z] = x /\ writer[z] # "offer"
      BY <2>1, <2>2, Constants
    <3>2. Carried(x)
      BY <3>1 DEF Carried
    <3>3. x # entry[p]
      BY <1>0, <2>1, <3>1, Constants
    <3> QED  BY <3>2, <3>3
  <2>6. CASE q' = q
    <3>1. QueueOnce' /\ \A x : Queued(x)' <=> Queued(x)
      BY <1>0, <2>6 DEF QueueOnce, Queued
    <3>2. \A x \in Requests : OnePlace(x)'
      BY <1>0, <2>1, <2>3, <2>5, <3>1
    <3> QED  BY <1>a, <2>3, <2>4, <3>1, <3>2
  <2>7. CASE entry[p] # None /\ q' = Append(q, entry[p])
    <3> PICK r \in Requests : r = entry[p]
      BY <1>0, <2>7
    <3>1. Carried(r)
      BY <2>1 DEF Carried
    <3>2. ~ Queued(r) /\ ~ Given(r) /\ client[r] = "sent"
      BY <1>0, <3>1
    <3>3. QueueOnce' /\ \A x : Queued(x)' <=> Queued(x) \/ x = r
      BY <1>0, <2>7, <3>2, QueueAppend
    <3>4. \A x \in Requests : OnePlace(x)'
      BY <1>0, <2>1, <2>3, <2>5, <3>2, <3>3
    <3> QED  BY <1>a, <2>3, <2>4, <3>3, <3>4
  <2> QED  BY <2>1, <2>6, <2>7
<1>6. ASSUME NEW p \in Procs, Writer(p), ~ Takes(p), ~ Offers(p), ~ Exits(p), ~ Respawns(p),
             ~ (Writes(p) /\ p \in up /\ pipes[p] = "open")
      PROVE  OnceInv'
  <2>1. UNCHANGED <<client, q, written, entry>> /\ writer[p] # "offer" /\ writer'[p] # "offer"
        /\ \A x \in Procs \ {p} : writer'[x] = writer[x]
    BY <1>0, <1>6 DEF Writer, WriterChecks, TakeInterrupted, Writes, RespawnFails, Terminates,
                      callers, lines
  <2> QED  BY <1>b, <2>1
<1>7. ASSUME NEW m \in Managers, NEW p, StartStep(m, p) PROVE OnceInv'
  <2>1. UNCHANGED <<client, q, written, entry>> /\ p \in Procs /\ writer'[p] = "check"
    BY <1>7 DEF StartStep, lines
  <2>2. Untouched(p)
    <3>1. Of(p) = m /\ p[2] = start[m] + 1 /\ start[m] \in Nat
      BY <1>7, Numbers DEF StartStep, Of
    <3>2. p[2] > start[Of(p)]
      BY <3>1
    <3> QED  BY <2>1, <3>1, <3>2 DEF StartInv
  <2>3. Now(m) \in Procs => start[m] > 0
    BY Pairs DEF Now
  <2>4. \A x \in Procs : entry[x] # None => (writer'[x] = "offer" <=> writer[x] = "offer")
    BY <1>7, <2>2, <2>3 DEF StartStep, Untouched
  <2> QED  BY <1>b, <2>1, <2>4
<1>8. ASSUME UNCHANGED <<client, q, written, entry, writer>> PROVE OnceInv'
  BY <1>b, <1>8
<1>9. ASSUME NEW p \in Procs, Reader(p) \/ Child(p) PROVE OnceInv'
  <2>1. UNCHANGED <<client, q, written, entry, writer>>
    BY <1>9 DEF Reader, Enters, ReadsLine, ReadFails, Syncs, Polls, Drains, Child, Prints, Dies,
                ClosesStdin, Complains, threads, lines, callers
  <2> QED  BY <1>8, <2>1
<1>10. ASSUME NEW m \in Managers, FirstStart(m) PROVE OnceInv'
  BY <1>7, <1>10, StartSteps
<1>11. ASSUME NEW p \in Procs, Respawns(p) PROVE OnceInv'
  BY <1>7, <1>11, Pairs, StartSteps
<1>12. ASSUME NEW m \in Managers, BeginsShutdown(m) \/ Kills(m) PROVE OnceInv'
  BY <1>8, <1>12 DEF BeginsShutdown, Kills, lines, threads, callers
<1>13. CASE UNCHANGED vars
  BY <1>8, <1>13 DEF vars, lines, threads, callers
<1> QED
  BY <1>1, <1>2, <1>3, <1>4, <1>5, <1>6, <1>9, <1>10, <1>11, <1>12, <1>13 DEF Next

-----------------------------------------------------------------------------
(* Lines.                                                                   *)

Lines(p) ==
    /\ offered[p] + (IF writer[p] = "offer" THEN 1 ELSE 0) = Len(written[p])
    /\ heard[p] <= printed[p] /\ printed[p] <= Len(written[p])
    /\ polled[p] + (IF reader[p] \in {"sync", "poll"} THEN 1 ELSE 0) = heard[p]
    /\ reader[p] = "poll" => heard[p] <= offered[p]

Answered(r) == \E p \in Procs : \E i \in DOMAIN written[p] : i <= polled[p] /\ written[p][i] = r

\* a step that is about the lines of p
LinesAt(p) ==
    /\ Local(p)
    /\ ~ noreply => Lines(p)'
    /\ \A r \in Requests : replies'[r] = replies[r] \/ Answered(r)'
    /\ \A r \in Requests : Answered(r) => Answered(r)'

LEMMA LinesLocal ==
  ASSUME LineInv, NEW p \in Procs, LinesAt(p)
  PROVE  LineInv'
<1>1. noreply' = noreply
  BY DEF LinesAt, Local, noreply
<1>2. ASSUME ~ noreply, NEW x \in Procs PROVE Lines(x)'
  <2>1. CASE x = p
    BY <1>2, <2>1 DEF LinesAt
  <2>2. CASE x # p
    <3>1. Lines(x)
      BY <1>2 DEF LineInv, Lines
    <3>2. SameAt(x)
      BY <2>2 DEF LinesAt, Local
    <3> QED  BY <3>1, <3>2 DEF SameAt, Lines
  <2> QED  BY <2>1, <2>2
<1>3. \A r \in Requests : replies'[r] # <<>> => Answered(r)'
  BY DEF LinesAt, LineInv, Answered
<1> QED  BY <1>1, <1>2, <1>3 DEF LineInv, Lines, Answered

LEMMA AnsweredStays ==
  ASSUME ProcessTypeOK, UNCHANGED written,
         polled' = polled \/ \E p \in Procs : polled' = [polled EXCEPT ![p] = @ + 1]
  PROVE  \A r \in Requests : Answered(r) => Answered(r)'
<1>1. \A x \in Procs : \A i \in DOMAIN written[x] : i <= polled[x] => i <= polled'[x]
  <2> TAKE x \in Procs
  <2> TAKE i \in DOMAIN written[x]
  <2>1. i \in Nat /\ polled[x] \in Nat /\ polled'[x] \in {polled[x], polled[x] + 1}
    BY DEF ProcessTypeOK
  <2> QED  BY <2>1
<1> QED  BY <1>1 DEF Answered

LEMMA WriterLines ==
  ASSUME ProcessTypeOK, EntryInv, LineInv, NEW p \in Procs, Writer(p), ~ Respawns(p)
  PROVE  LinesAt(p)
<1>0. /\ Local(p)
      /\ ~ noreply => Lines(p)
      /\ offered[p] \in Nat /\ polled[p] \in Nat /\ printed[p] \in Nat /\ heard[p] \in Nat
      /\ written[p] \in Seq(Requests) /\ Len(written[p]) \in Nat
  BY LocalSteps DEF LineInv, Lines, ProcessTypeOK
<1>1. CASE Writes(p) /\ p \in up /\ pipes[p] = "open"
  <2>1. /\ writer[p] = "write" /\ writer'[p] = "offer"
        /\ written' = [written EXCEPT ![p] = Append(@, entry[p])]
        /\ UNCHANGED <<replies, offered, polled, printed, heard, reader>>
    BY <1>1 DEF Writes, callers, ProcessTypeOK
  <2> PICK e \in Requests : e = entry[p]
    BY <2>1 DEF EntryInv, ProcessTypeOK
  <2>2. /\ DOMAIN written[p] = 1 .. Len(written[p])
        /\ DOMAIN written'[p] = 1 .. (Len(written[p]) + 1) /\ Len(written'[p]) = Len(written[p]) + 1
        /\ \A i \in 1 .. Len(written[p]) : written'[p][i] = written[p][i]
    BY <1>0, <2>1, Appended DEF ProcessTypeOK
  <2>3. ~ noreply => Lines(p)'
    BY <1>0, <2>1, <2>2 DEF Lines
  <2>4. \A x \in Procs : \A i \in DOMAIN written[x] :
            i \in DOMAIN written'[x] /\ written'[x][i] = written[x][i]
    BY <1>0, <2>1, <2>2 DEF ProcessTypeOK
  <2>5. \A r \in Requests : Answered(r) => Answered(r)'
    BY <2>1, <2>4 DEF Answered
  <2> QED  BY <1>0, <2>1, <2>3, <2>5 DEF LinesAt
<1>2. CASE Offers(p)
  <2>1. /\ writer[p] = "offer" /\ writer'[p] = "check"
        /\ ~ noreply => offered'[p] = offered[p] + 1
        /\ UNCHANGED <<replies, written, polled, printed, heard, reader>>
    BY <1>2 DEF Offers, callers, ProcessTypeOK
  <2>2. ~ noreply => Lines(p)'
    BY <1>0, <2>1 DEF Lines
  <2>3. \A r \in Requests : Answered(r) => Answered(r)'
    BY <2>1, AnsweredStays
  <2> QED  BY <1>0, <2>1, <2>2, <2>3 DEF LinesAt
<1>3. CASE ~ Offers(p) /\ ~ (Writes(p) /\ p \in up /\ pipes[p] = "open")
  <2>1. /\ writer[p] # "offer" /\ writer'[p] # "offer"
        /\ UNCHANGED <<replies, written, offered, polled, printed, heard, reader>>
    BY <1>3 DEF Writer, WriterChecks, Takes, TakeInterrupted, Writes, Exits, RespawnFails,
                Terminates, callers, lines, ProcessTypeOK
  <2>2. ~ noreply => Lines(p)'
    BY <1>0, <2>1 DEF Lines
  <2>3. \A r \in Requests : Answered(r) => Answered(r)'
    BY <2>1, AnsweredStays
  <2> QED  BY <1>0, <2>1, <2>2, <2>3 DEF LinesAt
<1> QED  BY <1>1, <1>2, <1>3

\* the consumer that is polled has been offered for the line that was heard
LEMMA PolledIsHeard ==
  ASSUME ProcessTypeOK, LineInv, NEW p \in Procs, reader[p] = "poll", ~ noreply
  PROVE  /\ polled[p] + 1 = heard[p] /\ polled[p] < offered[p]
         /\ heard[p] \in DOMAIN written[p] /\ written[p][heard[p]] \in Requests
<1>1. Lines(p) /\ written[p] \in Seq(Requests) /\ offered[p] \in Nat /\ polled[p] \in Nat
      /\ printed[p] \in Nat /\ heard[p] \in Nat
  BY DEF LineInv, Lines, ProcessTypeOK
<1>2. polled[p] + 1 = heard[p] /\ heard[p] <= offered[p]
  BY <1>1 DEF Lines
<1>3. heard[p] <= Len(written[p]) /\ Len(written[p]) \in Nat
  BY <1>1 DEF Lines
<1>4. heard[p] \in DOMAIN written[p]
  BY <1>1, <1>2, <1>3
<1> QED  BY <1>1, <1>2, <1>4

LEMMA ReaderLines ==
  ASSUME ProcessTypeOK, LineInv, NEW p \in Procs, Reader(p) \/ Child(p)
  PROVE  LinesAt(p)
<1>0. /\ Local(p)
      /\ ~ noreply => Lines(p)
      /\ offered[p] \in Nat /\ polled[p] \in Nat /\ printed[p] \in Nat /\ heard[p] \in Nat
      /\ written[p] \in Seq(Requests) /\ Len(written[p]) \in Nat
  BY LocalSteps DEF LineInv, Lines, ProcessTypeOK
<1>1. CASE Polls(p)
  <2>0. reader[p] = "poll" /\ reader'[p] = "drain"
        /\ UNCHANGED <<written, offered, printed, heard, writer>>
    BY <1>1 DEF Polls, ProcessTypeOK
  <2>1. CASE noreply
    <3>1. UNCHANGED <<polled, replies>>
      BY <1>1, <2>1, Zenon DEF Polls
    <3>2. \A r \in Requests : Answered(r) => Answered(r)'
      BY <2>0, <3>1, AnsweredStays
    <3> QED  BY <1>0, <2>1, <3>1, <3>2 DEF LinesAt
  <2>2. CASE ~ noreply
    <3>1. /\ polled[p] + 1 = heard[p] /\ polled[p] < offered[p]
          /\ heard[p] \in DOMAIN written[p] /\ written[p][heard[p]] \in Requests
      BY <2>0, <2>2, PolledIsHeard
    <3>2. /\ polled' = [polled EXCEPT ![p] = @ + 1]
          /\ replies' = [replies EXCEPT ![written[p][polled[p] + 1]] =
                            Append(@, written[p][heard[p]])]
      BY <1>1, <2>2, <3>1, Zenon DEF Polls
    <3>3. polled'[p] = polled[p] + 1
      BY <3>2 DEF ProcessTypeOK
    <3>4. Lines(p)'
      BY <1>0, <2>0, <2>2, <3>1, <3>3 DEF Lines
    <3>5. \A r \in Requests : Answered(r) => Answered(r)'
      BY <2>0, <3>2, AnsweredStays
    <3> PICK e \in Requests : e = written[p][heard[p]]
      BY <3>1
    <3>6. Answered(e)'
      BY <1>0, <2>0, <3>1, <3>3 DEF Answered
    <3>7. \A r \in Requests : r # e => replies'[r] = replies[r]
      BY <3>1, <3>2 DEF ProcessTypeOK
    <3> QED  BY <1>0, <3>4, <3>5, <3>6, <3>7 DEF LinesAt
  <2> QED  BY <2>1, <2>2
<1>2. ASSUME UNCHANGED <<replies, written, offered, polled, writer>>,
             ~ noreply => /\ heard'[p] <= printed'[p] /\ printed'[p] <= Len(written[p])
                          /\ polled[p] + (IF reader'[p] \in {"sync", "poll"} THEN 1 ELSE 0)
                                = heard'[p]
                          /\ reader'[p] = "poll" => heard'[p] <= offered[p]
      PROVE  LinesAt(p)
  <2>1. ~ noreply => Lines(p)'
    BY <1>0, <1>2 DEF Lines
  <2>2. \A r \in Requests : Answered(r) => Answered(r)'
    BY <1>2, AnsweredStays
  <2> QED  BY <1>0, <1>2, <2>1, <2>2 DEF LinesAt
<1>3. CASE ReadsLine(p)
  <2>1. UNCHANGED <<replies, written, offered, polled, writer, printed>> /\ reader[p] = "read"
        /\ \/ heard[p] < printed[p] /\ heard'[p] = heard[p] + 1 /\ reader'[p] = "sync"
           \/ heard'[p] = heard[p] /\ reader'[p] = "drain"
    BY <1>3 DEF ReadsLine, callers, ProcessTypeOK
  <2>2. CASE heard[p] < printed[p] /\ heard'[p] = heard[p] + 1 /\ reader'[p] = "sync"
    BY <1>0, <1>2, <2>1, <2>2 DEF Lines
  <2>3. CASE heard'[p] = heard[p] /\ reader'[p] = "drain"
    BY <1>0, <1>2, <2>1, <2>3 DEF Lines
  <2> QED  BY <2>1, <2>2, <2>3
<1>4. CASE Syncs(p)
  <2>1. UNCHANGED <<replies, written, offered, polled, writer, printed, heard>>
        /\ reader[p] = "sync" /\ reader'[p] = "poll"
    BY <1>4 DEF Syncs, callers, lines, ProcessTypeOK
  <2>2. writer[p] # "offer"
    BY <1>4, Pairs DEF Syncs, LockIsFree
  <2> QED  BY <1>0, <1>2, <2>1, <2>2 DEF Lines
<1>5. CASE Enters(p) \/ ReadFails(p) \/ Drains(p)
  <2>1. UNCHANGED <<replies, written, offered, polled, writer, printed, heard>>
        /\ reader[p] \notin {"sync", "poll"} /\ reader'[p] \notin {"sync", "poll"}
    BY <1>5 DEF Enters, ReadFails, Drains, GoesOn, Ends, callers, lines, ProcessTypeOK
  <2> QED  BY <1>0, <1>2, <2>1 DEF Lines
<1>6. CASE Prints(p)
  <2>1. UNCHANGED <<replies, written, offered, polled, writer, reader, heard>>
        /\ printed'[p] = printed[p] + 1
        /\ (~ noreply => printed[p] < Len(written[p]))
    BY <1>6 DEF Prints, callers, threads, ProcessTypeOK
  <2> QED  BY <1>0, <1>2, <2>1 DEF Lines
<1>7. CASE Dies(p) \/ ClosesStdin(p) \/ Complains(p)
  <2>1. UNCHANGED <<replies, written, offered, polled, writer, printed, heard, reader>>
    BY <1>7 DEF Dies, ClosesStdin, Complains, callers, lines, threads
  <2>2. ~ noreply => /\ heard'[p] <= printed'[p] /\ printed'[p] <= Len(written[p])
                     /\ polled[p] + (IF reader'[p] \in {"sync", "poll"} THEN 1 ELSE 0) = heard'[p]
                     /\ reader'[p] = "poll" => heard'[p] <= offered[p]
    BY <1>0, <2>1 DEF Lines
  <2> QED  BY <1>2, <2>1, <2>2
<1> QED  BY <1>1, <1>3, <1>4, <1>5, <1>6, <1>7 DEF Reader, Child

LEMMA LineInvStep ==
  ASSUME ProcessTypeOK, StartInv, ShutInv, EntryInv, LineInv, [Next]_vars
  PROVE  LineInv'
<1>1. ASSUME NEW m \in Managers, NEW p, StartStep(m, p) PROVE LineInv'
  <2>1. p \in Procs /\ Of(p) = m /\ p[2] = start[m] + 1 /\ start[m] \in Nat
    BY <1>1, Numbers DEF StartStep, Of
  <2>2. Untouched(p)
    <3>1. p[2] > start[Of(p)]
      BY <2>1
    <3> QED  BY <2>1, <3>1 DEF StartInv
  <2>3. UNCHANGED <<setting, replies, written, offered, polled, printed, heard>>
        /\ writer'[p] = "check" /\ reader' = [reader EXCEPT ![p] = "check"]
    BY <1>1 DEF StartStep, lines
  <2>4. Now(m) \in Procs => start[m] > 0
    BY Pairs DEF Now
  <2>5. \A x \in Procs \ {p} : (writer'[x] = "offer" <=> writer[x] = "offer") /\ reader'[x] = reader[x]
    BY <1>1, <2>3, <2>4 DEF StartStep, ProcessTypeOK
  <2>6. ASSUME ~ noreply, NEW x \in Procs PROVE Lines(x)'
    <3>1. Lines(x)
      BY <2>6 DEF LineInv, Lines
    <3>2. writer[p] # "offer" /\ writer'[p] # "offer" /\ reader[p] = "none" /\ reader'[p] = "check"
      BY <2>1, <2>2, <2>3 DEF Untouched, ProcessTypeOK
    <3> QED  BY <2>3, <2>5, <3>1, <3>2 DEF Lines
  <2>7. noreply' = noreply
    BY <2>3 DEF noreply
  <2>8. \A r \in Requests : replies'[r] # <<>> => Answered(r)'
    BY <2>3 DEF LineInv, Answered
  <2> QED  BY <2>6, <2>7, <2>8 DEF LineInv, Lines, Answered
<1>2. ASSUME UNCHANGED <<setting, replies, written, offered, polled, printed, heard, writer, reader>>
      PROVE  LineInv'
  BY <1>2 DEF LineInv, noreply
<1>3. ASSUME NEW m \in Managers, FirstStart(m) PROVE LineInv'
  BY <1>1, <1>3, StartSteps
<1>4. ASSUME NEW p \in Procs, Respawns(p) PROVE LineInv'
  BY <1>1, <1>4, Pairs, StartSteps
<1>5. ASSUME NEW p \in Procs, Writer(p), ~ Respawns(p) PROVE LineInv'
  BY <1>5, WriterLines, LinesLocal
<1>6. ASSUME NEW p \in Procs, Reader(p) \/ Child(p) PROVE LineInv'
  BY <1>6, ReaderLines, LinesLocal
<1>7. ASSUME NEW r \in Requests, Send(r) PROVE LineInv'
  BY <1>2, <1>7 DEF Send, lines, threads
<1>8. ASSUME NEW m \in Managers, BeginsShutdown(m) \/ Kills(m) PROVE LineInv'
  BY <1>2, <1>8 DEF BeginsShutdown, Kills, lines, threads, callers
<1>9. CASE UNCHANGED vars
  BY <1>2, <1>9 DEF vars, lines, threads, callers
<1> QED  BY <1>3, <1>4, <1>5, <1>6, <1>7, <1>8, <1>9 DEF Next

-----------------------------------------------------------------------------
(* Shutdown.                                                                *)

ShutAt(m) ==
    /\ shut[m] = "no" <=> ~ isShutdown[m]
    /\ isShutdown[m] =>
           /\ victim[m] > 0
           /\ \/ start[m] = victim[m]
              \/ start[m] = victim[m] + 1 /\ writer[Now(m)] # "respawn"
           /\ shut[m] = "done" => <<m, victim[m]>> \notin up
    /\ ~ MayGoAway => Steady(m)

\* a process that is well, with a writer that does not give it up
Well(p) == /\ p \in up /\ pipes[p] = "open" /\ ~ interrupted[p]
           /\ writer[p] \in {"check", "take", "write", "offer"}

LEMMA NowIs ==
  ASSUME ProcessTypeOK, NEW m \in Managers
  PROVE  /\ Now(m) = <<m, start[m]>> /\ start[m] \in Nat /\ victim[m] \in Nat
         /\ start[m] > 0 => Now(m) \in Procs /\ Of(Now(m)) = m /\ Now(m)[2] = start[m]
         /\ victim[m] > 0 => <<m, victim[m]>> \in Procs /\ Of(<<m, victim[m]>>) = m
<1>1. start[m] \in Starts \cup {0} /\ victim[m] \in Starts \cup {0}
  BY DEF ProcessTypeOK
<1>2. start[m] \in Nat /\ victim[m] \in Nat
  BY Numbers
<1> QED  BY <1>1, <1>2, Pairs DEF Now

\* what one process does leaves the other managers as they are
LEMMA ShutLocal ==
  ASSUME ProcessTypeOK, ShutInv, NEW p \in Procs, Local(p), UNCHANGED ending, up' \subseteq up,
         isShutdown[Of(p)] /\ writer'[p] = "respawn" => writer[p] = "respawn",
         ~ MayGoAway /\ ~ isShutdown[Of(p)] /\ p = Now(Of(p)) /\ Well(p) => Well(p)'
  PROVE  ShutInv'
<1> SUFFICES ASSUME NEW m \in Managers PROVE ShutAt(m)'
  BY DEF ShutInv, ShutAt
<1>0. ShutAt(m)
  BY DEF ShutInv, ShutAt
<1>1. /\ UNCHANGED <<isShutdown, shut, victim, setting, start>>
      /\ Now(m)' = Now(m) /\ (MayGoAway' <=> MayGoAway)
  BY DEF Local, ending, Now, MayGoAway, May
<1>2. isShutdown[m] => start[m] > 0
  BY <1>0, NowIs DEF ShutAt
<1>3. isShutdown[m] /\ writer[Now(m)] # "respawn" => writer'[Now(m)] # "respawn"
  <2>1. CASE p = Now(m)
    <3>1. isShutdown[m] => Of(p) = m
      BY <1>2, <2>1, NowIs
    <3> QED  BY <2>1, <3>1
  <2>2. CASE p # Now(m)
    <3>1. isShutdown[m] => Now(m) \in Procs
      BY <1>2, NowIs
    <3> QED  BY <2>2, <3>1 DEF Local, SameAt
  <2> QED  BY <2>1, <2>2
<1>4. ~ MayGoAway => Steady(m)'
  <2>1. CASE isShutdown[m]
    BY <1>0, <1>1, <1>3, <2>1 DEF ShutAt, Steady
  <2>2. CASE ~ isShutdown[m] /\ start[m] > 0 /\ ~ MayGoAway
    <3>1. Well(Now(m)) /\ Now(m) \in Procs /\ Of(Now(m)) = m
      BY <1>0, <2>2, NowIs DEF ShutAt, Steady, Well
    <3> PICK x \in Procs : x = Now(m)
      BY <3>1
    <3>2. CASE p = x
      <4>1. Well(p)'
        BY <2>2, <3>1, <3>2
      <4> QED  BY <1>1, <2>2, <3>2, <4>1 DEF Steady, Well
    <3>3. CASE p # x
      <4>1. SameAt(x)
        BY <3>3 DEF Local
      <4> QED  BY <1>1, <2>2, <3>1, <4>1 DEF Steady, Well, SameAt
    <3> QED  BY <3>2, <3>3
  <2>3. CASE ~ isShutdown[m] /\ ~ (start[m] > 0)
    BY <1>1, <2>3 DEF Steady
  <2> QED  BY <2>1, <2>2, <2>3
<1>5. isShutdown[m] /\ shut[m] = "done" => <<m, victim[m]>> \notin up'
  BY <1>0 DEF ShutAt
<1> QED  BY <1>0, <1>1, <1>3, <1>4, <1>5 DEF ShutAt

LEMMA WriterShuts ==
  ASSUME ProcessTypeOK, StartInv, ShutInv, NEW p \in Procs, Writer(p), ~ Respawns(p)
  PROVE  ShutInv'
<1> USE DEF ProcessTypeOK
<1>0. Local(p)
  BY LocalSteps
<1>1. UNCHANGED ending /\ up' \subseteq up
  BY DEF Writer, WriterChecks, Takes, TakeInterrupted, Writes, Offers, Exits, RespawnFails,
         Terminates, Destroy, process
<1>2. isShutdown[Of(p)] /\ writer'[p] = "respawn" => writer[p] = "respawn"
  BY DEF Writer, WriterChecks, Takes, TakeInterrupted, Writes, Offers, Exits, RespawnFails,
         Terminates, IsOver
<1>3. ASSUME p = Now(Of(p)), Well(p) PROVE Well(p)'
  <2> USE <1>3
  <2>1. CASE WriterChecks(p)
    BY <2>1 DEF WriterChecks, Well, Alive, process
  <2>2. CASE Takes(p) \/ TakeInterrupted(p)
    BY <2>2 DEF Takes, TakeInterrupted, Well, process
  <2>3. CASE Writes(p)
    BY <2>3 DEF Writes, Well, process
  <2>4. CASE Offers(p)
    BY <2>4 DEF Offers, Well, process
  <2>5. CASE Exits(p) \/ RespawnFails(p) \/ Terminates(p)
    BY <2>5 DEF Exits, RespawnFails, Terminates, Well
  <2> QED  BY <2>1, <2>2, <2>3, <2>4, <2>5 DEF Writer
<1> QED  BY <1>0, <1>1, <1>2, <1>3, ShutLocal

LEMMA OthersShut ==
  ASSUME ProcessTypeOK, StartInv, ShutInv, NEW p \in Procs, Reader(p) \/ Child(p)
  PROVE  ShutInv'
<1> USE DEF ProcessTypeOK
<1>0. Local(p) /\ writer' = writer /\ up' \subseteq up
  BY LocalSteps, OthersMove
<1>1. UNCHANGED ending
  BY DEF Reader, Enters, ReadsLine, ReadFails, Syncs, Polls, Drains, Child, Prints, Dies,
         ClosesStdin, Complains
<1>2. ASSUME ~ MayGoAway, p = Now(Of(p)), Well(p) PROVE Well(p)'
  <2> USE <1>2
  <2>1. CASE Enters(p) \/ Drains(p)
    BY <1>0, <2>1 DEF Enters, Drains, GoesOn, Alive, Well, process
  <2>2. CASE ReadFails(p)
    BY <2>2 DEF ReadFails, Well
  <2>3. CASE ReadsLine(p) \/ Syncs(p) \/ Polls(p)
    BY <1>0, <2>3 DEF ReadsLine, Syncs, Polls, Well, process
  <2>4. CASE Prints(p) \/ Complains(p)
    BY <1>0, <2>4 DEF Prints, Complains, Well, process, threads
  <2>5. CASE Dies(p) \/ ClosesStdin(p)
    BY <2>5 DEF Dies, ClosesStdin, MayGo, MayGoAway
  <2> QED  BY <2>1, <2>2, <2>3, <2>4, <2>5 DEF Reader, Child
<1> QED  BY <1>0, <1>1, <1>2, ShutLocal

LEMMA StartShuts ==
  ASSUME ProcessTypeOK, StartInv, ShutInv, NEW n \in Managers, NEW p, StartStep(n, p)
  PROVE  ShutInv'
<1>1. /\ p \in Procs /\ Of(p) = n /\ p[2] = start[n] + 1 /\ start[n] \in Nat
      /\ p = <<n, start[n] + 1>> /\ Untouched(p)
  <2>1. p \in Procs /\ p = <<n, start[n] + 1>> /\ start[n] \in Nat
    BY Numbers DEF StartStep
  <2>2. Of(p) = n /\ p[2] = start[n] + 1
    BY <2>1 DEF Of
  <2>3. p[2] > start[Of(p)]
    BY <2>1, <2>2
  <2> QED  BY <2>1, <2>2, <2>3 DEF StartInv
<1>2. /\ start' = [start EXCEPT ![n] = start[n] + 1] /\ up' = up \cup {p}
      /\ UNCHANGED <<setting, pipes, interrupted, isShutdown, shut, victim>>
      /\ writer'[p] = "check" /\ \A x \in Procs \ {p, Now(n)} : writer'[x] = writer[x]
      /\ start[n] > 0 => writer[Now(n)] = "respawn"
  BY <1>1 DEF StartStep, ending
<1>3. start'[n] = start[n] + 1 /\ \A m \in Managers \ {n} : start'[m] = start[m]
  BY <1>2 DEF ProcessTypeOK
<1> SUFFICES ASSUME NEW m \in Managers PROVE ShutAt(m)'
  BY DEF ShutInv, ShutAt
<1>4. ShutAt(m) /\ (MayGoAway' <=> MayGoAway)
  BY <1>2 DEF ShutInv, ShutAt, MayGoAway, May
<1>5. /\ Now(m) = <<m, start[m]>> /\ Now(m)' = <<m, start'[m]>>
      /\ start[m] \in Nat /\ victim[m] \in Nat
  BY NowIs DEF Now
<1>6. CASE m = n
  <2>1. Now(m)' = p
    BY <1>1, <1>3, <1>5, <1>6
  <2>2. ~ MayGoAway => ~ isShutdown[n] /\ start[n] = 0
    BY <1>1, <1>2, <1>4, <1>6 DEF ShutAt, Steady
  <2>3. isShutdown[n] => victim[n] > 0 /\ start[n] = victim[n]
    BY <1>1, <1>2, <1>4, <1>5, <1>6 DEF ShutAt
  <2>4. ~ MayGoAway => Steady(m)'
    <3>1. Well(p)'
      BY <1>1, <1>2 DEF Well, Untouched
    <3> QED  BY <1>2, <1>6, <2>1, <2>2, <3>1 DEF Steady, Well
  <2>5. isShutdown[n] /\ shut[n] = "done" => <<n, victim[n]>> \notin up'
    <3>1. isShutdown[n] => <<n, victim[n]>> # p
      BY <1>1, <2>3
    <3> QED  BY <1>2, <1>4, <1>6, <3>1 DEF ShutAt
  <2> QED  BY <1>2, <1>3, <1>4, <1>6, <2>1, <2>3, <2>4, <2>5 DEF ShutAt
<1>7. CASE m # n
  <2>1. start'[m] = start[m] /\ Now(m)' = Now(m) /\ Now(m) # p /\ Now(m) # Now(n)
        /\ <<m, victim[m]>> # p
    <3>1. Now(m) # p /\ <<m, victim[m]>> # p
      BY <1>1, <1>5, <1>7
    <3>2. Now(n) = <<n, start[n]>>
      BY NowIs
    <3> QED  BY <1>3, <1>5, <1>7, <3>1, <3>2
  <2>2. start[m] > 0 => writer'[Now(m)] = writer[Now(m)]
    BY <1>2, <2>1, NowIs
  <2>3. isShutdown[m] => start[m] > 0
    BY <1>4, <1>5 DEF ShutAt
  <2>4. ~ MayGoAway => Steady(m)'
    BY <1>2, <1>4, <2>1, <2>2, <2>3 DEF ShutAt, Steady
  <2> QED  BY <1>2, <1>4, <2>1, <2>2, <2>3, <2>4 DEF ShutAt
<1> QED  BY <1>6, <1>7

LEMMA ShutdownShuts ==
  ASSUME ProcessTypeOK, StartInv, ShutInv, NEW n \in Managers, BeginsShutdown(n) \/ Kills(n)
  PROVE  ShutInv'
<1> SUFFICES ASSUME NEW m \in Managers PROVE ShutAt(m)'
  BY DEF ShutInv, ShutAt
<1>0. /\ UNCHANGED <<setting, start, writer, interrupted>> /\ up' \subseteq up
      /\ Now(m)' = Now(m) /\ (MayGoAway' <=> MayGoAway)
      /\ ShutAt(m)
  BY DEF BeginsShutdown, Kills, Destroy, process, threads, Now, MayGoAway, May, ShutInv, ShutAt
<1>1. CASE BeginsShutdown(n)
  <2>1. UNCHANGED <<up, pipes>> /\ start[n] > 0
        /\ isShutdown' = [isShutdown EXCEPT ![n] = TRUE]
        /\ victim' = [victim EXCEPT ![n] = start[n]]
        /\ shut' = [shut EXCEPT ![n] = IF Alive(n) THEN "waiting" ELSE "done"]
    <3>1. n \in 1 .. processes
      BY <1>1 DEF BeginsShutdown, Managers
    <3> QED  BY <1>1, <3>1 DEF BeginsShutdown, process
  <2>2. CASE m = n
    <3>1. isShutdown'[m] /\ victim'[m] = start[m]
          /\ shut'[m] = (IF Alive(m) THEN "waiting" ELSE "done")
      BY <2>1, <2>2 DEF ProcessTypeOK
    <3>2. ~ isShutdown[m]
      BY <1>1, <2>2 DEF BeginsShutdown
    <3>3. ~ MayGoAway => writer[Now(m)] # "respawn"
      BY <1>0, <2>1, <2>2, <3>2 DEF ShutAt, Steady
    <3>4. shut'[m] = "done" => <<m, victim'[m]>> \notin up'
      BY <2>1, <3>1 DEF Alive, Now
    <3> QED  BY <1>0, <2>1, <2>2, <3>1, <3>3, <3>4 DEF ShutAt, Steady
  <2>3. CASE m # n
    <3>1. isShutdown'[m] = isShutdown[m] /\ victim'[m] = victim[m] /\ shut'[m] = shut[m]
      BY <2>1, <2>3 DEF ProcessTypeOK
    <3> QED  BY <1>0, <2>1, <3>1 DEF ShutAt, Steady
  <2> QED  BY <2>2, <2>3
<1>2. CASE Kills(n)
  <2>1. /\ <<n, victim[n]>> \in Procs /\ isShutdown[n] /\ up' = up \ {<<n, victim[n]>>}
        /\ Local(<<n, victim[n]>>)
    BY <1>2, KillsLocal
  <2>2. UNCHANGED <<isShutdown, victim>> /\ shut' = [shut EXCEPT ![n] = "done"]
    BY <1>2 DEF Kills
  <2>3. CASE m = n
    BY <1>0, <2>1, <2>2, <2>3 DEF ShutAt, Steady, ProcessTypeOK
  <2>4. CASE m # n
    <3>1. shut'[m] = shut[m]
      BY <2>2, <2>4 DEF ProcessTypeOK
    <3>2. start[m] > 0 => SameAt(Now(m))
      <4>1. Now(m) # <<n, victim[n]>>
        BY <2>4 DEF Now
      <4> QED  BY <2>1, <4>1, NowIs DEF Local
    <3> QED  BY <1>0, <2>2, <3>1, <3>2 DEF ShutAt, Steady, SameAt
  <2> QED  BY <2>3, <2>4
<1> QED  BY <1>1, <1>2

LEMMA ShutInvStep ==
  ASSUME ProcessTypeOK, StartInv, ShutInv, [Next]_vars
  PROVE  ShutInv'
<1>1. ASSUME NEW m \in Managers, FirstStart(m) PROVE ShutInv'
  BY <1>1, StartSteps, StartShuts
<1>2. ASSUME NEW p \in Procs, Respawns(p) PROVE ShutInv'
  BY <1>2, Pairs, StartSteps, StartShuts
<1>3. ASSUME NEW p \in Procs, Writer(p), ~ Respawns(p) PROVE ShutInv'
  BY <1>3, WriterShuts
<1>4. ASSUME NEW p \in Procs, Reader(p) \/ Child(p) PROVE ShutInv'
  BY <1>4, OthersShut
<1>5. ASSUME NEW m \in Managers, BeginsShutdown(m) \/ Kills(m) PROVE ShutInv'
  BY <1>5, ShutdownShuts
<1>6. ASSUME UNCHANGED <<setting, process, threads, ending>> PROVE ShutInv'
  BY <1>6 DEF ShutInv, Steady, Now, MayGoAway, May, process, threads, ending
<1>7. ASSUME NEW r \in Requests, Send(r) PROVE ShutInv'
  BY <1>6, <1>7 DEF Send
<1>8. CASE UNCHANGED vars
  BY <1>6, <1>8 DEF vars
<1> QED  BY <1>1, <1>2, <1>3, <1>4, <1>5, <1>7, <1>8 DEF Next

LEMMA IInvStep == IInv /\ [Next]_vars => IInv'
<1> SUFFICES ASSUME IInv, [Next]_vars PROVE IInv'
  OBVIOUS
<1>1. ProcessTypeOK /\ StartInv /\ EntryInv /\ OnceInv /\ LineInv /\ ShutInv
  BY DEF IInv
<1>2. ProcessTypeOK' /\ StartInv' /\ EntryInv' /\ LineInv' /\ ShutInv'
  BY <1>1, TypeStep, StartInvStep, EntryInvStep, LineInvStep, ShutInvStep
<1>3. OnceInv'
  BY <1>1, <1>2, OnceInvStep
<1> QED  BY <1>2, <1>3 DEF IInv

LEMMA Invariance == Spec => []IInv
BY InitIInv, IInvStep, PTL DEF Spec

-----------------------------------------------------------------------------
(* Nothing that is polled or heard lies outside of what was written to a        *)
(* process, so that a consumer is always there for a line that answers it, and   *)
(* what a writer writes is a request.                                        *)
THEOREM TypeCorrect == Spec => []ProcessTypeOK
<1>1. IInv => ProcessTypeOK
  BY DEF IInv
<1> QED  BY <1>1, Invariance, PTL

(* Over any number of processes, starts and interrupted writers no request is  *)
(* written twice: it is in the queue, in the hands of one writer, or given.     *)
THEOREM WrittenOnce == Spec => []GivenOnce
<1>1. IInv => GivenOnce
  BY DEF IInv, OnceInv
<1> QED  BY <1>1, Invariance, PTL

(* A process that was replaced and still runs has a writer that is about to     *)
(* terminate it.                                                             *)
THEOREM ReplacedAreTerminated == Spec => []NoStrayProcess
<1>1. ASSUME IInv PROVE NoStrayProcess
  <2> SUFFICES ASSUME NEW p \in up, p # Now(Of(p)) PROVE writer[p] = "terminate"
    BY DEF NoStrayProcess
  <2>1. p \in Procs /\ StartInv /\ ProcessTypeOK
    BY <1>1 DEF IInv, ProcessTypeOK
  <2>2. /\ p = <<Of(p), p[2]>> /\ p[2] \in Nat /\ start[Of(p)] \in Nat
        /\ Now(Of(p)) = <<Of(p), start[Of(p)]>>
    BY <2>1, Pairs, NowIs
  <2>3. p[2] # start[Of(p)]
    BY <2>2
  <2>4. ~ (p[2] > start[Of(p)])
    BY <2>1 DEF StartInv, Untouched
  <2>5. p[2] < start[Of(p)]
    BY <2>2, <2>3, <2>4
  <2> QED  BY <2>1, <2>5 DEF StartInv
<1> QED  BY <1>1, Invariance, PTL

(* After shutdown at most the respawn that had begun goes on, and what shutdown *)
(* saw is destroyed; nothing at all is started if processes do not die by        *)
(* themselves.                                                               *)
THEOREM NothingStartsAfterShutdown == Spec => []ShutdownEnds
<1>1. ASSUME IInv PROVE ShutdownEnds
  <2> SUFFICES ASSUME NEW m \in Managers, isShutdown[m]
               PROVE  /\ start[m] <= victim[m] + IF May("die") \/ May("deaf") THEN 1 ELSE 0
                      /\ shut[m] = "done" => <<m, victim[m]>> \notin up
    BY DEF ShutdownEnds
  <2>1. ShutAt(m) /\ start[m] \in Nat /\ victim[m] \in Nat
    BY <1>1, NowIs DEF IInv, ShutInv, ShutAt
  <2>2. CASE MayGoAway
    BY <2>1, <2>2 DEF ShutAt, MayGoAway
  <2>3. CASE ~ MayGoAway
    BY <2>1, <2>3 DEF ShutAt, Steady, MayGoAway
  <2> QED  BY <2>2, <2>3
<1> QED  BY <1>1, Invariance, PTL

-----------------------------------------------------------------------------
(* The manager does what RequestReply promises: a request is given when it is   *)
(* written, and answered when its consumer is polled.                        *)

LEMMA StateCases ==
  ASSUME NEW r \in Requests
  PROVE  /\ client[r] = "new" => StateOf(r) = "new"
         /\ client[r] = "refused" => StateOf(r) = "refused"
         /\ client[r] = "sent" => StateOf(r) = IF Given(r) THEN "given" ELSE "waiting"
BY DEF StateOf

\* the same of the next state
LEMMA NextStateCases ==
  ASSUME NEW r \in Requests
  PROVE  /\ client'[r] = "new" => StateOf(r)' = "new"
         /\ client'[r] = "refused" => StateOf(r)' = "refused"
         /\ client'[r] = "sent" => StateOf(r)' = IF Given(r)' THEN "given" ELSE "waiting"
BY DEF StateOf

LEMMA SameState ==
  ASSUME ProcessTypeOK, UNCHANGED client, NEW r \in Requests, Given(r)' <=> Given(r)
  PROVE  StateOf(r)' = StateOf(r)
<1>1. client[r] \in {"new", "refused", "sent"} /\ client'[r] = client[r]
  BY DEF ProcessTypeOK
<1> QED  BY <1>1, StateCases, NextStateCases

LEMMA Becoming ==
  ASSUME NEW r \in Requests, NEW to, StateOf(r)' = to,
         \A x \in Requests \ {r} : StateOf(x)' = StateOf(x)
  PROVE  [x \in Requests |-> StateOf(x)]' = [[x \in Requests |-> StateOf(x)] EXCEPT ![r] = to]
OBVIOUS

LEMMA Staying ==
  ASSUME ProcessTypeOK, UNCHANGED <<client, written>>
  PROVE  UNCHANGED [r \in Requests |-> StateOf(r)]
<1>1. \A r \in Requests : Given(r)' <=> Given(r)
  BY DEF Given
<1>2. \A r \in Requests : StateOf(r)' = StateOf(r)
  BY <1>1, SameState
<1> QED  BY <1>2

LEMMA SendIsAskOrRefuse ==
  ASSUME ProcessTypeOK, OnceInv, NEW r \in Requests, Send(r)
  PROVE  Contract!Next
<1>1. client[r] = "new" /\ UNCHANGED <<replies, written>> /\ ~ Given(r)
  BY DEF Send, lines, OnceInv
<1>2. \A x \in Requests : Given(x)' <=> Given(x)
  BY <1>1 DEF Given
<1>3. StateOf(r) = "new"
  BY <1>1, StateCases
<1>4. PICK to \in {"refused", "sent"} : client' = [client EXCEPT ![r] = to]
  BY DEF Send
<1>5. ASSUME NEW x \in Requests \ {r} PROVE StateOf(x)' = StateOf(x)
  <2>1. client'[x] = client[x] /\ client[x] \in {"new", "refused", "sent"}
    BY <1>4 DEF ProcessTypeOK
  <2> QED  BY <1>2, <2>1, StateCases, NextStateCases
<1>6. client'[r] = to
  BY <1>4 DEF ProcessTypeOK
<1>7. CASE to = "refused"
  <2>1. StateOf(r)' = "refused"
    BY <1>6, <1>7, NextStateCases
  <2>2. Contract!Refuse(r)
    BY <1>1, <1>3, <1>5, <2>1, Becoming DEF Contract!Refuse, Contract!Becomes
  <2> QED  BY <2>2 DEF Contract!Next
<1>8. CASE to = "sent"
  <2>1. StateOf(r)' = "waiting"
    BY <1>1, <1>2, <1>6, <1>8, NextStateCases
  <2>2. Contract!Ask(r)
    BY <1>1, <1>3, <1>5, <2>1, Becoming DEF Contract!Ask, Contract!Becomes
  <2> QED  BY <2>2 DEF Contract!Next
<1> QED  BY <1>7, <1>8

LEMMA WriteIsGive ==
  ASSUME ProcessTypeOK, EntryInv, OnceInv, NEW p \in Procs, Writes(p),
         p \in up, pipes[p] = "open"
  PROVE  Contract!Next
<1>1. /\ writer[p] = "write" /\ written' = [written EXCEPT ![p] = Append(@, entry[p])]
      /\ UNCHANGED <<client, replies>>
  BY DEF Writes, callers
<1> PICK e \in Requests : e = entry[p]
  BY <1>1 DEF EntryInv, ProcessTypeOK
<1>2. Carried(e)
  BY <1>1 DEF Carried
<1>3. client[e] = "sent" /\ ~ Given(e)
  BY <1>2 DEF OnceInv
<1>4. \A x : Given(x)' <=> Given(x) \/ x = e
  BY <1>1, <1>3, GivenAppend DEF OnceInv, ProcessTypeOK
<1>5. StateOf(e) = "waiting"
  BY <1>3, StateCases
<1>6. StateOf(e)' = "given"
  <2>1. client'[e] = "sent" /\ Given(e)'
    BY <1>1, <1>3, <1>4
  <2> QED  BY <2>1, NextStateCases
<1>7. \A x \in Requests \ {e} : StateOf(x)' = StateOf(x)
  BY <1>1, <1>4, SameState
<1>8. Contract!Give(e)
  BY <1>1, <1>5, <1>6, <1>7, Becoming DEF Contract!Give, Contract!Becomes
<1> QED  BY <1>8 DEF Contract!Next

LEMMA PollIsAnswer ==
  ASSUME ProcessTypeOK, OnceInv, LineInv, NEW p \in Procs, Polls(p), ~ noreply
  PROVE  Contract!Next
<1>1. /\ polled[p] + 1 = heard[p] /\ polled[p] < offered[p]
      /\ heard[p] \in DOMAIN written[p] /\ written[p][heard[p]] \in Requests
  BY PolledIsHeard DEF Polls
<1> PICK e \in Requests : e = written[p][heard[p]]
  BY <1>1
<1>2. /\ UNCHANGED <<client, written>>
      /\ replies' = [replies EXCEPT ![e] = Append(@, e)]
  <2>1. replies' = [replies EXCEPT ![written[p][polled[p] + 1]] =
                        Append(@, written[p][heard[p]])]
    BY <1>1, Zenon DEF Polls
  <2> QED  BY <1>1, <2>1 DEF Polls
<1>3. Given(e)
  BY <1>1 DEF Given
<1>4. StateOf(e) = "given"
  <2>1. client[e] = "sent"
    BY <1>3 DEF OnceInv
  <2> QED  BY <1>3, <2>1, StateCases
<1>5. replies[e] = <<>>
  <2>1. SUFFICES ASSUME replies[e] # <<>> PROVE FALSE
    OBVIOUS
  <2>2. PICK x \in Procs : \E i \in DOMAIN written[x] : i <= polled[x] /\ written[x][i] = e
    BY <2>1 DEF LineInv
  <2>3. PICK i \in DOMAIN written[x] : i <= polled[x] /\ written[x][i] = e
    BY <2>2
  <2>4. x = p /\ i = heard[p]
    BY <1>1, <2>3 DEF OnceInv, GivenOnce
  <2>5. polled[p] \in Nat
    BY DEF ProcessTypeOK
  <2> QED  BY <1>1, <2>3, <2>4, <2>5
<1>6. replies' = [replies EXCEPT ![e] = <<e>>]
  BY <1>2, <1>5 DEF ProcessTypeOK
<1>7. Contract!Answer(e)
  BY <1>2, <1>4, <1>5, <1>6, Staying DEF Contract!Answer
<1> QED  BY <1>7 DEF Contract!Next

LEMMA StepIsContractStep == IInv /\ [Next]_vars => [Contract!Next]_(Contract!vars)
<1> SUFFICES ASSUME IInv, [Next]_vars PROVE [Contract!Next]_(Contract!vars)
  OBVIOUS
<1>0. ProcessTypeOK /\ EntryInv /\ OnceInv /\ LineInv
  BY DEF IInv
<1>a. ASSUME UNCHANGED <<client, written, replies>> PROVE UNCHANGED Contract!vars
  BY <1>0, <1>a, Staying DEF Contract!vars
<1>1. ASSUME NEW r \in Requests, Send(r) PROVE Contract!Next
  BY <1>0, <1>1, SendIsAskOrRefuse
<1>2. ASSUME NEW m \in Managers, FirstStart(m) \/ BeginsShutdown(m) \/ Kills(m)
      PROVE  UNCHANGED Contract!vars
  BY <1>a, <1>2 DEF FirstStart, BeginsShutdown, Kills, callers, lines
<1>3. ASSUME NEW p \in Procs, Writer(p) PROVE [Contract!Next]_(Contract!vars)
  <2>1. CASE Writes(p) /\ p \in up /\ pipes[p] = "open"
    BY <1>0, <2>1, WriteIsGive
  <2>2. CASE ~ (Writes(p) /\ p \in up /\ pipes[p] = "open")
    BY <1>a, <1>3, <2>2 DEF Writer, WriterChecks, Takes, TakeInterrupted, Writes, Offers, Exits,
                            Respawns, RespawnFails, Terminates, callers, lines
  <2> QED  BY <2>1, <2>2
<1>4. ASSUME NEW p \in Procs, Reader(p) PROVE [Contract!Next]_(Contract!vars)
  <2>1. CASE Polls(p) /\ ~ noreply
    BY <1>0, <2>1, PollIsAnswer
  <2>2. CASE Polls(p) /\ noreply
    <3>1. UNCHANGED replies
      BY <2>2, Zenon DEF Polls
    <3> QED  BY <1>a, <2>2, <3>1 DEF Polls
  <2>3. CASE ~ Polls(p)
    BY <1>a, <1>4, <2>3 DEF Reader, Enters, ReadsLine, ReadFails, Syncs, Drains, callers, lines
  <2> QED  BY <2>1, <2>2, <2>3
<1>5. ASSUME NEW p \in Procs, Child(p) PROVE UNCHANGED Contract!vars
  BY <1>a, <1>5 DEF Child, Prints, Dies, ClosesStdin, Complains, callers, lines
<1>6. CASE UNCHANGED vars
  BY <1>a, <1>6 DEF vars, callers, lines
<1> QED  BY <1>1, <1>2, <1>3, <1>4, <1>5, <1>6 DEF Next

LEMMA InitIsContractInit == Init => Contract!Init
<1> SUFFICES ASSUME Init PROVE Contract!Init
  OBVIOUS
<1>1. \A r \in Requests : StateOf(r) = "new"
  BY StateCases DEF Init
<1> QED  BY <1>1 DEF Init, Contract!Init

(* Whatever happens to the processes and however the threads interleave, a flow *)
(* that calls a process sees what RequestReply says: its line is given to one    *)
(* process at most once, and its consumer is called at most once, with the line  *)
(* that was printed for it.                                                   *)
THEOREM ManagerFulfilsContract == Spec => FulfilsRequestReply
BY InitIsContractInit, StepIsContractStep, Invariance, PTL
   DEF Spec, FulfilsRequestReply, Contract!Spec
=============================================================================
