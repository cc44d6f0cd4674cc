---------------------------- MODULE SymbolEngine ----------------------------
(***************************************************************************)
(* One symbol of the matching engine: the mailbox and the actor            *)
(* (SymbolActor.Run), its command log cmd.wal, its event log ev.wal (the   *)
(* outbox), the publisher with its cursor file, and the recovery that      *)
(* getOrCreateActor runs before it starts the other two.  The actor, the   *)
(* publisher and the clients run concurrently; the process may stop or be  *)
(* killed between any two steps, the machine may lose power, and writes    *)
(* may fail.                                                               *)
(*                                                                         *)
(* The book is a parameter.  Apply(b, c) is what book.SubmitLimit or       *)
(* book.Cancel do to book b for command c: the new book, the events they   *)
(* emit, and whether a Cancel found its order.                             *)
(***************************************************************************)
EXTENDS Wal, FiniteSets

CONSTANTS Commands,     \* the commands clients send; one stands for its ReqID too
          NoReq,        \* the zero ReqID of a CmdEnd record
          Evs,          \* what an event says: its type and its fields
          Rejected,     \* the event a refused command gets
          EvCmdEnd,     \* the event type of a CmdEnd record
          Valid(_),     \* the checks the actor makes before it touches the book
          Books,        \* the books there can be
          Book0,        \* the book BookFactory returns
          Apply(_, _),  \* see above: [book, evs, found]
          BatchMax,     \* ActorConfig.BatchMax
          MailboxSize,  \* ActorConfig.MailboxSize
          MaxCmds,      \* bound on the number of commands accepted
          MaxFaults,    \* bound on stops, crashes and write errors together
          Faults        \* which faults happen, of FaultKinds

FaultKinds == {"stop", "crash", "torn", "power", "io"}

ASSUME EventsAssumption == Rejected \in Evs /\ EvCmdEnd \notin Evs /\ NoReq \notin Commands
ASSUME BookAssumption ==
  /\ Book0 \in Books
  /\ \A b \in Books, c \in Commands :
       /\ Apply(b, c) \in [book : Books, evs : Seq(Evs), found : BOOLEAN]
       /\ Apply(b, c).evs # <<>>
ASSUME ValidAssumption == \A c \in Commands : Valid(c) \in BOOLEAN
ASSUME BoundsAssumption ==
  /\ BatchMax \in Nat \ {0} /\ MailboxSize \in Nat \ {0}
  /\ MaxCmds \in Nat /\ MaxFaults \in Nat
ASSUME FaultsAssumption == Faults \subseteq FaultKinds

VARIABLES
  cmdFile,   \* cmd.wal on disk
  cmdBuf,    \* its writer's buffer
  evFile,    \* ev.wal on disk
  evBuf,     \* its writer's buffer
  cursor,    \* the ev.cursor file, as a number of records
  pc,        \* where the actor, or the recovery in front of it, is
  mailbox,   \* the channel SymbolActor.in
  batch,     \* the commands of the batch that are not applied yet
  seq,       \* SymbolActor.seq
  book,      \* SymbolActor.book
  ri,        \* recovery: number of cmd.wal records replayed
  complete,  \* recovery: lastCompleteSeq
  pub,       \* the publisher: "off", "starting", "on", "blind" (file closed, buffer
             \* not empty), "dead" (nothing left to read)
  rd,        \* records its reader has read
  held,      \* blind: records up to which the closed reader's buffer reaches
  off,       \* the offset it would commit
  lastPub,   \* history: seq of the last event of this publisher run
  out,       \* history: all events ever published
  acked,     \* history: the commands TryEnqueue accepted
  ncmd,      \* number of commands accepted so far
  nfault     \* number of faults so far

disk  == <<cmdFile, cmdBuf, evFile, evBuf>>
actor == <<pc, mailbox, batch, seq, book>>
recov == <<ri, complete>>
pubv  == <<pub, rd, held, off, lastPub>>
hist  == <<out, acked, ncmd, nfault>>
vars  == <<disk, cursor, actor, recov, pubv, hist>>

CmdRec == [seq : Nat, cmd : Commands]
Event  == [seq : Nat, idx : Nat, req : Commands, ev : Evs]
EndRec == [seq : Nat, idx : {0}, req : {NoReq}, ev : {EvCmdEnd}]
EvRec  == Event \cup EndRec

CmdEnd(s) == [seq |-> s, idx |-> 0, req |-> NoReq, ev |-> EvCmdEnd]
IsEnd(r) == r.ev = EvCmdEnd

\* outboxEmitter: the events of command c under number s, indexed from 0.
Stamped(s, c, evs) ==
  [k \in 1..Len(evs) |-> [seq |-> s, idx |-> k - 1, req |-> c, ev |-> evs[k]]]

Init ==
  /\ cmdFile = EmptyFile /\ cmdBuf = <<>>
  /\ evFile = EmptyFile /\ evBuf = <<>>
  /\ cursor = 0
  /\ pc = "down"
  /\ mailbox = <<>> /\ batch = <<>> /\ seq = 0 /\ book = Book0
  /\ ri = 0 /\ complete = 0
  /\ pub = "off" /\ rd = 0 /\ held = 0 /\ off = 0 /\ lastPub = 0
  /\ out = {} /\ acked = {} /\ ncmd = 0 /\ nfault = 0

-----------------------------------------------------------------------------
(* Recovery: getOrCreateActor *)

Ends(f) == {k \in 1..Len(f.recs) : IsEnd(f.recs[k])}
LastEnd(f) == CHOOSE k \in Ends(f) : \A j \in Ends(f) : j <= k

\* ScanAndRepairOutbox: cut behind the last CmdEnd, if there is one.
Repaired(f) == IF Ends(f) = {} THEN f ELSE TruncatedTo(f, LastEnd(f))

\* Mutants of CompleteSeq: any record counts as complete; nothing does.
CompleteSeqAnyRecord(f) == IF f.recs = <<>> THEN 0 ELSE f.recs[Len(f.recs)].seq
CompleteSeqForgets(f) == 0

CompleteSeq(f) == IF Ends(f) = {} THEN 0 ELSE f.recs[LastEnd(f)].seq

\* A scan that fails leaves the symbol closed: the action is disabled.
Open ==
  /\ pc = "down"
  /\ ReaderOk(evFile)
  /\ evFile' = Repaired(evFile)
  /\ complete' = CompleteSeq(evFile)
  /\ pc' = "replay" /\ ri' = 0 /\ seq' = 0 /\ book' = Book0
  /\ UNCHANGED <<cmdFile, cmdBuf, evBuf, cursor, mailbox, batch, pubv, hist>>

\* Mutant of ReplayEvents: the events of the command on an empty book.
ReplayEventsEmptyBook(r) ==
  Stamped(r.seq, r.cmd, Apply(Book0, r.cmd).evs) \o <<CmdEnd(r.seq)>>

\* applyCommandToBook: no validation; events only for seq > lastCompleteSeq.
ReplayEvents(r) == Stamped(r.seq, r.cmd, Apply(book, r.cmd).evs) \o <<CmdEnd(r.seq)>>

\* Mutant of ReplayRecord: commands the outbox has answered are not applied.
ReplayRecordSkips ==
  /\ pc = "replay"
  /\ ri < Readable(cmdFile)
  /\ LET r == cmdFile.recs[ri + 1]
     IN  /\ book' = IF r.seq <= complete THEN book ELSE Apply(book, r.cmd).book
         /\ evBuf' = IF r.seq <= complete THEN evBuf ELSE evBuf \o ReplayEvents(r)
         /\ seq' = IF r.seq > seq THEN r.seq ELSE seq
  /\ ri' = ri + 1
  /\ UNCHANGED <<cmdFile, cmdBuf, evFile, cursor, pc, mailbox, batch, complete, pubv, hist>>

ReplayRecord ==
  /\ pc = "replay"
  /\ ri < Readable(cmdFile)
  /\ LET r == cmdFile.recs[ri + 1]
     IN  /\ book' = Apply(book, r.cmd).book
         /\ evBuf' = IF r.seq <= complete THEN evBuf ELSE evBuf \o ReplayEvents(r)
         /\ seq' = IF r.seq > seq THEN r.seq ELSE seq
  /\ ri' = ri + 1
  /\ UNCHANGED <<cmdFile, cmdBuf, evFile, cursor, pc, mailbox, batch, complete, pubv, hist>>

\* Replay returned an error: the outbox writer is closed, which flushes it.
ReplayFails ==
  /\ pc = "replay"
  /\ ri = Readable(cmdFile) /\ ~ReplayOk(cmdFile)
  /\ evFile' = Flushed(evFile, evBuf) /\ evBuf' = <<>>
  /\ pc' = "down"
  /\ UNCHANGED <<cmdFile, cmdBuf, cursor, mailbox, batch, seq, book, recov, pubv, hist>>

\* Flush the outbox, start the actor and the publisher.
Start ==
  /\ pc = "replay"
  /\ ri = Readable(cmdFile) /\ ReplayOk(cmdFile)
  /\ evFile' = Flushed(evFile, evBuf) /\ evBuf' = <<>>
  /\ pc' = "idle"
  /\ pub' = "starting"
  /\ UNCHANGED <<cmdFile, cmdBuf, cursor, mailbox, batch, seq, book, recov, rd, held, off, lastPub, hist>>

-----------------------------------------------------------------------------
(* Clients: TrySubmit / TryCancel *)

\* The actor stays registered when its goroutine has returned ("dead").
Serving == pc \notin {"down", "replay"}

TryEnqueue(c) ==
  /\ Serving
  /\ ncmd < MaxCmds
  /\ Len(mailbox) < MailboxSize
  /\ mailbox' = Append(mailbox, c)
  /\ acked' = acked \cup {c}
  /\ ncmd' = ncmd + 1
  /\ UNCHANGED <<disk, cursor, pc, batch, seq, book, recov, pubv, out, nfault>>

-----------------------------------------------------------------------------
(* The actor *)

\* Take what is in the mailbox, at most BatchMax, number it, append it to cmd.wal.
TakeBatch ==
  /\ pc = "idle"
  /\ mailbox # <<>>
  /\ LET n == IF Len(mailbox) < BatchMax THEN Len(mailbox) ELSE BatchMax
     IN  /\ batch' = [k \in 1..n |-> [seq |-> seq + k, cmd |-> mailbox[k]]]
         /\ seq' = seq + n
         /\ mailbox' = SubSeq(mailbox, n + 1, Len(mailbox))
  /\ cmdBuf' = batch'
  /\ pc' = "log"
  /\ UNCHANGED <<cmdFile, evFile, evBuf, cursor, book, recov, pubv, hist>>

\* Mutant of FlushCmd: the batch is applied before it is in cmd.wal.
FlushCmdSkipped ==
  /\ pc = "log"
  /\ pc' = "apply"
  /\ UNCHANGED <<cmdFile, cmdBuf, evFile, evBuf, cursor, mailbox, batch, seq, book, recov, pubv, hist>>

FlushCmd ==
  /\ pc = "log"
  /\ cmdFile' = Flushed(cmdFile, cmdBuf) /\ cmdBuf' = <<>>
  /\ pc' = "apply"
  /\ UNCHANGED <<evFile, evBuf, cursor, mailbox, batch, seq, book, recov, pubv, hist>>

\* Phase 2 for one command.  A refused command gets its Rejected and no CmdEnd;
\* a Cancel that finds nothing is rejected by the adapter and by the actor.
LiveEvents(r) ==
  LET a == Apply(book, r.cmd)
  IN  IF ~Valid(r.cmd) THEN Stamped(r.seq, r.cmd, <<Rejected>>)
      ELSE Stamped(r.seq, r.cmd, IF a.found THEN a.evs ELSE a.evs \o <<Rejected>>)
             \o <<CmdEnd(r.seq)>>

ApplyCmd ==
  /\ pc = "apply"
  /\ batch # <<>>
  /\ LET r == Head(batch)
     IN  /\ book' = IF Valid(r.cmd) THEN Apply(book, r.cmd).book ELSE book
         /\ evBuf' = evBuf \o LiveEvents(r)
  /\ batch' = Tail(batch)
  /\ UNCHANGED <<cmdFile, cmdBuf, evFile, cursor, pc, mailbox, seq, recov, pubv, hist>>

FlushEv ==
  /\ pc = "apply"
  /\ batch = <<>>
  /\ evFile' = Flushed(evFile, evBuf) /\ evBuf' = <<>>
  /\ pc' = "idle"
  /\ UNCHANGED <<cmdFile, cmdBuf, cursor, mailbox, batch, seq, book, recov, pubv, hist>>

\* The outbox buffer overflows, or its Flush has written but not yet synced:
\* the publisher can already read these records.
SpillEv ==
  /\ evBuf # <<>>
  /\ \E k \in 1..Len(evBuf) :
       /\ evFile' = Write(evFile, Prefix(evBuf, k), "clean")
       /\ evBuf' = SubSeq(evBuf, k + 1, Len(evBuf))
  /\ UNCHANGED <<cmdFile, cmdBuf, cursor, actor, recov, pubv, hist>>

-----------------------------------------------------------------------------
(* The publisher *)

\* Load the cursor; one that lies behind the end of the file is moved back to it.
PubStart ==
  /\ pub = "starting"
  /\ cursor' = IF cursor > Len(evFile.recs) THEN Len(evFile.recs) ELSE cursor
  /\ pub' = "on" /\ rd' = cursor' /\ off' = cursor' /\ lastPub' = 0
  /\ UNCHANGED <<disk, actor, recov, held, hist>>

Reading == pub \in {"on", "blind"}

\* How far Next can deliver: to the end of the file or a gap in it, or, once the
\* file is closed, to the end of what the reader's buffer holds.
Deliverable == IF pub = "blind" THEN held ELSE Readable(evFile)

\* Mutant of PublishEvent: the cursor moves with every event.
PublishEventCommits ==
  /\ Reading
  /\ rd < Deliverable
  /\ ~IsEnd(evFile.recs[rd + 1])
  /\ out' = out \cup {evFile.recs[rd + 1]}
  /\ lastPub' = evFile.recs[rd + 1].seq
  /\ rd' = rd + 1 /\ off' = rd + 1 /\ cursor' = rd + 1
  /\ UNCHANGED <<disk, actor, recov, pub, held, acked, ncmd, nfault>>

\* A blind reader's offset has not counted the record that was lost.
PublishEvent ==
  /\ Reading
  /\ rd < Deliverable
  /\ ~IsEnd(evFile.recs[rd + 1])
  /\ out' = out \cup {evFile.recs[rd + 1]}
  /\ lastPub' = evFile.recs[rd + 1].seq
  /\ rd' = rd + 1
  /\ off' = IF pub = "blind" THEN rd ELSE rd + 1
  /\ UNCHANGED <<disk, cursor, actor, recov, pub, held, acked, ncmd, nfault>>

\* CmdEnd is not published; the offset in front of it goes to the cursor file.
CommitCursor ==
  /\ Reading
  /\ rd < Deliverable
  /\ IsEnd(evFile.recs[rd + 1])
  /\ cursor' = off
  /\ rd' = rd + 1
  /\ UNCHANGED <<disk, actor, recov, pub, held, off, lastPub, hist>>

\* Next returns the error of a gap and Run closes the file and sets its offset
\* back, but goes on calling Next on the same reader, which delivers what its
\* buffer holds.  The gap is a bare header that Open has left in an outbox without
\* a CmdEnd: it takes most of the record behind it for its payload (a checksum
\* mismatch), and the rest, a quantity of 0, for the header of an empty record (a
\* decode error).  The cursor has not moved since PubStart: no CmdEnd lies in front.
ReaderStumbles ==
  /\ pub = "on"
  /\ rd = Readable(evFile)
  /\ rd < Len(evFile.recs)
  /\ held' \in (rd + 1)..Len(evFile.recs)
  /\ pub' = "blind" /\ rd' = rd + 1 /\ off' = cursor
  /\ UNCHANGED <<disk, cursor, actor, recov, lastPub, hist>>

\* Mutant of ReaderCloses: the reader gives up with records left.
ReaderClosesEarly ==
  /\ Reading
  /\ pub' = "dead"
  /\ UNCHANGED <<disk, cursor, actor, recov, rd, held, off, lastPub, hist>>

\* Next returns io.EOF or an error with nothing behind it in the buffer: Run closes
\* the file and goes on calling Next, which fails from then on.
ReaderCloses ==
  /\ Reading
  /\ rd = Deliverable
  /\ pub' = "dead"
  /\ UNCHANGED <<disk, cursor, actor, recov, rd, held, off, lastPub, hist>>

-----------------------------------------------------------------------------
(* Faults *)

Halt ==
  /\ pc' = "down"
  /\ mailbox' = <<>> /\ batch' = <<>> /\ cmdBuf' = <<>> /\ evBuf' = <<>>
  /\ pub' = "off"
  /\ nfault' = nfault + 1
  /\ UNCHANGED <<seq, book, recov, rd, held, off, lastPub, out, acked, ncmd>>

\* Engine.Stop: the actor returns at its select and closes both logs (their
\* buffers are empty there); what is still in the mailbox is lost.
Stop ==
  /\ "stop" \in Faults /\ nfault < MaxFaults
  /\ pc \in {"idle", "dead"}
  /\ Halt
  /\ UNCHANGED <<cmdFile, evFile, cursor>>

\* The process is killed: some prefix of each buffer has reached its file.
Crash ==
  /\ "crash" \in Faults /\ nfault < MaxFaults
  /\ cmdFile' \in PartialWrites(cmdFile, cmdBuf, "torn" \in Faults)
  /\ evFile' \in PartialWrites(evFile, evBuf, "torn" \in Faults)
  /\ Halt
  /\ UNCHANGED cursor

\* The machine loses power.  The cursor file is renamed into place without an
\* fsync: an earlier one, or an empty one (offset 0), may be what is left.
PowerLoss ==
  /\ "power" \in Faults /\ nfault < MaxFaults
  /\ \E f \in PartialWrites(cmdFile, cmdBuf, FALSE) : cmdFile' \in PowerCuts(f, "torn" \in Faults)
  /\ \E f \in PartialWrites(evFile, evBuf, FALSE) : evFile' \in PowerCuts(f, "torn" \in Faults)
  /\ cursor' \in {cursor} \cup {0} \cup
       {k \in 1..cursor : k < Len(evFile.recs) /\ IsEnd(evFile.recs[k + 1])}
  /\ Halt

\* A write to cmd.wal (phase 1) or to ev.wal (phase 2) fails: Run returns, its
\* mailbox stays open.
WriteFails ==
  /\ "io" \in Faults /\ nfault < MaxFaults
  /\ \/ /\ pc = "log"
        /\ cmdFile' \in PartialWrites(cmdFile, cmdBuf, "torn" \in Faults)
        /\ UNCHANGED evFile
     \/ /\ pc = "apply"
        /\ evFile' \in PartialWrites(evFile, evBuf, "torn" \in Faults)
        /\ UNCHANGED cmdFile
  /\ pc' = "dead"
  /\ batch' = <<>> /\ cmdBuf' = <<>> /\ evBuf' = <<>>
  /\ nfault' = nfault + 1
  /\ UNCHANGED <<cursor, mailbox, seq, book, recov, pubv, out, acked, ncmd>>

\* A write to ev.wal fails while the recovery fills it: the symbol stays closed.
FillFails ==
  /\ "io" \in Faults /\ nfault < MaxFaults
  /\ pc = "replay" /\ evBuf # <<>>
  /\ evFile' \in PartialWrites(evFile, evBuf, "torn" \in Faults)
  /\ evBuf' = <<>>
  /\ pc' = "down"
  /\ nfault' = nfault + 1
  /\ UNCHANGED <<cmdFile, cmdBuf, cursor, mailbox, batch, seq, book, recov, pubv, out, acked, ncmd>>

-----------------------------------------------------------------------------
Recovery  == Open \/ ReplayRecord \/ ReplayFails \/ Start
Actor     == TakeBatch \/ FlushCmd \/ ApplyCmd \/ FlushEv
Publisher == PubStart \/ PublishEvent \/ CommitCursor \/ ReaderStumbles \/ ReaderCloses

Next ==
  \/ Open \/ ReplayRecord \/ ReplayFails \/ Start
  \/ \E c \in Commands : TryEnqueue(c)
  \/ TakeBatch \/ FlushCmd \/ ApplyCmd \/ FlushEv \/ SpillEv
  \/ PubStart \/ PublishEvent \/ CommitCursor \/ ReaderStumbles \/ ReaderCloses
  \/ Stop \/ Crash \/ PowerLoss \/ WriteFails \/ FillFails

Spec == Init /\ [][Next]_vars

\* The three goroutines are scheduled, fsync and the bus's consumer return, and
\* clients keep calling TrySubmit, which reopens the symbol after a restart.
FairSpec == Spec /\ WF_vars(Recovery) /\ WF_vars(Actor) /\ WF_vars(Publisher)

-----------------------------------------------------------------------------
EventsIn(recs) == {recs[k] : k \in {j \in 1..Len(recs) : ~IsEnd(recs[j])}}
AllEvents == out \cup EventsIn(evFile.recs) \cup EventsIn(evBuf)

TypeOK ==
  /\ IsFile(cmdFile, CmdRec) /\ cmdBuf \in Seq(CmdRec)
  /\ IsFile(evFile, EvRec) /\ evBuf \in Seq(EvRec)
  /\ cursor \in Nat
  /\ pc \in {"down", "replay", "idle", "log", "apply", "dead"}
  /\ mailbox \in Seq(Commands) /\ batch \in Seq(CmdRec)
  /\ seq \in Nat
  /\ ri \in Nat /\ complete \in Nat
  /\ pub \in {"off", "starting", "on", "blind", "dead"}
  /\ rd \in Nat /\ held \in Nat /\ off \in Nat /\ lastPub \in Nat
  /\ out \subseteq Event /\ acked \subseteq Commands
  /\ ncmd \in Nat /\ nfault \in Nat

\* Write-ahead: every event, in the outbox, in its buffer or already published,
\* is about a command that cmd.wal holds under the event's number - also when the
\* process was killed in the middle of a batch or of a recovery, when writes failed,
\* and when numbers were used again behind a torn header.
EventsHaveCommands ==
  \A e \in AllEvents : \E k \in 1..Len(cmdFile.recs) :
    cmdFile.recs[k].seq = e.seq /\ cmdFile.recs[k].cmd = e.req

\* A one-byte tear of cmd.wal that later appends have buried hides the records
\* behind it from the replay, which takes it for the end of the log: they are
\* dropped and their numbers used again.  From there on only the write-ahead
\* property and the publisher's promise hold.
NoneHidden == ~Hides(cmdFile)

\* The publisher never skips: whatever lies in front of the stored cursor has
\* been published, although the recovery may cut the outbox and write it again -
\* unless a bare header lies buried in the outbox.
NothingSkipped ==
  evFile.gap = NoGap =>
    /\ cursor <= Len(evFile.recs)
    /\ \A k \in 1..cursor : IsEnd(evFile.recs[k]) \/ evFile.recs[k] \in out

\* When the actor waits for work, every command of cmd.wal has a result in the
\* outbox: what a crash cut off was filled in by the replay.
CompleteAtRest ==
  pc = "idle" /\ NoneHidden =>
    \A s \in 1..Len(cmdFile.recs) : \E e \in EventsIn(evFile.recs) : e.seq = s

\* The actor has refused none of the logged commands.  The replay applies a
\* refused one to the book, and answers it and its successors again, so the next
\* three hold only up to there.
LoggedValid == \A k \in 1..Len(cmdFile.recs) : Valid(cmdFile.recs[k].cmd)

\* One publisher run sends events in the order of their commands, as long as no
\* command in cmd.wal was refused or is hidden.
PublishedInOrder ==
  [][LoggedValid /\ NoneHidden /\ Reading /\ Reading' => lastPub' >= lastPub]_vars

\* Event k of a command is the same event however often it is sent, as long as no
\* command in cmd.wal was refused or is hidden.
ResultsAgree ==
  LoggedValid /\ NoneHidden => \A e, f \in out : e.seq = f.seq /\ e.idx = f.idx => e = f

\* The book behind the first k commands of cmd.wal.
Replayed[k \in 0..Len(cmdFile.recs)] ==
  IF k = 0 THEN Book0 ELSE Apply(Replayed[k - 1], cmdFile.recs[k].cmd).book

\* Replaying cmd.wal rebuilds the book the actor works on, as long as no command
\* in it was refused or is hidden.
BookIsReplay == pc = "idle" /\ LoggedValid /\ NoneHidden =>
  book = Replayed[Len(cmdFile.recs)]

\* The detailed system implements the abstract event feed.
Feed == INSTANCE EventFeed WITH log <- cmdFile.recs, hidden <- Hides(cmdFile)
ImplementsFeed == Feed!Spec

\* A command in cmd.wal is eventually answered in the outbox, unless a power
\* failure takes it out of cmd.wal again (only fsynced commands are promised) or
\* leaves a tear that keeps the symbol from opening or hides commands.
LoggedIsAnswered ==
  \A s \in 1..MaxCmds :
    Len(cmdFile.recs) >= s ~>
      \/ \E e \in EventsIn(evFile.recs) : e.seq = s
      \/ Len(cmdFile.recs) < s
      \/ ~ReaderOk(evFile) \/ ~ReplayOk(cmdFile) \/ Hides(cmdFile)

\* A publisher works through everything the outbox holds before it stops reading,
\* unless the process ends first or a tear is buried in the outbox.
BacklogIsPublished ==
  pub = "on" ~> (pub = "off" \/ rd = Len(evFile.recs) \/ evFile.gap # NoGap)

-----------------------------------------------------------------------------
(* What a comment says, where the code does otherwise. *)

\* The comment on Command: an accepted command is answered by an event.
AckedIsReported ==
  \A c \in Commands : c \in acked ~> \E e \in out : e.req = c
=============================================================================
