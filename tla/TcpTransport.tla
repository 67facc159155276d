---------------------------- MODULE TcpTransport ----------------------------
(***************************************************************************)
(* The TCP transport: ShellAppMain() listens for one connection and waits  *)
(* for a key, and the notification of the accepted connection receives     *)
(* until the peer closes it and saves what came to Download.bin.  The i-th *)
(* byte of the peer's stream is the number i, and 0 is a byte that is not  *)
(* of the stream.                                                          *)
(***************************************************************************)
EXTENDS Naturals, Sequences, SequencesExt

CONSTANTS RX_FRAGMENT_SIZE,
          Step,         \* SIZE_8MB, by which the data buffer grows
          MaxSent,      \* bytes that the peer sends
          OldFile       \* length of the Download.bin that is there at the start

ASSUME SizesAssumption ==
    /\ RX_FRAGMENT_SIZE \in Nat \ {0} /\ Step \in Nat /\ RX_FRAGMENT_SIZE <= Step
    /\ MaxSent \in Nat /\ OldFile \in Nat

VARIABLES
    pc,                 \* of ShellAppMain(): configure, mapping, accept, wait or gone
    key,                \* a key was pressed
    accept,             \* mAcceptToken: none, pending or done
    peer,               \* absent, open, or how it ended the connection: fin or reset
    sent, taken,        \* bytes that the peer sent, and that receive tokens took
    notify,             \* in the notification: idle, receive, poll, append or save
    IsRxDone,
    token,              \* mReceiveToken: the completion status and FragmentLength
    FragmentBuffer,
    AllocateLength, TotalDataNumber,
    DataBuffer,         \* its bytes as far as they were written
    Buffer,             \* *Buffer and *BufferSize: what is behind the pointer, and the size
    file,               \* Download.bin, << >> also if there is none
    result,             \* of the save: none, failed or completed
    wild                \* code of the program ran after it ended

network == << accept, peer, sent, taken >>
receiver == << IsRxDone, token, FragmentBuffer, AllocateLength, TotalDataNumber, DataBuffer, Buffer >>
vars == << pc, key, network, notify, receiver, file, result, wild >>

Zeros(n) == [i \in 1..n |-> 0]
NoBuffer == [memory |-> "NULL", size |-> 0]

Init ==
    /\ pc = "configure" /\ key = FALSE
    /\ accept = "none" /\ peer = "absent" /\ sent = 0 /\ taken = 0
    /\ notify = "idle"
    /\ IsRxDone = FALSE
    /\ token = [Status |-> "SUCCESS", FragmentLength |-> 0]
    /\ FragmentBuffer = Zeros(RX_FRAGMENT_SIZE)
    /\ AllocateLength = 0 /\ TotalDataNumber = 0
    /\ DataBuffer = << >> /\ Buffer = NoBuffer
    /\ file = Zeros(OldFile)
    /\ result = "none" /\ wild = FALSE

-----------------------------------------------------------------------------
(* ShellAppMain.                                                            *)

Ends == pc' = "gone"

\* Up to Configure(), which succeeds, has no address yet, or fails; earlier
\* failures return as well.
Configure ==
    /\ pc = "configure"
    /\ pc' \in {"accept", "mapping", "gone"}
    /\ UNCHANGED << key, network, notify, receiver, file, result, wild >>

\* GetModeData() says that the address is configured.  The status of the second
\* Configure() is not looked at.
GetModeData ==
    /\ pc = "mapping"
    /\ pc' = "accept"
    /\ UNCHANGED << key, network, notify, receiver, file, result, wild >>

Accept ==
    /\ pc = "accept"
    /\ \/ pc' = "wait" /\ accept' = "pending"
       \/ Ends /\ UNCHANGED accept
    /\ UNCHANGED << key, peer, sent, taken, notify, receiver, file, result, wild >>

PressKey ==
    /\ pc # "gone" /\ ~key
    /\ key' = TRUE
    /\ UNCHANGED << pc, network, notify, receiver, file, result, wild >>

\* WaitForEvent() runs on only when no notification runs; mFinishedEvent is
\* never signalled.  The token, the events and the child handle are left behind.
KeyEndsWait ==
    /\ pc = "wait" /\ key /\ notify = "idle"
    /\ Ends
    /\ UNCHANGED << key, network, notify, receiver, file, result, wild >>

-----------------------------------------------------------------------------
(* The peer and the TCP driver.                                             *)

Connect ==
    /\ pc \in {"wait", "gone"} /\ accept = "pending" /\ peer = "absent"
    /\ peer' = "open"
    /\ UNCHANGED << pc, key, accept, sent, taken, notify, receiver, file, result, wild >>

Send ==
    /\ peer = "open" /\ sent < MaxSent
    /\ sent' = sent + 1
    /\ UNCHANGED << pc, key, accept, peer, taken, notify, receiver, file, result, wild >>

Close ==
    /\ peer = "open"
    /\ peer' \in {"fin", "reset"}
    /\ UNCHANGED << pc, key, accept, sent, taken, notify, receiver, file, result, wild >>

\* After a reset the bytes that were not taken are lost.
Available == IF peer = "reset" THEN 0 ELSE sent - taken

\* The driver writes what it has of at most the fragment's length into the
\* buffer, or reports the end of the connection, and signals the event:
\* CommonNotify() runs.
CommonNotify(n) ==
    /\ notify = "poll" /\ ~IsRxDone
    /\ n <= Available /\ n <= token.FragmentLength
    /\ n = 0 => Available = 0 /\ peer \in {"fin", "reset"}
    /\ IsRxDone' = TRUE
    /\ token' = IF n = 0 THEN [token EXCEPT !.Status = "CONNECTION_FIN"]
                ELSE [Status |-> "SUCCESS", FragmentLength |-> n]
    /\ FragmentBuffer' = [i \in DOMAIN FragmentBuffer |-> IF i <= n THEN taken + i ELSE FragmentBuffer[i]]
    /\ taken' = taken + n
    /\ UNCHANGED << pc, key, accept, peer, sent, notify, AllocateLength, TotalDataNumber, DataBuffer,
                    Buffer, file, result, wild >>

-----------------------------------------------------------------------------
(* ConnectionAccepted() and TcpDataReceive().                               *)

\* The completion carries an error, the connection cannot be opened, or there is
\* no memory for the fragment; only the last goes on, to save nothing.
ConnectionAccepted ==
    /\ pc = "wait" /\ accept = "pending" /\ peer # "absent"
    /\ accept' = "done"
    /\ notify' \in {"receive", "save", "idle"}
    /\ UNCHANGED << pc, key, peer, sent, taken, receiver, file, result, wild >>

AcceptedAfterEnd ==
    /\ pc = "gone" /\ accept = "pending" /\ peer # "absent"
    /\ wild' = TRUE
    /\ UNCHANGED << pc, key, network, notify, receiver, file, result >>

\* Receive() queues the token, or fails, for lack of memory or because the
\* connection is gone: the loop ends, whatever is still to come.
Receive ==
    /\ notify = "receive"
    /\ IsRxDone' = FALSE
    /\ token' = [token EXCEPT !.FragmentLength = RX_FRAGMENT_SIZE]
    /\ notify' \in {"poll", "save"}
    /\ UNCHANGED << pc, key, network, FragmentBuffer, AllocateLength, TotalDataNumber, DataBuffer,
                    Buffer, file, result, wild >>

Completed_ErrorsIgnored ==
    /\ notify = "poll" /\ IsRxDone
    /\ notify' = IF token.Status = "SUCCESS" THEN "append" ELSE "receive"
    /\ UNCHANGED << pc, key, network, receiver, file, result, wild >>

\* The loop that polls ends.
Completed ==
    /\ notify = "poll" /\ IsRxDone
    /\ notify' = IF token.Status = "SUCCESS" THEN "append" ELSE "save"
    /\ UNCHANGED << pc, key, network, receiver, file, result, wild >>

MustGrow_WithoutFragment == AllocateLength < TotalDataNumber \/ AllocateLength = 0

MustGrow == AllocateLength < TotalDataNumber + token.FragmentLength

AppendData ==
    /\ notify = "append"
    /\ AllocateLength' = IF MustGrow THEN AllocateLength + Step ELSE AllocateLength
    /\ DataBuffer' = DataBuffer \o SubSeq(FragmentBuffer, 1, token.FragmentLength)
    /\ TotalDataNumber' = TotalDataNumber + token.FragmentLength
    /\ Buffer' = [memory |-> "data", size |-> TotalDataNumber']
    /\ notify' = "receive"
    /\ UNCHANGED << pc, key, network, IsRxDone, token, FragmentBuffer, file, result, wild >>

\* The old buffer is freed, *Buffer and *BufferSize still name it, and
\* ConnectionAccepted() does not look at the status.
CannotGrow ==
    /\ notify = "append" /\ MustGrow
    /\ AllocateLength' = AllocateLength + Step
    /\ Buffer' = [Buffer EXCEPT !.memory = IF @ = "data" THEN "freed" ELSE @]
    /\ notify' = "save"
    /\ UNCHANGED << pc, key, network, IsRxDone, token, FragmentBuffer, TotalDataNumber, DataBuffer,
                    file, result, wild >>

\* A write of data to the start of a file.
Over(old, data) == data \o SubSeq(old, Len(data) + 1, Len(old))

\* SaveFileToDisk().  A file that cannot be deleted is opened and written over;
\* a write that fails leaves a part of the data.
SaveFileToDisk(deleted, outcome) ==
    LET data == IF Buffer.memory = "freed" THEN Zeros(Buffer.size) ELSE SubSeq(DataBuffer, 1, Buffer.size)
        kept == IF deleted THEN << >> ELSE file
    IN  /\ notify = "save"
        /\ notify' = "idle"
        /\ result' = IF outcome = "written" THEN "completed" ELSE "failed"
        /\ file' = CASE outcome = "written" -> Over(kept, data)
                     [] outcome = "cut" -> Over(kept, SubSeq(data, 1, Len(data) \div 2))
                     [] outcome = "not opened" -> kept
        /\ UNCHANGED << pc, key, network, receiver, wild >>

Notification ==
    \/ ConnectionAccepted
    \/ Receive
    \/ Completed
    \/ AppendData
    \/ CannotGrow
    \/ \E deleted \in BOOLEAN, outcome \in {"written", "cut", "not opened"} : SaveFileToDisk(deleted, outcome)

Delivery == \E n \in 0..RX_FRAGMENT_SIZE : CommonNotify(n)

Next ==
    /\ ~wild
    /\ \/ Configure \/ GetModeData \/ Accept \/ PressKey \/ KeyEndsWait
       \/ Connect \/ Send \/ Close
       \/ Delivery
       \/ AcceptedAfterEnd
       \/ Notification

\* The program runs, and the driver completes a token once it can.  The peer
\* owes nothing.
Fairness ==
    /\ WF_vars(~wild /\ Notification)
    /\ WF_vars(~wild /\ Delivery)
    /\ WF_vars(~wild /\ KeyEndsWait)

Spec == Init /\ [][Next]_vars /\ Fairness

-----------------------------------------------------------------------------
(* Properties.                                                              *)

Stream(n) == [i \in 1..n |-> i]

\* A save that is reported as completed holds the bytes that were taken, all of
\* them and in order, with nothing of an older file behind them if that could be
\* deleted.  It is the peer's whole stream if the peer closed properly and the
\* loop ended with that close; when Receive() failed (119-122) it is the part that
\* was taken before, reported as completed all the same.  The stream is cut into
\* fragments as it happens to arrive, the fragment buffer is used again and again,
\* and the data buffer is replaced as it grows.  Memory that ran out for the data
\* buffer is the exception: the transport saves what it has freed.
EndedByToken == IsRxDone

MemoryLasted == Buffer.memory # "freed" /\ (notify = "idle" => TotalDataNumber = taken)

SavedIsSent ==
    /\ TotalDataNumber <= AllocateLength
    /\ Buffer.memory = "data" => Buffer.size = TotalDataNumber /\ DataBuffer = Stream(TotalDataNumber)
    /\ result = "completed" /\ MemoryLasted =>
         /\ IsPrefix(Stream(taken), file)
         /\ Len(file) > taken => Len(file) = OldFile
         /\ peer = "fin" /\ EndedByToken /\ AllocateLength > 0 => taken = sent

\* A connection that the peer closes, at any moment and after any pause, is
\* brought to the disk or to an error, and then a key ends the program.  While
\* the peer keeps the connection open no key need do so (KeyQuits).
ClosedIsSaved ==
    /\ (notify # "idle" /\ peer \in {"fin", "reset"}) ~> (notify = "idle" /\ result # "none")
    /\ (key /\ pc = "wait") ~> (pc = "gone" \/ peer = "open")
    /\ (key /\ pc = "wait" /\ peer \in {"fin", "reset"}) ~> (pc = "gone")

\* "Press any key to quit." (444): once the program waits, a key ends it.
KeyQuits == (key /\ pc = "wait") ~> (pc = "gone")

=============================================================================
