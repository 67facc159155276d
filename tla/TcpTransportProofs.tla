------------------------- MODULE TcpTransportProofs -------------------------
(***************************************************************************)
(* What the TCP transport saves is what came, for every size of the        *)
(* fragment buffer, every step of the data buffer and every length of the  *)
(* stream: the inductive invariant that relates the fragment that has come *)
(* and is not appended yet, the data buffer and the file.                  *)
(***************************************************************************)
EXTENDS TcpTransport, SequenceTheorems, TLAPS

-----------------------------------------------------------------------------
(* The inductive invariant.                                                 *)

\* The fragment has come, and its bytes are not in the data buffer yet.
Pending ==
    \/ notify = "append"
    \/ notify = "poll" /\ IsRxDone /\ token.Status = "SUCCESS"

\* A receive token ended without data.
AtEnd == notify = "poll" /\ IsRxDone /\ token.Status # "SUCCESS"

\* The notification has left the loop that receives.
Left == notify = "save" \/ (notify = "idle" /\ accept = "done")

TypeOK ==
    /\ accept \in {"none", "pending", "done"}
    /\ peer \in {"absent", "open", "fin", "reset"}
    /\ sent \in Nat /\ taken \in Nat /\ taken <= sent
    /\ notify \in {"idle", "receive", "poll", "append", "save"}
    /\ IsRxDone \in BOOLEAN
    /\ token \in [Status : {"SUCCESS", "CONNECTION_FIN"}, FragmentLength : 0..RX_FRAGMENT_SIZE]
    /\ FragmentBuffer \in [1..RX_FRAGMENT_SIZE -> Nat]
    /\ AllocateLength \in Nat /\ TotalDataNumber \in Nat
    /\ Buffer \in [memory : {"NULL", "data", "freed"}, size : Nat]
    /\ result \in {"none", "failed", "completed"}

\* One connection is accepted, and saved once.
OrderInv ==
    /\ notify # "idle" => accept = "done" /\ result = "none"
    /\ accept = "done" => peer # "absent"
    /\ pc \in {"configure", "mapping", "accept"} => accept = "none"
    /\ accept # "done" => result = "none"
    /\ accept # "done" => taken = 0 /\ AllocateLength = 0 /\ TotalDataNumber = 0
    /\ Buffer.memory # "freed" \/ Left

\* The bytes of the buffers are those of the stream, and each byte that was
\* taken is in one of them until the memory runs out.
StreamInv ==
    /\ TotalDataNumber <= AllocateLength
    /\ DataBuffer = Stream(TotalDataNumber)
    /\ Buffer.size = TotalDataNumber
    /\ Buffer.memory = "NULL" => TotalDataNumber = 0
    /\ Pending =>
         /\ token.FragmentLength > 0
         /\ taken = TotalDataNumber + token.FragmentLength
         /\ \A i \in 1..token.FragmentLength : FragmentBuffer[i] = TotalDataNumber + i
    /\ notify \in {"receive", "poll"} /\ ~Pending => taken = TotalDataNumber

\* All that came was appended, and the token says that no more will come.
AllCame == AtEnd \/ (Left /\ EndedByToken /\ AllocateLength > 0 /\ taken = TotalDataNumber)

\* Without an error the loop ends when the peer has closed and all is taken.
EndInv ==
    AllCame => /\ peer \in {"fin", "reset"}
               /\ peer = "fin" => taken = sent

FileInv ==
    /\ result = "none" => file = Zeros(OldFile)
    /\ result = "completed" /\ Buffer.memory # "freed" =>
         /\ IsPrefix(Stream(TotalDataNumber), file)
         /\ Len(file) > TotalDataNumber => Len(file) = OldFile

IInv == TypeOK /\ OrderInv /\ StreamInv /\ EndInv /\ FileInv

-----------------------------------------------------------------------------
(* Sequences.                                                               *)

\* Streams, and blank bytes, are sequences of their length.
LEMMA StreamIsSeq ==
    ASSUME NEW n \in Nat
    PROVE  /\ Stream(n) \in Seq(Nat) /\ Len(Stream(n)) = n
           /\ Zeros(n) \in Seq(Nat) /\ Len(Zeros(n)) = n
           /\ \A i \in 1..n : Stream(n)[i] = i
  BY DEF Stream, Zeros

\* Appending the first m bytes of a fragment that continue the stream of n bytes
\* gives the stream of n + m (AppendData).
LEMMA FragmentContinues ==
    ASSUME NEW n \in Nat, NEW k \in Nat, NEW m \in 0..k,
           NEW fragment \in [1..k -> Nat],
           \A i \in 1..m : fragment[i] = n + i
    PROVE  Stream(n) \o SubSeq(fragment, 1, m) = Stream(n + m)
<1> DEFINE tail == SubSeq(fragment, 1, m)
           whole == Stream(n) \o tail
<1>1. fragment \in Seq(Nat) /\ Len(fragment) = k
  OBVIOUS
<1>2. tail \in Seq(Nat) /\ Len(tail) = m /\ \A i \in 1..m : tail[i] = n + i
  BY <1>1
<1>3. Stream(n) \in Seq(Nat) /\ Len(Stream(n)) = n /\ \A i \in 1..n : Stream(n)[i] = i
  BY StreamIsSeq
<1> HIDE DEF tail
<1>4. /\ whole \in Seq(Nat) /\ Len(whole) = n + m
      /\ \A i \in 1..n + m : whole[i] = IF i <= n THEN Stream(n)[i] ELSE tail[i - n]
  <2>1. /\ whole \in Seq(Nat) /\ Len(whole) = Len(Stream(n)) + Len(tail)
        /\ \A i \in 1..Len(Stream(n)) + Len(tail) :
             whole[i] = IF i <= Len(Stream(n)) THEN Stream(n)[i] ELSE tail[i - Len(Stream(n))]
    BY <1>2, <1>3, ConcatProperties, Zenon
  <2>2. QED BY <2>1, <1>2, <1>3
<1> HIDE DEF whole
<1>5. \A i \in 1..n + m : whole[i] = i
  <2> SUFFICES ASSUME NEW i \in 1..n + m PROVE whole[i] = i
    OBVIOUS
  <2>1. CASE i <= n
    BY <2>1, <1>3, <1>4
  <2>2. CASE i > n
    <3>1. whole[i] = tail[i - n] /\ i - n \in 1..m
      BY <2>2, <1>4
    <3>2. tail[i - n] = n + (i - n)
      BY <3>1, <1>2
    <3>3. QED BY <3>1, <3>2
  <2>3. QED BY <2>1, <2>2
<1>6. Stream(n + m) \in Seq(Nat) /\ Len(Stream(n + m)) = n + m /\ \A i \in 1..n + m : Stream(n + m)[i] = i
  BY StreamIsSeq
<1>7. whole = Stream(n + m)
  BY <1>4, <1>5, <1>6, SeqEqual
<1>8. QED BY <1>7 DEF whole, tail

\* The whole stream that is in the data buffer (SaveFileToDisk).
LEMMA StreamItself ==
    ASSUME NEW n \in Nat
    PROVE  SubSeq(Stream(n), 1, n) = Stream(n)
<1>1. SubSeq(Stream(n), 1, n) \in Seq(Nat) /\ Len(SubSeq(Stream(n), 1, n)) = n
      /\ \A i \in 1..n : SubSeq(Stream(n), 1, n)[i] = Stream(n)[i]
  BY StreamIsSeq
<1>2. QED BY <1>1, StreamIsSeq, SeqEqual

\* A write over a file begins with what is written, and is longer only if the
\* file was, and then as long.
LEMMA OverStarts ==
    ASSUME NEW old \in Seq(Nat), NEW data \in Seq(Nat)
    PROVE  /\ IsPrefix(data, Over(old, data))
           /\ Len(Over(old, data)) > Len(data) => Len(Over(old, data)) = Len(old)
<1> DEFINE rest == SubSeq(old, Len(data) + 1, Len(old))
           new == data \o rest
<1>1. rest \in Seq(Nat) /\ Len(rest) = IF Len(data) + 1 <= Len(old) THEN Len(old) - Len(data) ELSE 0
  OBVIOUS
<1> HIDE DEF rest
<1>2. /\ new \in Seq(Nat) /\ Len(new) = Len(data) + Len(rest)
      /\ \A i \in 1..Len(data) + Len(rest) : new[i] = IF i <= Len(data) THEN data[i] ELSE rest[i - Len(data)]
  BY <1>1, ConcatProperties, Zenon
<1> HIDE DEF new
<1>3. SubSeq(data, 1, Len(data)) = SubSeq(new, 1, Len(data))
  <2>1. Len(data) \in Nat /\ Len(rest) \in Nat
    BY <1>1
  <2>2. SubSeq(data, 1, Len(data)) \in Seq(Nat) /\ Len(SubSeq(data, 1, Len(data))) = Len(data)
        /\ \A i \in 1..Len(data) : SubSeq(data, 1, Len(data))[i] = data[i]
    OBVIOUS
  <2>3. SubSeq(new, 1, Len(data)) \in Seq(Nat) /\ Len(SubSeq(new, 1, Len(data))) = Len(data)
        /\ \A i \in 1..Len(data) : SubSeq(new, 1, Len(data))[i] = new[i]
    BY <1>2, <2>1
  <2>4. QED BY <1>2, <2>2, <2>3, SeqEqual
<1>4. IsPrefix(data, new)
  BY <1>1, <1>2, <1>3 DEF IsPrefix
<1>5. Len(new) > Len(data) => Len(new) = Len(old)
  BY <1>1, <1>2
<1>6. QED BY <1>4, <1>5 DEF new, rest, Over

\* A stream that is written over a file that is empty or of length m.
LEMMA StreamOver ==
    ASSUME NEW n \in Nat, NEW m \in Nat, NEW old \in Seq(Nat), Len(old) \in {0, m}
    PROVE  /\ IsPrefix(Stream(n), Over(old, Stream(n)))
           /\ Len(Over(old, Stream(n))) > n => Len(Over(old, Stream(n))) = m
<1>1. Stream(n) \in Seq(Nat) /\ Len(Stream(n)) = n
  BY StreamIsSeq
<1>2. /\ IsPrefix(Stream(n), Over(old, Stream(n)))
      /\ Len(Over(old, Stream(n))) > n => Len(Over(old, Stream(n))) = Len(old)
  BY <1>1, OverStarts
<1>3. \A k \in {0, m} : k > n => k = m
  OBVIOUS
<1>4. QED BY <1>2, <1>3

-----------------------------------------------------------------------------
(* Steps.                                                                   *)

\* The initial state: nothing was accepted and nothing came.
LEMMA InitIInv == Init => IInv
<1> SUFFICES ASSUME Init PROVE IInv
  OBVIOUS
<1>1. FragmentBuffer \in [1..RX_FRAGMENT_SIZE -> Nat] /\ 0 \in 0..RX_FRAGMENT_SIZE
  BY SizesAssumption DEF Init, Zeros
<1>2. TypeOK
  <2>1. token \in [Status : {"SUCCESS", "CONNECTION_FIN"}, FragmentLength : 0..RX_FRAGMENT_SIZE]
    BY <1>1 DEF Init
  <2>2. Buffer \in [memory : {"NULL", "data", "freed"}, size : Nat]
    BY DEF Init, NoBuffer
  <2>3. /\ accept \in {"none", "pending", "done"} /\ peer \in {"absent", "open", "fin", "reset"}
        /\ notify \in {"idle", "receive", "poll", "append", "save"}
        /\ result \in {"none", "failed", "completed"}
    BY DEF Init
  <2>4. IsRxDone \in BOOLEAN
    BY DEF Init
  <2>5. sent \in Nat /\ taken \in Nat /\ taken <= sent /\ AllocateLength \in Nat /\ TotalDataNumber \in Nat
    BY DEF Init
  <2>6. QED BY <1>1, <2>1, <2>2, <2>3, <2>4, <2>5 DEF TypeOK
<1>3. OrderInv /\ EndInv /\ FileInv
  BY DEF Init, OrderInv, EndInv, AllCame, EndedByToken, AtEnd, FileInv, NoBuffer
<1>4. StreamInv
  BY DEF Init, StreamInv, Stream, Pending, NoBuffer
<1>5. QED BY <1>2, <1>3, <1>4 DEF IInv

\* What belongs to the connection and the buffers, and what came of them.
connection == << network, notify, receiver, file, result >>

\* Steps of ShellAppMain(), the user and the removed image.
LEMMA ProgramStep ==
    ASSUME IInv, Configure \/ GetModeData \/ PressKey \/ KeyEndsWait \/ AcceptedAfterEnd \/ UNCHANGED vars
    PROVE  IInv'
<1> USE DEF IInv
<1>1. UNCHANGED connection
  BY DEF Configure, GetModeData, PressKey, KeyEndsWait, AcceptedAfterEnd, vars, connection
<1>2. pc' \in {"configure", "mapping", "accept"} => pc \in {"configure", "mapping", "accept"}
  BY DEF Configure, GetModeData, PressKey, KeyEndsWait, Ends, AcceptedAfterEnd, vars
<1>3. OrderInv'
  BY <1>1, <1>2 DEF OrderInv, Left, connection, network, receiver
<1>4. TypeOK' /\ FileInv'
  BY <1>1 DEF TypeOK, FileInv, connection, network, receiver
<1>5. StreamInv' /\ EndInv'
  BY <1>1 DEF StreamInv, Pending, EndInv, AllCame, EndedByToken, AtEnd, Left, connection, network, receiver
<1>6. QED BY <1>3, <1>4, <1>5

\* Steps of the peer, and the listener.
LEMMA PeerStep ==
    ASSUME IInv, Accept \/ Connect \/ Send \/ Close
    PROVE  IInv'
<1> USE DEF IInv
<1>1. UNCHANGED << taken, notify, receiver, file, result >>
  BY DEF Accept, Connect, Send, Close
<1>2. TypeOK'
  BY <1>1 DEF TypeOK, Accept, Connect, Send, Close, receiver
<1>3. OrderInv'
  BY <1>1 DEF OrderInv, Left, Accept, Connect, Send, Close, receiver
<1>4. StreamInv'
  BY <1>1 DEF StreamInv, Pending, receiver
<1>5. EndInv'
  BY <1>1 DEF EndInv, AllCame, EndedByToken, AtEnd, Left, Accept, Connect, Send, Close, receiver
<1>6. FileInv'
  BY <1>1 DEF FileInv, receiver
<1>7. QED BY <1>2, <1>3, <1>4, <1>5, <1>6

\* The connection is opened, cannot be, or has no memory for its fragment.
LEMMA AcceptedStep ==
    ASSUME IInv, ConnectionAccepted
    PROVE  IInv'
<1> USE DEF IInv
<1>1. TypeOK'
  BY DEF ConnectionAccepted, TypeOK, receiver
<1>2. OrderInv'
  BY DEF ConnectionAccepted, OrderInv, Left, receiver
<1>3. StreamInv'
  BY DEF ConnectionAccepted, StreamInv, Pending, OrderInv, receiver
<1>4. EndInv'
  BY DEF ConnectionAccepted, EndInv, AllCame, EndedByToken, AtEnd, OrderInv, receiver
<1>5. FileInv'
  BY DEF ConnectionAccepted, FileInv, OrderInv
<1>6. QED BY <1>1, <1>2, <1>3, <1>4, <1>5

\* The token is queued, or it is not and the loop ends.
LEMMA ReceiveStep ==
    ASSUME IInv, Receive
    PROVE  IInv'
<1> USE DEF IInv
<1>1. TypeOK'
  <2>1. RX_FRAGMENT_SIZE \in 0..RX_FRAGMENT_SIZE
    BY SizesAssumption
  <2>2. token' \in [Status : {"SUCCESS", "CONNECTION_FIN"}, FragmentLength : 0..RX_FRAGMENT_SIZE]
    BY <2>1 DEF Receive, TypeOK
  <2>3. QED BY <2>2 DEF Receive, TypeOK, network
<1>2. OrderInv'
  BY DEF Receive, OrderInv, Left, network
<1>3. StreamInv'
  BY DEF Receive, StreamInv, Pending, network
<1>4. EndInv'
  BY DEF Receive, Available, EndInv, AllCame, EndedByToken, AtEnd, Left, TypeOK, OrderInv, network
<1>5. FileInv'
  BY DEF Receive, FileInv
<1>6. QED BY <1>1, <1>2, <1>3, <1>4, <1>5

\* Bytes come into the fragment buffer, or the end of the connection.
LEMMA DeliveryStep ==
    ASSUME IInv, Delivery
    PROVE  IInv'
<1> USE DEF IInv
<1>1. TypeOK'
  BY SizesAssumption DEF Delivery, CommonNotify, Available, TypeOK, Pending, AllCame, EndedByToken, AtEnd
<1>2. OrderInv'
  BY SizesAssumption DEF Delivery, CommonNotify, OrderInv, Left
<1>3. StreamInv'
  BY SizesAssumption DEF Delivery, CommonNotify, StreamInv, Pending, TypeOK
<1>4. EndInv'
  BY SizesAssumption DEF Delivery, CommonNotify, Available, EndInv, AllCame, EndedByToken, AtEnd, Left, TypeOK
<1>5. FileInv'
  BY SizesAssumption DEF Delivery, CommonNotify, FileInv
<1>6. QED BY <1>1, <1>2, <1>3, <1>4, <1>5

\* The loop that polls ends.
LEMMA CompletedStep ==
    ASSUME IInv, Completed
    PROVE  IInv'
<1> USE DEF IInv
<1>1. TypeOK'
  BY DEF Completed, TypeOK, network, receiver
<1>2. OrderInv'
  BY DEF Completed, OrderInv, Left, network, receiver
<1>3. StreamInv'
  BY DEF Completed, StreamInv, Pending, network, receiver
<1>4. EndInv'
  BY DEF Completed, EndInv, AllCame, EndedByToken, AtEnd, Left, network
<1>5. FileInv'
  BY DEF Completed, FileInv, OrderInv
<1>6. QED BY <1>1, <1>2, <1>3, <1>4, <1>5

\* The fragment goes behind the bytes that are there.
LEMMA AppendStep ==
    ASSUME IInv, AppendData
    PROVE  IInv'
<1> USE DEF IInv
<1>1. TypeOK'
  BY SizesAssumption DEF AppendData, TypeOK, network
<1>2. OrderInv'
  BY SizesAssumption DEF AppendData, OrderInv, network
<1>3. StreamInv'
  <2> DEFINE m == token.FragmentLength
  <2>1. /\ m \in 1..RX_FRAGMENT_SIZE /\ taken = TotalDataNumber + m
        /\ \A i \in 1..m : FragmentBuffer[i] = TotalDataNumber + i
        /\ TotalDataNumber <= AllocateLength
    BY DEF AppendData, StreamInv, Pending, TypeOK
  <2>2. DataBuffer' = Stream(TotalDataNumber) \o SubSeq(FragmentBuffer, 1, m)
    BY DEF AppendData, StreamInv
  <2>3. TotalDataNumber' = TotalDataNumber + m
    BY DEF AppendData
  <2>4. DataBuffer' = Stream(TotalDataNumber')
    <3>1. /\ TotalDataNumber \in Nat /\ RX_FRAGMENT_SIZE \in Nat /\ m \in 0..RX_FRAGMENT_SIZE
          /\ FragmentBuffer \in [1..RX_FRAGMENT_SIZE -> Nat]
      BY <2>1, SizesAssumption DEF TypeOK
    <3> HIDE DEF m
    <3>2. Stream(TotalDataNumber) \o SubSeq(FragmentBuffer, 1, m) = Stream(TotalDataNumber + m)
      BY <2>1, <3>1, FragmentContinues
    <3>3. QED BY <2>2, <2>3, <3>2
  <2>5. TotalDataNumber' <= AllocateLength'
    BY <2>1, <2>3, SizesAssumption DEF AppendData, MustGrow, TypeOK
  <2>6. Buffer' = [memory |-> "data", size |-> TotalDataNumber'] /\ notify' = "receive" /\ UNCHANGED taken
    BY DEF AppendData, network
  <2>7. TotalDataNumber' = taken'
    BY <2>1, <2>3, <2>6
  <2>8. QED BY <2>4, <2>5, <2>6, <2>7 DEF StreamInv, Pending
<1>4. EndInv'
  BY SizesAssumption DEF AppendData, EndInv, AllCame, EndedByToken, AtEnd, Left
<1>5. FileInv'
  BY SizesAssumption DEF AppendData, FileInv, OrderInv
<1>6. QED BY <1>1, <1>2, <1>3, <1>4, <1>5

\* Memory runs out: from now on a fragment is missing.
LEMMA CannotGrowStep ==
    ASSUME IInv, CannotGrow
    PROVE  IInv'
<1> USE DEF IInv
<1>1. TypeOK'
  BY SizesAssumption DEF CannotGrow, TypeOK, network
<1>2. OrderInv'
  BY SizesAssumption DEF CannotGrow, OrderInv, Left, network
<1>3. StreamInv'
  BY SizesAssumption DEF CannotGrow, StreamInv, Pending, TypeOK
<1>4. EndInv'
  BY SizesAssumption DEF CannotGrow, EndInv, AllCame, EndedByToken, AtEnd, TypeOK, StreamInv, Pending, network
<1>5. FileInv'
  BY SizesAssumption DEF CannotGrow, FileInv
<1>6. QED BY <1>1, <1>2, <1>3, <1>4, <1>5

\* The data buffer is written to the file, or a part of it, or nothing.
LEMMA SaveStep ==
    ASSUME IInv, NEW deleted \in BOOLEAN, NEW outcome \in {"written", "cut", "not opened"},
           SaveFileToDisk(deleted, outcome)
    PROVE  IInv'
<1> USE DEF IInv
<1>1. notify = "save" /\ notify' = "idle" /\ result' \in {"completed", "failed"} /\ UNCHANGED << network, receiver >>
  BY DEF SaveFileToDisk
<1>2. TypeOK'
  BY <1>1 DEF TypeOK, network, receiver
<1>3. OrderInv'
  BY <1>1 DEF SaveFileToDisk, OrderInv, Left, network, receiver
<1>4. StreamInv' /\ EndInv'
  BY <1>1 DEF StreamInv, Pending, EndInv, AllCame, EndedByToken, AtEnd, Left, network, receiver
<1>5. FileInv'
  <2> DEFINE T == TotalDataNumber
             kept == IF deleted THEN << >> ELSE file
  <2> SUFFICES ASSUME result' = "completed", Buffer.memory # "freed"
               PROVE  IsPrefix(Stream(T), file') /\ (Len(file') > T => Len(file') = OldFile)
    BY DEF FileInv, SaveFileToDisk, receiver
  <2>1. T \in Nat /\ Buffer.size = T /\ DataBuffer = Stream(T)
    BY DEF TypeOK, StreamInv
  <2>2. file' = Over(kept, SubSeq(DataBuffer, 1, Buffer.size))
    BY DEF SaveFileToDisk
  <2>3. file' = Over(kept, Stream(T))
    BY <2>1, <2>2, StreamItself
  <2>4. file = Zeros(OldFile)
    BY DEF SaveFileToDisk, OrderInv, FileInv
  <2>5. kept \in Seq(Nat) /\ Len(kept) \in {0, OldFile}
    <3>1. << >> \in Seq(Nat) /\ Len(<< >>) = 0
      BY EmptySeq
    <3>2. file \in Seq(Nat) /\ Len(file) = OldFile
      BY <2>4, StreamIsSeq, SizesAssumption
    <3>3. QED BY <3>1, <3>2
  <2>6. QED BY <2>1, <2>3, <2>5, StreamOver, SizesAssumption
<1>6. QED BY <1>2, <1>3, <1>4, <1>5

\* Every step keeps the invariant.
LEMMA NextIInv == IInv /\ [Next]_vars => IInv'
<1> SUFFICES ASSUME IInv, [Next]_vars PROVE IInv'
  OBVIOUS
<1>1. CASE Configure \/ GetModeData \/ PressKey \/ KeyEndsWait \/ AcceptedAfterEnd \/ UNCHANGED vars
  BY <1>1, ProgramStep
<1>2. CASE Accept \/ Connect \/ Send \/ Close
  BY <1>2, PeerStep
<1>3. CASE Delivery
  BY <1>3, DeliveryStep
<1>4. CASE Notification
  BY <1>4, AcceptedStep, ReceiveStep, CompletedStep, AppendStep, CannotGrowStep, SaveStep DEF Notification
<1>5. QED BY <1>1, <1>2, <1>3, <1>4 DEF Next

-----------------------------------------------------------------------------
(* Theorems.                                                                *)

\* The invariant holds in every reachable state.
LEMMA SpecIInv == Spec => []IInv
<1>1. QED BY InitIInv, NextIInv, PTL DEF Spec

\* What the property says of a save follows from the invariant: when the memory
\* lasted the data buffer holds all that was taken.
LEMMA IInvSaved == IInv => SavedIsSent
<1> SUFFICES ASSUME IInv PROVE SavedIsSent
  OBVIOUS
<1> USE DEF IInv
<1>1. TotalDataNumber <= AllocateLength
  BY DEF StreamInv
<1>2. Buffer.memory = "data" => Buffer.size = TotalDataNumber /\ DataBuffer = Stream(TotalDataNumber)
  BY DEF StreamInv
<1>3. ASSUME result = "completed", MemoryLasted
      PROVE  /\ IsPrefix(Stream(taken), file)
             /\ Len(file) > taken => Len(file) = OldFile
             /\ peer = "fin" /\ EndedByToken /\ AllocateLength > 0 => taken = sent
  <2>1. notify = "idle" /\ accept = "done"
    BY <1>3 DEF OrderInv, TypeOK
  <2>2. taken = TotalDataNumber /\ Buffer.memory # "freed"
    BY <1>3, <2>1 DEF MemoryLasted
  <2>3. IsPrefix(Stream(taken), file) /\ (Len(file) > taken => Len(file) = OldFile)
    BY <1>3, <2>2 DEF FileInv
  <2>4. peer = "fin" /\ EndedByToken /\ AllocateLength > 0 => taken = sent
    BY <2>1, <2>2 DEF EndInv, AllCame, EndedByToken, Left
  <2>5. QED BY <2>3, <2>4
<1>4. QED BY <1>1, <1>2, <1>3 DEF SavedIsSent

\* SavedIsSent: a save of ConnectionAccepted() that is reported as completed
\* holds the bytes that came, in order and with nothing of an older file behind
\* them that was longer, and is the whole stream of the peer if its close ended the
\* loop.
THEOREM SavedIsSentAlways == Spec => []SavedIsSent
<1>1. QED BY SpecIInv, IInvSaved, PTL

=============================================================================
