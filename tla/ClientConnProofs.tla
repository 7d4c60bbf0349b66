-------------------------- MODULE ClientConnProofs --------------------------
(***************************************************************************)
(* ClosedIsFinal, NoStaleWaiter and CallsKeptApart for any number of calls  *)
(* on a Client, any pipe capacity and any server.                           *)
(***************************************************************************)
EXTENDS ClientConn, SequenceTheorems, TLAPS

(* The part of TypeOK the client's own state needs.                         *)
ClientTypes ==
    /\ pc \in [Calls -> CallPcs]
    /\ result \in [Calls -> {"none", "closed", "io", "timeout", "reply"}]
    /\ chan \in [Calls -> {"none", "open", "sent", "dropped"}]
    /\ map \in SUBSET Calls /\ waiting \in SUBSET Calls /\ woken \in SUBSET Calls
    /\ closed \in BOOLEAN
    /\ taken \in Calls \cup {NoCall}
    /\ reader = "send" => taken \in Calls

(* The flag precedes everything a call can conclude "closed" from.          *)
FlagFirst ==
    /\ \A c \in Calls : result[c] = "closed" \/ chan[c] = "dropped" => closed
    /\ reader \in {"drain", "notify", "gone"} \/ woken # {} => closed

(* A sender is in one place: the map, the reader's hands, or spent.         *)
OneSender ==
    /\ \A c \in Calls : pc[c] \in {"idle", "enter"} => chan[c] = "none" /\ c \notin map
    /\ \A c \in map : chan[c] # "none"
    /\ \A c \in Calls : chan[c] = "sent" => c \notin map
    /\ reader = "send" => taken \notin map /\ chan[taken] # "none"

ConnInv == ClientTypes /\ FlagFirst /\ OneSender /\ NoStaleWaiter

(* connect() starts every Client in a state that satisfies the invariant.    *)
LEMMA ConnInit == Init => ConnInv
  BY DEF Init, ConnInv, ClientTypes, FlagFirst, OneSender, NoStaleWaiter, CallPcs

(* Every step of send_request_with_timeout keeps the invariant.              *)
LEMMA ConnCall ==
  ASSUME ConnInv, NEW c \in Calls, CallStep(c) \/ Timeout(c)
  PROVE  ConnInv'
<1> USE DEF ConnInv, ClientTypes, FlagFirst, OneSender, NoStaleWaiter, CallPcs, ServerVars,
            ReaderVars, Go, Return
<1>1. CASE Refuse(c)
  BY <1>1 DEF Refuse
<1>2. CASE Enter(c)
  BY <1>2 DEF Enter
<1>3. CASE Register(c)
  BY <1>3 DEF Register
<1>4. CASE Lock(c)
  BY <1>4 DEF Lock
<1>5. CASE WriteBody(c)
  BY <1>5 DEF WriteBody
<1>6. CASE WriteNewline(c)
  BY <1>6 DEF WriteNewline
<1>7. CASE WriteFails(c)
  BY <1>7 DEF WriteFails
<1>8. CASE SeesClosed(c)
  BY <1>8 DEF SeesClosed
<1>9. CASE Subscribe(c)
  BY <1>9 DEF Subscribe
<1>10. CASE Subscribed(c)
  BY <1>10 DEF Subscribed
<1>11. CASE Await(c)
  BY <1>11 DEF Await
<1>12. CASE WakeClosed(c)
  BY <1>12 DEF WakeClosed
<1>13. CASE Receive(c)
  BY <1>13 DEF Receive
<1>14. CASE Timeout(c)
  BY <1>14 DEF Timeout
<1> QED
  BY <1>1, <1>2, <1>3, <1>4, <1>5, <1>6, <1>7, <1>8, <1>9, <1>10, <1>11, <1>12, <1>13, <1>14
     DEF CallStep

(* So does every step of reader_loop and of the task that runs it.           *)
LEMMA ConnReader ==
  ASSUME ConnInv, ReaderStep \/ ReaderError
  PROVE  ConnInv'
<1> USE DEF ConnInv, ClientTypes, FlagFirst, OneSender, NoStaleWaiter, CallPcs, ServerVars
<1>1. CASE ReaderTake
  BY <1>1 DEF ReaderTake
<1>2. CASE ReaderSend
  BY <1>2 DEF ReaderSend
<1>3. CASE ReaderEof
  BY <1>3 DEF ReaderEof
<1>4. CASE ReaderError
  BY <1>4 DEF ReaderError
<1>5. CASE ReaderFlag
  BY <1>5 DEF ReaderFlag
<1>6. CASE ReaderDrain
  BY <1>6 DEF ReaderDrain
<1>7. CASE ReaderNotify
  BY <1>7 DEF ReaderNotify
<1> QED
  BY <1>1, <1>2, <1>3, <1>4, <1>5, <1>6, <1>7 DEF ReaderStep

(* The server's steps, and stuttering, touch nothing the invariant is about. *)
LEMMA ConnServer ==
  ASSUME ConnInv,
         \/ ServerRead \/ ServerDies \/ UNCHANGED vars
         \/ \E c \in Calls : ServerAnswer(c)
  PROVE  ConnInv'
  BY DEF ConnInv, ClientTypes, FlagFirst, OneSender, NoStaleWaiter, ServerRead, ServerDies,
         ServerAnswer, ReaderVars, vars

(* The invariant holds in every reachable state of a Client.                 *)
LEMMA ConnInductive == Spec => []ConnInv
<1>1. ConnInv /\ [Next]_vars => ConnInv'
  BY ConnCall, ConnReader, ConnServer DEF Next, Idle
<1> QED
  BY <1>1, ConnInit, PTL DEF Spec

(* A call that was told "closed" leaves is_closed() true, however many calls  *)
(* share the Client and whatever the server does.                            *)
THEOREM ClosedSticks == Spec => []ClosedIsFinal
<1>1. ConnInv => ClosedIsFinal
  BY DEF ConnInv, FlagFirst, ClosedIsFinal
<1> QED
  BY <1>1, ConnInductive, PTL

(* While the connection is open the reply map holds only calls that wait.    *)
THEOREM NoLeakedWaiter == Spec => []NoStaleWaiter
<1>1. ConnInv => NoStaleWaiter
  BY DEF ConnInv
<1> QED
  BY <1>1, ConnInductive, PTL

-----------------------------------------------------------------------------
(* The request lines.  The argument is about the stream of chunks, so what   *)
(* each kind of step does to it is stated first, and its definition hidden.  *)

(* The mutex is held exactly while a line is written.                       *)
LockHeld == \A c \in Calls : lock = c <=> pc[c] \in {"body", "newline"}

(* While the child runs, a line is unfinished exactly while its writer      *)
(* stands between the two writes.                                           *)
Unfinished ==
    alive =>
        /\ Len(Stream) % 2 = 1 => lock \in Calls /\ pc[lock] = "newline"
        /\ \A c \in Calls : pc[c] = "newline" =>
              Len(Stream) % 2 = 1 /\ Stream[Len(Stream)].call = c

InPipe(c) == \E i \in 1..Len(Stream) : Stream[i].call = c
InOut(c) == \E i \in 1..Len(out) : out[i] = c

InHand(c) == reader = "send" /\ taken = c

(* A body is written once, and answered once.                               *)
OneBody ==
    /\ \A i, j \in 1..Len(Stream) :
          Stream[i].part = "body" /\ Stream[j].part = "body" /\ Stream[i].call = Stream[j].call
          => i = j
    /\ \A i, j \in 1..Len(out) : out[i] = out[j] => i = j

(* A request is in one place: unwritten, in the pipe, with the server, on   *)
(* its way back, in the reader's hands or delivered.                        *)
OnePlace(c) ==
    /\ InPipe(c) => pc[c] \notin {"idle", "enter", "lock", "body"}
    /\ c \in heard \/ InOut(c) \/ InHand(c) \/ chan[c] = "sent" =>
          /\ pc[c] \notin {"idle", "enter", "lock", "body"}
          /\ alive => pc[c] # "newline"
          /\ ~InPipe(c)
    /\ InOut(c) => c \notin heard
    /\ InHand(c) => c \notin heard /\ ~InOut(c)
    /\ chan[c] = "sent" => c \notin heard /\ ~InOut(c) /\ ~InHand(c)
    /\ result[c] = "reply" => chan[c] = "sent"

LineInv == TypeOK /\ LockHeld /\ WholeLines /\ Unfinished /\ OneBody
           /\ \A c \in Calls : OnePlace(c)

Chunks == [call : Calls, part : {"body", "newline"}]

(* What putting one chunk in front of a sequence does.                      *)
LEMMA Cons ==
  ASSUME NEW S, NEW x \in S, NEW s \in Seq(S)
  PROVE  /\ <<x>> \o s \in Seq(S)
         /\ Len(<<x>> \o s) = Len(s) + 1
         /\ (<<x>> \o s)[1] = x
         /\ \A i \in 1..Len(s) : (<<x>> \o s)[i + 1] = s[i]
<1>1. <<x>> \in Seq(S) /\ Len(<<x>>) = 1 /\ <<x>>[1] = x /\ Len(s) \in Nat
  OBVIOUS
<1>2. /\ <<x>> \o s \in Seq(S)
      /\ Len(<<x>> \o s) = 1 + Len(s)
      /\ \A i \in 1..(1 + Len(s)) :
            (<<x>> \o s)[i] = IF i <= 1 THEN <<x>>[i] ELSE s[i - 1]
  BY <1>1, ConcatProperties
<1>3. (<<x>> \o s)[1] = x
  BY <1>1, <1>2
<1>4. ASSUME NEW i \in 1..Len(s) PROVE (<<x>> \o s)[i + 1] = s[i]
  BY <1>1, <1>2
<1> QED  BY <1>1, <1>2, <1>3, <1>4

(* The first element of a sequence that has one.                            *)
LEMMA NonemptySeq ==
  ASSUME NEW S, NEW s \in Seq(S), s # <<>>
  PROVE  Len(s) \in Nat /\ Len(s) >= 1 /\ Head(s) = s[1] /\ s[1] \in S
  OBVIOUS

(* Two sequences of one length with the same elements are the same.         *)
LEMMA SameSeq ==
  ASSUME NEW S, NEW s \in Seq(S), NEW t \in Seq(S), Len(s) = Len(t),
         \A i \in 1..Len(s) : s[i] = t[i]
  PROVE  s = t
  OBVIOUS

(* The stream without and with an unfinished line at the server.            *)
LEMMA StreamCases ==
  ASSUME TypeOK
  PROVE  /\ inbuf \in Seq(Chunks) /\ Len(inbuf) \in Nat
         /\ partial = NoCall => Stream = inbuf
         /\ partial # NoCall =>
               LET p == [call |-> partial, part |-> "body"] IN
               /\ partial \in Calls /\ p \in Chunks
               /\ Stream = <<p>> \o inbuf
               /\ Stream \in Seq(Chunks)
               /\ Len(Stream) = Len(inbuf) + 1 /\ Stream[1] = p
               /\ \A i \in 1..Len(inbuf) : Stream[i + 1] = inbuf[i]
<1>1. inbuf \in Seq(Chunks) /\ Len(inbuf) \in Nat
  BY DEF TypeOK, Chunks
<1>2. CASE partial = NoCall
  BY <1>1, <1>2, ConcatEmptySeq DEF Stream
<1>3. CASE partial # NoCall
  <2> DEFINE p == [call |-> partial, part |-> "body"]
  <2>1. partial \in Calls /\ p \in Chunks
    BY <1>3 DEF TypeOK, Chunks
  <2>2. Stream = <<p>> \o inbuf
    BY <1>3 DEF Stream
  <2> HIDE DEF p
  <2>3. /\ <<p>> \o inbuf \in Seq(Chunks)
        /\ Len(<<p>> \o inbuf) = Len(inbuf) + 1
        /\ (<<p>> \o inbuf)[1] = p
        /\ \A i \in 1..Len(inbuf) : (<<p>> \o inbuf)[i + 1] = inbuf[i]
    BY <1>1, <2>1, Cons
  <2> QED  BY <1>1, <1>3, <2>1, <2>2, <2>3 DEF p
<1> QED  BY <1>1, <1>2, <1>3

(* The stream is a sequence of chunks.                                      *)
LEMMA StreamType ==
  ASSUME TypeOK
  PROVE  Stream \in Seq(Chunks) /\ Len(Stream) \in Nat
  BY StreamCases

(* A write appends its chunk.                                               *)
LEMMA StreamWrite ==
  ASSUME TypeOK, NEW c \in Calls, NEW part \in {"body", "newline"}, Write(c, part),
         partial' = partial
  PROVE  /\ Len(Stream') = Len(Stream) + 1
         /\ \A i \in 1..Len(Stream) : Stream'[i] = Stream[i]
         /\ Stream'[Len(Stream) + 1] = [call |-> c, part |-> part]
         /\ inbuf' \in Seq(Chunks)
<1> DEFINE x == [call |-> c, part |-> part]
<1>1. inbuf' = Append(inbuf, x) /\ x \in Chunks
  BY DEF Write, Chunks
<1>2. inbuf \in Seq(Chunks) /\ Len(inbuf) \in Nat
  BY DEF TypeOK, Chunks
<1> HIDE DEF x
<1>3. /\ inbuf' \in Seq(Chunks) /\ Len(inbuf') = Len(inbuf) + 1
      /\ \A i \in 1..Len(inbuf) : inbuf'[i] = inbuf[i]
      /\ inbuf'[Len(inbuf) + 1] = x
  BY <1>1, <1>2, AppendProperties
<1>4. CASE partial = NoCall
  <2>1. Stream = inbuf
    BY <1>4, StreamCases
  <2>2. Stream' = inbuf'
    BY <1>3, <1>4, ConcatEmptySeq DEF Stream
  <2> QED  BY <1>2, <1>3, <2>1, <2>2 DEF x
<1>5. CASE partial # NoCall
  <2> DEFINE p == [call |-> partial, part |-> "body"]
  <2>1. /\ p \in Chunks /\ Stream[1] = p /\ Len(Stream) = Len(inbuf) + 1
        /\ \A i \in 1..Len(inbuf) : Stream[i + 1] = inbuf[i]
    BY <1>5, StreamCases
  <2>2. Stream' = <<p>> \o inbuf'
    BY <1>5 DEF Stream
  <2> HIDE DEF p
  <2>3. /\ Len(Stream') = Len(inbuf') + 1 /\ Stream'[1] = p
        /\ \A i \in 1..Len(inbuf') : Stream'[i + 1] = inbuf'[i]
    BY <1>3, <2>1, <2>2, Cons
  <2>4. ASSUME NEW i \in 1..Len(Stream) PROVE Stream'[i] = Stream[i]
    <3>1. CASE i = 1
      BY <3>1, <2>1, <2>3
    <3>2. CASE i # 1
      <4>1. i - 1 \in 1..Len(inbuf) /\ i - 1 \in 1..Len(inbuf') /\ (i - 1) + 1 = i
        BY <1>2, <1>3, <2>1, <3>2
      <4> QED  BY <4>1, <1>3, <2>1, <2>3
    <3> QED  BY <3>1, <3>2
  <2>5. Stream'[Len(Stream) + 1] = x
    BY <1>2, <1>3, <2>1, <2>3
  <2> QED  BY <1>2, <1>3, <2>1, <2>3, <2>4, <2>5 DEF x
<1> QED  BY <1>4, <1>5

(* Steps that touch neither end of the pipe leave the stream.               *)
LEMMA StreamSame ==
  ASSUME inbuf' = inbuf, partial' = partial
  PROVE  Stream' = Stream
  BY DEF Stream

(* Reading a body leaves the stream, reading a newline takes a line off it.  *)
LEMMA StreamRead ==
  ASSUME TypeOK, WholeLines, ServerRead
  PROVE  \/ /\ partial' \in Calls /\ heard' = heard
            /\ Stream' = Stream
         \/ /\ partial \in Calls /\ partial' = NoCall /\ heard' = heard \cup {partial}
            /\ Stream[1].call = partial /\ Stream[1].part = "body"
            /\ Len(Stream) >= 2 /\ Len(Stream') = Len(Stream) - 2
            /\ \A i \in 1..Len(Stream') : Stream'[i] = Stream[i + 2]
<1>1. /\ inbuf \in Seq(Chunks) /\ inbuf # <<>> /\ Len(inbuf) \in Nat /\ Len(inbuf) >= 1
      /\ Head(inbuf) = inbuf[1] /\ inbuf[1] \in Chunks
  <2>1. inbuf \in Seq(Chunks) /\ inbuf # <<>>
    BY StreamCases DEF ServerRead
  <2> QED  BY <2>1, NonemptySeq
<1>2. /\ inbuf' = Tail(inbuf) /\ Tail(inbuf) \in Seq(Chunks)
      /\ Len(Tail(inbuf)) = Len(inbuf) - 1
      /\ \A i \in 1..Len(Tail(inbuf)) : Tail(inbuf)[i] = inbuf[i + 1]
  BY <1>1, HeadTailProperties DEF ServerRead
<1>3. CASE partial = NoCall
  <2>1. Stream = inbuf
    BY <1>3, StreamCases
  <2>2. inbuf[1].part = "body"
    BY <1>1, <2>1 DEF WholeLines
  <2>3. partial' = inbuf[1].call /\ heard' = heard
    BY <1>1, <2>2 DEF ServerRead
  <2>4. partial' \in Calls /\ partial' # NoCall
    BY <1>1, <2>3, ConnAssumption DEF Chunks
  <2>5. [call |-> partial', part |-> "body"] = inbuf[1]
    BY <1>1, <2>2, <2>3 DEF Chunks
  <2>6. Stream' = <<inbuf[1]>> \o Tail(inbuf)
    BY <1>2, <2>4, <2>5 DEF Stream
  <2>7. /\ Stream' \in Seq(Chunks) /\ Len(Stream') = Len(inbuf) /\ Stream'[1] = inbuf[1]
        /\ \A i \in 1..Len(Tail(inbuf)) : Stream'[i + 1] = inbuf[i + 1]
    BY <1>1, <1>2, <2>6, Cons
  <2>8. ASSUME NEW i \in 1..Len(inbuf) PROVE Stream'[i] = inbuf[i]
    <3>1. CASE i = 1
      BY <3>1, <2>7
    <3>2. CASE i # 1
      <4>1. i - 1 \in 1..Len(Tail(inbuf)) /\ (i - 1) + 1 = i
        BY <1>1, <1>2, <3>2
      <4> QED  BY <4>1, <2>7
    <3> QED  BY <3>1, <3>2
  <2>9. Stream' = inbuf
    BY <1>1, <2>7, <2>8, SameSeq
  <2> QED  BY <2>1, <2>3, <2>4, <2>9
<1>4. CASE partial # NoCall
  <2> DEFINE p == [call |-> partial, part |-> "body"]
  <2>1. /\ partial \in Calls /\ Stream[1] = p /\ Len(Stream) = Len(inbuf) + 1
        /\ \A i \in 1..Len(inbuf) : Stream[i + 1] = inbuf[i]
    BY <1>4, StreamCases
  <2>2. inbuf[1].part # "body"
    <3>1. 2 \in 1..Len(Stream) /\ Stream[2] = inbuf[1]
      BY <1>1, <2>1
    <3> QED  BY <3>1 DEF WholeLines
  <2>3. partial' = NoCall /\ heard' = heard \cup {partial}
    BY <1>1, <2>2 DEF ServerRead
  <2>4. Stream' = Tail(inbuf)
    BY <1>2, <2>3, ConcatEmptySeq DEF Stream
  <2>5. ASSUME NEW i \in 1..Len(Stream') PROVE Stream'[i] = Stream[i + 2]
    <3>1. i + 1 \in 1..Len(inbuf) /\ (i + 1) + 1 = i + 2
      BY <1>1, <1>2, <2>4
    <3>2. Stream[(i + 1) + 1] = inbuf[i + 1]
      BY <3>1, <2>1
    <3> QED  BY <3>1, <3>2, <1>2, <2>4
  <2>6. Stream[1].call = partial /\ Stream[1].part = "body"
    BY <2>1
  <2>7. Len(Stream) >= 2 /\ Len(Stream') = Len(Stream) - 2
    BY <1>1, <1>2, <2>1, <2>4
  <2> QED  BY <2>1, <2>3, <2>5, <2>6, <2>7
<1> QED  BY <1>3, <1>4

-----------------------------------------------------------------------------
(* connect() starts with empty pipes and every call unsent.                 *)
LEMMA LineInit == Init => LineInv
<1> SUFFICES ASSUME Init PROVE LineInv
  OBVIOUS
<1>1. TypeOK
  <2>1. inbuf \in Seq([call : Calls, part : {"body", "newline"}]) /\ out \in Seq(Calls)
    BY DEF Init
  <2> QED  BY <2>1 DEF Init, TypeOK, CallPcs
<1>2. Stream = <<>> /\ Len(Stream) = 0 /\ Len(out) = 0
  BY ConcatEmptySeq DEF Init, Stream
<1>3. LockHeld
  BY ConnAssumption DEF Init, LockHeld
<1>4. WholeLines
  BY <1>2 DEF WholeLines
<1>5. Unfinished
  BY <1>2 DEF Unfinished, Init
<1>6. OneBody
  BY <1>2 DEF OneBody
<1>7. ASSUME NEW c \in Calls PROVE OnePlace(c)
  <2>1. ~InPipe(c) /\ ~InOut(c)
    BY <1>2 DEF InPipe, InOut
  <2> QED  BY <2>1 DEF OnePlace, InHand, Init
<1> QED  BY <1>1, <1>3, <1>4, <1>5, <1>6, <1>7 DEF LineInv

(* Steps that leave the stream, the answers and the requests at the server.  *)
LEMMA PipeSame ==
  ASSUME UNCHANGED <<inbuf, partial, out>>
  PROVE  /\ Stream' = Stream /\ WholeLines' = WholeLines /\ OneBody' = OneBody
         /\ \A c : InPipe(c)' = InPipe(c) /\ InOut(c)' = InOut(c)
<1>1. Stream' = Stream
  BY StreamSame
<1> QED  BY <1>1 DEF WholeLines, OneBody, InPipe, InOut

(* Steps of a call that leave the pipes, the lock and the reader alone.      *)
LEMMA LineQuiet ==
  ASSUME LineInv, ConnInv, NEW c \in Calls,
         \/ Refuse(c) \/ Enter(c) \/ Register(c) \/ SeesClosed(c) \/ Subscribe(c)
         \/ Subscribed(c) \/ Await(c) \/ WakeClosed(c) \/ Receive(c) \/ Timeout(c)
  PROVE  LineInv'
<1> USE DEF Refuse, Enter, Register, SeesClosed, Subscribe, Subscribed, Await, WakeClosed,
            Receive, Timeout, Go, Return, ServerVars, ReaderVars
<1>1. TypeOK'
  BY DEF LineInv, TypeOK, CallPcs
<1>2. /\ Stream' = Stream /\ WholeLines' = WholeLines /\ OneBody' = OneBody
      /\ \A d : InPipe(d)' = InPipe(d) /\ InOut(d)' = InOut(d)
  BY PipeSame
<1>3. LockHeld'
  BY DEF LineInv, TypeOK, LockHeld
<1>4. Unfinished'
  <2>1. lock' = lock /\ alive' = alive
    OBVIOUS
  <2>2. \A d \in Calls : pc'[d] = "newline" <=> pc[d] = "newline"
    BY DEF LineInv, TypeOK
  <2> QED  BY <1>2, <2>1, <2>2 DEF LineInv, Unfinished
<1>5. ASSUME NEW d \in Calls PROVE OnePlace(d)'
  <2>1. OnePlace(d) /\ TypeOK
    BY DEF LineInv
  <2>2. CASE d # c
    <3>1. UNCHANGED <<pc[d], result[d], chan[d], heard, alive, reader, taken>>
      BY <2>1, <2>2 DEF TypeOK
    <3> QED  BY <1>2, <2>1, <3>1 DEF OnePlace, InHand
  <2>3. CASE d = c
    <3>1. UNCHANGED <<heard, alive, reader, taken>>
      OBVIOUS
    <3>2. result'[d] = "reply" => chan'[d] = "sent"
      BY <2>1, <2>3 DEF OnePlace, TypeOK
    <3>3. chan'[d] = "sent" => chan[d] = "sent"
      BY <2>3, <2>1 DEF TypeOK
    <3>4. /\ pc'[d] \in {"idle", "enter", "lock", "body"} => pc[d] \in {"idle", "enter", "lock", "body"}
          /\ pc'[d] # "newline"
      BY <2>3, <2>1 DEF TypeOK
    <3> QED  BY <1>2, <2>1, <3>1, <3>2, <3>3, <3>4 DEF OnePlace, InHand
  <2> QED  BY <2>2, <2>3
<1> QED  BY <1>1, <1>2, <1>3, <1>4, <1>5 DEF LineInv

(* Taking the mutex, and losing it to a broken pipe.                         *)
LEMMA LineLock ==
  ASSUME LineInv, NEW c \in Calls, Lock(c) \/ WriteFails(c)
  PROVE  LineInv'
<1> USE DEF Lock, WriteFails, Go, Return, ServerVars, ReaderVars
<1>1. TypeOK'
  BY DEF LineInv, TypeOK, CallPcs
<1>2. /\ Stream' = Stream /\ WholeLines' = WholeLines /\ OneBody' = OneBody
      /\ \A d : InPipe(d)' = InPipe(d) /\ InOut(d)' = InOut(d)
  BY PipeSame
<1>3. LockHeld'
  BY ConnAssumption DEF LineInv, TypeOK, LockHeld
<1>4. Unfinished'
  BY <1>2, ConnAssumption DEF LineInv, TypeOK, LockHeld, Unfinished
<1>5. ASSUME NEW d \in Calls PROVE OnePlace(d)'
  <2>1. OnePlace(d) /\ TypeOK
    BY DEF LineInv
  <2>2. /\ UNCHANGED <<chan[d], heard, alive, reader, taken>>
        /\ result'[d] = "reply" => result[d] = "reply"
        /\ pc'[d] \in {"idle", "enter", "lock", "body"} => pc[d] \in {"idle", "enter", "lock", "body"}
        /\ pc'[d] = "newline" => pc[d] = "newline"
    BY <2>1 DEF TypeOK
  <2> QED  BY <1>2, <2>1, <2>2 DEF OnePlace, InHand
<1> QED  BY <1>1, <1>2, <1>3, <1>4, <1>5 DEF LineInv

(* The two writes of a line, both under the mutex.                           *)
LEMMA LineWrite ==
  ASSUME LineInv, NEW c \in Calls, NEW part,
         \/ part = "body" /\ WriteBody(c)
         \/ part = "newline" /\ WriteNewline(c)
  PROVE  LineInv'
<1> DEFINE n == Len(Stream)
<1>1. part \in {"body", "newline"} /\ Write(c, part) /\ partial' = partial
  BY DEF WriteBody, WriteNewline
<1>2. TypeOK
  BY DEF LineInv
<1>3. n \in Nat
  BY <1>2, StreamType
<1>4. /\ Len(Stream') = n + 1
      /\ \A i \in 1..n : Stream'[i] = Stream[i]
      /\ Stream'[n + 1] = [call |-> c, part |-> part]
      /\ inbuf' \in Seq(Chunks)
  BY <1>1, <1>2, StreamWrite, Zenon
<1>5. Stream'[n + 1].call = c /\ Stream'[n + 1].part = part
  BY <1>4
<1>6. TypeOK'
  BY <1>2, <1>4 DEF TypeOK, WriteBody, WriteNewline, Go, Chunks, CallPcs, ReaderVars
<1>7. LockHeld'
  BY ConnAssumption DEF LineInv, TypeOK, LockHeld, WriteBody, WriteNewline, Go
<1>8. alive /\ UNCHANGED <<alive, heard, out, chan, reader, taken, result>>
  BY DEF WriteBody, WriteNewline, Write, ReaderVars
<1>9. /\ \A d \in Calls : d # c => pc'[d] = pc[d] /\ pc[d] \notin {"body", "newline"} /\ lock # d
      /\ lock = c
  BY <1>2 DEF LineInv, TypeOK, LockHeld, WriteBody, WriteNewline, Go
<1>10. (n % 2 = 0) <=> part = "body"
  <2>1. CASE part = "body"
    <3>1. pc[c] = "body"
      BY <2>1 DEF WriteBody, Go
    <3> QED  BY <1>3, <1>8, <1>9, <2>1, <3>1 DEF LineInv, Unfinished
  <2>2. CASE part = "newline"
    BY <1>3, <1>8, <2>2 DEF LineInv, Unfinished, WriteNewline, Go
  <2> QED  BY <1>1, <2>1, <2>2
<1>11. part = "newline" => n >= 1 /\ Stream[n].call = c /\ Stream[n].part = "body"
  <2> SUFFICES ASSUME part = "newline" PROVE n >= 1 /\ Stream[n].call = c /\ Stream[n].part = "body"
    OBVIOUS
  <2>1. n % 2 = 1 /\ Stream[n].call = c
    BY <1>8 DEF LineInv, Unfinished, WriteNewline, Go
  <2>2. n >= 1
    BY <1>3, <2>1
  <2> QED  BY <1>3, <2>1, <2>2 DEF LineInv, WholeLines
<1>12. /\ part = "body" => pc'[c] = "newline" /\ pc[c] = "body" /\ lock' = c
       /\ part = "newline" => pc'[c] = "poll" /\ pc[c] = "newline"
  BY <1>2, <1>9 DEF WriteBody, WriteNewline, Go, TypeOK
<1> HIDE DEF n
<1>13. WholeLines'
  <2> SUFFICES ASSUME NEW i \in 1..(n + 1)
               PROVE  /\ (i % 2 = 1) <=> Stream'[i].part = "body"
                      /\ i % 2 = 0 => Stream'[i].call = Stream'[i - 1].call
    BY <1>4 DEF WholeLines
  <2>1. CASE i = n + 1
    BY <1>1, <1>3, <1>4, <1>5, <1>10, <1>11, <2>1
  <2>2. CASE i # n + 1
    <3>1. i \in 1..n /\ i \in 1..Len(Stream) /\ (i % 2 = 0 => i - 1 \in 1..n)
      BY <1>3, <2>2 DEF n
    <3> QED  BY <1>4, <3>1 DEF LineInv, WholeLines
  <2> QED  BY <2>1, <2>2
<1>14. Unfinished'
  <2>1. (n + 1) % 2 = 1 <=> part = "body"
    BY <1>3, <1>10, <1>1
  <2> QED  BY <1>1, <1>4, <1>5, <1>9, <1>12, <2>1 DEF Unfinished
<1>15. part = "body" => ~InPipe(c)
  BY <1>12 DEF LineInv, OnePlace
<1>16. OneBody'
  <2>1. ASSUME NEW i \in 1..(n + 1), NEW j \in 1..(n + 1),
               Stream'[i].part = "body", Stream'[j].part = "body",
               Stream'[i].call = Stream'[j].call
        PROVE  i = j
    <3>1. CASE i \in 1..n /\ j \in 1..n
      BY <1>4, <2>1, <3>1 DEF LineInv, OneBody, n
    <3>2. CASE i \in 1..n /\ j = n + 1
      BY <1>4, <1>5, <1>15, <2>1, <3>2 DEF InPipe, n
    <3>3. CASE i = n + 1 /\ j \in 1..n
      BY <1>4, <1>5, <1>15, <2>1, <3>3 DEF InPipe, n
    <3> QED  BY <1>3, <3>1, <3>2, <3>3
  <2> QED  BY <1>4, <1>8, <2>1 DEF LineInv, OneBody
<1>17. ASSUME NEW d \in Calls PROVE OnePlace(d)'
  <2>1. OnePlace(d)
    BY DEF LineInv
  <2>2. InOut(d)' = InOut(d) /\ InHand(d)' = InHand(d)
    BY <1>8 DEF InOut, InHand
  <2>3. InPipe(d)' => InPipe(d) \/ d = c
    BY <1>3, <1>4, <1>5 DEF InPipe, n
  <2>4. CASE d # c
    <3>1. pc'[d] = pc[d] /\ pc[d] \notin {"body", "newline"}
      BY <1>9, <2>4
    <3> QED  BY <1>8, <2>1, <2>2, <2>3, <2>4, <3>1 DEF OnePlace
  <2>5. CASE d = c
    <3>1. d \notin heard /\ ~InOut(d) /\ ~InHand(d) /\ chan[d] # "sent"
      BY <1>1, <1>8, <1>12, <2>1, <2>5 DEF OnePlace
    <3>2. pc'[d] \notin {"idle", "enter", "lock", "body"}
      BY <1>1, <1>12, <2>5
    <3> QED  BY <1>8, <2>1, <2>2, <3>1, <3>2 DEF OnePlace
  <2> QED  BY <2>4, <2>5
<1> QED  BY <1>6, <1>7, <1>13, <1>14, <1>16, <1>17 DEF LineInv

(* The reader moves an answer from the pipe to its hands to the channel.     *)
LEMMA LineReader ==
  ASSUME LineInv, ConnInv, ReaderStep \/ ReaderError
  PROVE  LineInv'
<1>1. UNCHANGED <<pc, result, lock, inbuf, partial, heard, alive>>
  BY DEF ReaderStep, ReaderError, ReaderTake, ReaderSend, ReaderEof, ReaderFlag, ReaderDrain,
         ReaderNotify, ServerVars
<1>2. Stream' = Stream
  BY <1>1, StreamSame
<1>3. LockHeld' /\ WholeLines' /\ Unfinished' /\ \A d : InPipe(d)' = InPipe(d)
  BY <1>1, <1>2 DEF LineInv, LockHeld, WholeLines, Unfinished, InPipe
<1>4. CASE ReaderTake
  <2> DEFINE h == Head(out)
  <2>1. /\ out \in Seq(Calls) /\ out # <<>> /\ reader = "read" /\ out' = Tail(out)
        /\ map' = map \ {h} /\ chan' = chan
        /\ \/ taken' = h /\ reader' = "send"
           \/ taken' = taken /\ reader' = "read"
    BY <1>4 DEF ReaderTake, LineInv, TypeOK
  <2>2. /\ Len(out) \in Nat /\ Len(out) >= 1 /\ h = out[1] /\ h \in Calls
        /\ out' \in Seq(Calls) /\ Len(out') = Len(out) - 1
        /\ \A i \in 1..Len(out') : out'[i] = out[i + 1]
    BY <2>1, NonemptySeq, HeadTailProperties
  <2> HIDE DEF h
  <2>3. TypeOK'
    BY <1>1, <1>4, <2>1, <2>2 DEF LineInv, TypeOK, ReaderTake
  <2>4. OneBody'
    <3>1. ASSUME NEW i \in 1..Len(out'), NEW j \in 1..Len(out'), out'[i] = out'[j]
          PROVE  i = j
      <4>1. i + 1 \in 1..Len(out) /\ j + 1 \in 1..Len(out) /\ out[i + 1] = out[j + 1]
        BY <2>2, <3>1
      <4>2. i + 1 = j + 1
        BY <4>1 DEF LineInv, OneBody
      <4> QED  BY <4>2, <2>2
    <3> QED  BY <1>2, <3>1 DEF LineInv, OneBody
  <2>5. ASSUME NEW d \in Calls PROVE OnePlace(d)'
    <3>1. OnePlace(d)
      BY DEF LineInv
    <3>2. InOut(d)' => InOut(d) /\ d # h
      BY <2>2 DEF InOut, LineInv, OneBody
    <3>3. InHand(d)' => d = h /\ InOut(d)
      BY <2>1, <2>2 DEF InHand, InOut
    <3>4. ~InHand(d)
      BY <2>1 DEF InHand
    <3> QED  BY <1>1, <1>3, <2>1, <3>1, <3>2, <3>3, <3>4 DEF OnePlace
  <2> QED  BY <1>3, <2>3, <2>4, <2>5 DEF LineInv
<1>5. CASE ~ReaderTake
  <2>1. out' = out
    BY <1>5 DEF ReaderStep, ReaderError, ReaderSend, ReaderEof, ReaderFlag, ReaderDrain,
                ReaderNotify, ServerVars
  <2>2. OneBody' /\ \A d : InOut(d)' = InOut(d)
    BY <1>2, <2>1 DEF LineInv, OneBody, InOut
  <2>3. TypeOK'
    BY <1>1, <1>5, <2>1 DEF LineInv, ConnInv, ClientTypes, TypeOK, ReaderStep, ReaderError,
                ReaderSend, ReaderEof, ReaderFlag, ReaderDrain, ReaderNotify
  <2>4. ASSUME NEW d \in Calls PROVE OnePlace(d)'
    <3>1. OnePlace(d)
      BY DEF LineInv
    <3>2. CASE ReaderSend
      <4>1. ~InHand(d)' /\ taken \in Calls /\ reader = "send"
        BY <3>2 DEF ReaderSend, InHand, ConnInv, ClientTypes
      <4>2. chan'[d] = IF d = taken THEN "sent" ELSE chan[d]
        BY <3>2, <4>1 DEF ReaderSend, LineInv, TypeOK
      <4> QED  BY <1>1, <1>3, <2>2, <3>1, <4>1, <4>2 DEF OnePlace, InHand
    <3>3. CASE ~ReaderSend
      <4>1. ~InHand(d)'
        BY <1>5, <3>3 DEF ReaderStep, ReaderError, ReaderEof, ReaderFlag, ReaderDrain,
                          ReaderNotify, InHand
      <4>2. (chan'[d] = "sent") <=> (chan[d] = "sent")
        BY <1>5, <3>3 DEF ReaderStep, ReaderError, ReaderEof, ReaderFlag, ReaderDrain,
                          ReaderNotify, ConnInv, OneSender, ClientTypes
      <4> QED  BY <1>1, <1>3, <2>2, <3>1, <4>1, <4>2 DEF OnePlace
    <3> QED  BY <3>2, <3>3
  <2> QED  BY <1>3, <2>2, <2>3, <2>4 DEF LineInv
<1> QED  BY <1>4, <1>5

(* The server takes whole lines, one request each, and answers a request it  *)
(* has heard.                                                                *)
LEMMA LineServerRead ==
  ASSUME LineInv, ServerRead
  PROVE  LineInv'
<1>1. alive /\ UNCHANGED <<pc, result, lock, out, alive, chan, reader, taken>>
  BY DEF ServerRead, ReaderVars
<1>2. TypeOK /\ WholeLines /\ Len(Stream) \in Nat
  BY StreamType DEF LineInv
<1>3. LockHeld' /\ \A d : InOut(d)' = InOut(d) /\ InHand(d)' = InHand(d)
  BY <1>1 DEF LineInv, LockHeld, InOut, InHand
<1>4. inbuf' \in Seq(Chunks)
  BY <1>2, StreamCases, HeadTailProperties DEF ServerRead
<1>5. TypeOK'
  <2>1. partial' \in Calls \cup {NoCall} /\ heard' \in SUBSET Calls
    BY <1>2, StreamRead DEF TypeOK
  <2> QED  BY <1>2, <1>4, <2>1 DEF TypeOK, ServerRead, ReaderVars, Chunks
<1>6. CASE heard' = heard /\ Stream' = Stream
  <2>1. WholeLines' /\ Unfinished' /\ OneBody' /\ \A d : InPipe(d)' = InPipe(d)
    BY <1>1, <1>6 DEF LineInv, WholeLines, Unfinished, OneBody, InPipe
  <2>2. \A d \in Calls : OnePlace(d)'
    BY <1>1, <1>3, <1>6, <2>1 DEF LineInv, OnePlace
  <2> QED  BY <1>3, <1>5, <2>1, <2>2 DEF LineInv
<1>7. CASE /\ partial \in Calls /\ heard' = heard \cup {partial}
           /\ Stream[1].call = partial /\ Stream[1].part = "body"
           /\ Len(Stream) >= 2 /\ Len(Stream') = Len(Stream) - 2
           /\ \A i \in 1..Len(Stream') : Stream'[i] = Stream[i + 2]
  <2> DEFINE n == Len(Stream)
             m == Len(Stream')
  <2>1. /\ n \in Nat /\ m \in Nat /\ m = n - 2 /\ m % 2 = n % 2
        /\ \A i \in 1..m : i + 2 \in 1..n /\ (i + 2) % 2 = i % 2
    BY <1>2, <1>7
  <2>2. WholeLines'
    <3> SUFFICES ASSUME NEW i \in 1..m
                 PROVE  /\ (i % 2 = 1) <=> Stream'[i].part = "body"
                        /\ i % 2 = 0 => Stream'[i].call = Stream'[i - 1].call
      BY DEF WholeLines
    <3>1. /\ (i % 2 = 1) <=> Stream[i + 2].part = "body"
          /\ i % 2 = 0 => Stream[i + 2].call = Stream[(i + 2) - 1].call
      BY <1>2, <2>1 DEF WholeLines
    <3>2. i % 2 = 0 => i - 1 \in 1..m /\ (i - 1) + 2 = (i + 2) - 1
      BY <2>1
    <3> QED  BY <1>7, <3>1, <3>2
  <2>3. OneBody'
    <3>1. ASSUME NEW i \in 1..m, NEW j \in 1..m,
                 Stream'[i].part = "body", Stream'[j].part = "body",
                 Stream'[i].call = Stream'[j].call
          PROVE  i = j
      <4>1. i + 2 = j + 2
        BY <1>7, <2>1, <3>1 DEF LineInv, OneBody
      <4> QED  BY <4>1, <2>1
    <3> QED  BY <1>1, <3>1 DEF LineInv, OneBody
  <2>4. \A i \in 1..m : Stream'[i].call # partial
    <3> SUFFICES ASSUME NEW i \in 1..m, Stream'[i].call = partial PROVE FALSE
      OBVIOUS
    <3>1. Stream[i + 2].call = partial /\ i + 2 \in 1..n
      BY <1>7, <2>1
    <3>2. CASE Stream[i + 2].part = "body"
      BY <1>7, <2>1, <3>1, <3>2 DEF LineInv, OneBody
    <3>3. CASE Stream[i + 2].part # "body"
      <4>1. (i + 2) % 2 = 0
        BY <1>2, <2>1, <3>1, <3>3 DEF WholeLines
      <4>2. i + 1 \in 1..n /\ (i + 1) % 2 = 1 /\ (i + 2) - 1 = i + 1 /\ i + 1 # 1
        BY <2>1, <4>1
      <4>3. Stream[i + 1].call = partial /\ Stream[i + 1].part = "body"
        BY <1>2, <3>1, <4>1, <4>2 DEF WholeLines
      <4> QED  BY <1>7, <2>1, <4>2, <4>3 DEF LineInv, OneBody
    <3> QED  BY <3>2, <3>3
  <2>5. pc[partial] # "newline"
    <3> SUFFICES ASSUME pc[partial] = "newline" PROVE FALSE
      OBVIOUS
    <3>1. n % 2 = 1 /\ Stream[n].call = partial
      BY <1>1, <1>7 DEF LineInv, Unfinished
    <3>2. Stream[n].part = "body" /\ n \in 1..n /\ 1 \in 1..n /\ n # 1
      BY <1>2, <1>7, <2>1, <3>1 DEF WholeLines
    <3> QED  BY <1>7, <3>1, <3>2 DEF LineInv, OneBody
  <2>6. Unfinished'
    <3>1. n % 2 = 1 => m >= 1 /\ m \in 1..m /\ m + 2 = n /\ Stream'[m] = Stream[n]
      BY <1>7, <2>1
    <3> QED  BY <1>1, <2>1, <3>1 DEF LineInv, Unfinished
  <2>7. ASSUME NEW d \in Calls PROVE OnePlace(d)'
    <3>1. OnePlace(d)
      BY DEF LineInv
    <3>2. InPipe(d)' => InPipe(d)
      BY <1>7, <2>1 DEF InPipe
    <3>3. CASE d # partial
      BY <1>1, <1>3, <1>7, <3>1, <3>2, <3>3 DEF OnePlace
    <3>4. CASE d = partial
      <4>1. InPipe(d)
        BY <1>7, <2>1, <3>4 DEF InPipe
      <4>2. ~InPipe(d)'
        BY <2>4, <3>4 DEF InPipe
      <4> QED  BY <1>1, <1>3, <2>5, <3>1, <3>4, <4>1, <4>2 DEF OnePlace
    <3> QED  BY <3>3, <3>4
  <2> QED  BY <1>3, <1>5, <2>2, <2>3, <2>6, <2>7 DEF LineInv
<1> QED  BY <1>2, <1>6, <1>7, StreamRead

(* An answer takes its request off the server's hands.                      *)
LEMMA LineServerAnswer ==
  ASSUME LineInv, NEW c \in Calls, ServerAnswer(c)
  PROVE  LineInv'
<1>1. /\ c \in heard /\ heard' = heard \ {c} /\ out' = Append(out, c)
      /\ UNCHANGED <<pc, result, lock, inbuf, partial, alive, chan, reader, taken>>
  BY DEF ServerAnswer, ReaderVars
<1>2. /\ out \in Seq(Calls) /\ Len(out) \in Nat /\ out' \in Seq(Calls)
      /\ Len(out') = Len(out) + 1
      /\ \A i \in 1..Len(out) : out'[i] = out[i]
      /\ out'[Len(out) + 1] = c
  BY <1>1, AppendProperties DEF LineInv, TypeOK
<1>3. TypeOK'
  BY <1>1, <1>2 DEF LineInv, TypeOK, ServerAnswer, ReaderVars
<1>4. Stream' = Stream
  BY <1>1, StreamSame
<1>5. LockHeld' /\ WholeLines' /\ Unfinished' /\ \A d : InPipe(d)' = InPipe(d)
  BY <1>1, <1>4 DEF LineInv, LockHeld, WholeLines, Unfinished, InPipe
<1>6. ~InOut(c)
  BY <1>1 DEF LineInv, OnePlace
<1>7. OneBody'
  <2>1. ASSUME NEW i \in 1..Len(out'), NEW j \in 1..Len(out'), out'[i] = out'[j]
        PROVE  i = j
    BY <1>2, <1>6, <2>1 DEF LineInv, OneBody, InOut
  <2> QED  BY <1>4, <2>1 DEF LineInv, OneBody
<1>8. ASSUME NEW d \in Calls PROVE OnePlace(d)'
  <2>1. InOut(d)' => InOut(d) \/ d = c
    BY <1>2 DEF InOut
  <2>2. InHand(d)' = InHand(d) /\ OnePlace(d)
    BY <1>1 DEF InHand, LineInv
  <2> QED  BY <1>1, <1>5, <1>6, <2>1, <2>2 DEF OnePlace
<1> QED  BY <1>3, <1>5, <1>7, <1>8 DEF LineInv

(* A dead server freezes the stream; nobody writes to it or reads it.       *)
LEMMA LineOther ==
  ASSUME LineInv, ServerDies \/ UNCHANGED vars
  PROVE  LineInv'
<1>1. /\ UNCHANGED <<pc, result, lock, inbuf, partial, heard, out, chan, reader, taken>>
      /\ alive' => alive
  BY DEF ServerDies, ReaderVars, vars
<1>2. Stream' = Stream
  BY <1>1, StreamSame
<1>3. TypeOK'
  BY DEF LineInv, TypeOK, ServerDies, ReaderVars, vars
<1>4. /\ LockHeld' /\ WholeLines' /\ Unfinished' /\ OneBody'
      /\ \A d : InPipe(d)' = InPipe(d) /\ InOut(d)' = InOut(d) /\ InHand(d)' = InHand(d)
  BY <1>1, <1>2 DEF LineInv, LockHeld, WholeLines, Unfinished, OneBody, InPipe, InOut, InHand
<1>5. \A d \in Calls : OnePlace(d)'
  BY <1>1, <1>4 DEF LineInv, OnePlace
<1> QED  BY <1>3, <1>4, <1>5 DEF LineInv

(* The line invariant holds in every reachable state of a Client.           *)
LEMMA LineInductive == Spec => []LineInv
<1>1. ConnInv /\ LineInv /\ [Next]_vars => LineInv'
  <2> SUFFICES ASSUME ConnInv, LineInv, [Next]_vars PROVE LineInv'
    OBVIOUS
  <2>1. ASSUME NEW c \in Calls, CallStep(c) \/ Timeout(c) PROVE LineInv'
    BY <2>1, LineQuiet, LineLock, LineWrite DEF CallStep
  <2>2. ASSUME NEW c \in Calls, ServerAnswer(c) PROVE LineInv'
    BY <2>2, LineServerAnswer
  <2> QED  BY <2>1, <2>2, LineReader, LineServerRead, LineOther DEF Next, Idle
<1> QED  BY <1>1, LineInit, ConnInductive, PTL DEF Spec

(* Whatever number of calls share the Client and however their writes, the   *)
(* reader and the server interleave: the lines on the pipe are whole, and an *)
(* answer reaches the call whose request was read in full, once.             *)
THEOREM KeptApart == Spec => []CallsKeptApart
<1>1. LineInv => CallsKeptApart
  <2> SUFFICES ASSUME LineInv, NEW c \in Calls, result[c] = "reply"
               PROVE  Answered(c) /\ \A i \in 1..Len(inbuf) : inbuf[i].call # c
    BY DEF LineInv, CallsKeptApart, TrueReply
  <2>1. c \notin heard /\ ~InOut(c) /\ ~InPipe(c) /\ TypeOK
    BY DEF LineInv, OnePlace
  <2>2. Answered(c)
    BY <2>1 DEF Answered, InOut
  <2>3. ASSUME NEW i \in 1..Len(inbuf), inbuf[i].call = c PROVE FALSE
    <3>1. CASE partial = NoCall
      BY <2>1, <2>3, <3>1, StreamCases DEF InPipe
    <3>2. CASE partial # NoCall
      <4>1. Len(Stream) = Len(inbuf) + 1 /\ Stream[i + 1] = inbuf[i] /\ Len(inbuf) \in Nat
        BY <2>1, <2>3, <3>2, StreamCases
      <4>2. i + 1 \in 1..Len(Stream)
        BY <2>3, <4>1
      <4> QED  BY <2>1, <2>3, <4>1, <4>2 DEF InPipe
    <3> QED  BY <3>1, <3>2
  <2> QED  BY <2>2, <2>3
<1> QED  BY <1>1, LineInductive, PTL
=============================================================================
