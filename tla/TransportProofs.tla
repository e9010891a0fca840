---------------------------- MODULE TransportProofs ----------------------------
(***************************************************************************)
(* Proofs about the transports of common/network.                          *)
(*                                                                         *)
(* Transport: for any sets of options, any number of bytes and messages    *)
(* and any buffers, limits and timeouts.  The inductive invariant is Inv,  *)
(* the type invariant with SetUpInv, which says that after the opening of  *)
(* a socket no step is left that would not close it when it fails, and     *)
(* StreamInv, which says of each byte on its way which one it is.          *)
(*                                                                         *)
(* WsListener: for any finite set of upgrade requests, any sets of         *)
(* goroutines that call Accept and Close and any number of pending         *)
(* connections.  The inductive invariant is WsInv, the type invariant with *)
(*   OnceInv       what is set by the time the body of closeWithCause has  *)
(*                 come how far;                                           *)
(*   HandlerInv    which handlers hold a slot and which are waited for;    *)
(*   TransportInv  whose hands an open transport is in;                    *)
(*   AcceptInv     what a call of Accept has seen of the closing.          *)
(***************************************************************************)
EXTENDS Transport, WsListener, SequenceTheorems, FiniteSetTheorems, TLAPS

-----------------------------------------------------------------------------
(* Transport                                                               *)

\* How many bytes of the reader's message Read has still to return.
Pending == IF reader = NoReader THEN 0 ELSE Len(reader)

\* off tells how many bytes the peer had sent before each message that is on
\* its way; nothing is missing between got, the reader and the messages.
Chain(off) ==
  /\ off[1] = Len(got) + Pending
  /\ off[Len(incoming) + 1] = sent
  /\ \A j \in 1..(Len(incoming) + 1) : off[j] <= sent
  /\ \A j \in 1..Len(incoming) :
       /\ off[j + 1] = off[j] + Len(incoming[j].bytes)
       /\ \A i \in 1..Len(incoming[j].bytes) : incoming[j].bytes[i] = off[j] + i
  /\ reader # NoReader => \A i \in 1..Len(reader) : reader[i] = Len(got) + i

\* Without an error that ends reading for good, the messages follow what was
\* read.  Text messages are empty here, and only WebSocket has a reader.
StreamInv ==
  /\ \A i \in 1..Len(got) : got[i] = i
  /\ Len(got) <= sent
  /\ \A j \in 1..Len(incoming) :
       incoming[j].type = "text" => Len(incoming[j].bytes) = 0
  /\ kind # "ws" => reader = NoReader
  /\ kind # "ws" \/ "read" \notin broken =>
       \E off \in [1..(Len(incoming) + 1) -> Nat] : Chain(off)

\* The constructors of listeners and transports; WebSocket has one here.
Ops == {"listen", "accept", "dial"}
HasOp(op) == op \in Ops /\ (kind = "ws" => op = "dial")

\* Once the socket is open, every step still to come closes it when it fails.
EndInv(e) ==
  /\ Running(e) =>
       /\ HasOp(e.op)
       /\ e.at \in 1 .. Len(SetUp(e.op))
       /\ Opened(e) => \A j \in e.at .. Len(SetUp(e.op)) :
                         SetUp(e.op)[j] \in ClosesOnError(e.op)
  /\ Opened(e) => e.stage \in {"running", "ready"}

SetUpInv ==
  /\ EndInv(listener)
  /\ EndInv(conn)
  /\ listener # Absent => kind # "ws"

Inv == TypeOK /\ SetUpInv /\ StreamInv

USE DEF setupVars, peerVars, readVars, streamVars
USE TransportAssumption DEF TransportAssumption

-----------------------------------------------------------------------------
(* Construction *)

\* The names of the steps.
StepNames == {"resolve", "endpoint", "open", "assert", "keepAlive", "keepAlivePeriod",
              "readBuffer", "writeBuffer", "noDelay", "crypt", "shards", "dscp", "mtu"}

LEMMA Tuple1 ==
    ASSUME NEW S, NEW a \in S
    PROVE  <<a>> \in Seq(S) /\ Len(<<a>>) = 1 /\ <<a>>[1] = a
  OBVIOUS

LEMMA Tuple2 ==
    ASSUME NEW S, NEW a \in S, NEW b \in S
    PROVE  <<a, b>> \in Seq(S) /\ Len(<<a, b>>) = 2 /\ <<a, b>>[1] = a /\ <<a, b>>[2] = b
  OBVIOUS

\* After the step "open" of the list s come steps of C only.
ThenOnly(s, C) ==
  /\ s \in Seq(StepNames)
  /\ Len(s) > 0
  /\ \A i, j \in 1 .. Len(s) : s[i] = "open" /\ i < j => s[j] \in C

\* The socket is opened at the end of a list ...
LEMMA OpenLast ==
    ASSUME NEW C, NEW s \in Seq(StepNames), \A i \in 1 .. Len(s) : s[i] # "open"
    PROVE  ThenOnly(s \o <<"open">>, C)
  <1> DEFINE u == s \o <<"open">>
  <1>1. <<"open">> \in Seq(StepNames) /\ Len(<<"open">>) = 1 /\ Len(s) \in Nat
    BY LenProperties, Tuple1 DEF StepNames
  <1>2. /\ u \in Seq(StepNames) /\ Len(u) = Len(s) + 1
        /\ \A i \in 1 .. (Len(s) + 1) :
             u[i] = IF i <= Len(s) THEN s[i] ELSE <<"open">>[i - Len(s)]
    BY <1>1, ConcatProperties
  <1> HIDE DEF u
  <1>3. \A i, j \in 1 .. Len(u) : i < j => u[i] # "open"
    BY <1>1, <1>2
  <1>4. QED
    BY <1>1, <1>2, <1>3 DEF ThenOnly, u

\* ... and then another list follows.
LEMMA ThenMore ==
    ASSUME NEW C, "open" \notin C, NEW s, ThenOnly(s, C),
           NEW t \in Seq(StepNames), \A i \in 1 .. Len(t) : t[i] \in C
    PROVE  ThenOnly(s \o t, C)
  <1> DEFINE u == s \o t
  <1>1. s \in Seq(StepNames) /\ Len(s) \in Nat /\ Len(t) \in Nat /\ Len(s) > 0
    BY LenProperties DEF ThenOnly
  <1>2. /\ u \in Seq(StepNames) /\ Len(u) = Len(s) + Len(t)
        /\ \A i \in 1 .. (Len(s) + Len(t)) :
             u[i] = IF i <= Len(s) THEN s[i] ELSE t[i - Len(s)]
    BY <1>1, ConcatProperties
  <1> HIDE DEF u
  <1>3. ASSUME NEW i \in 1 .. Len(u), NEW j \in 1 .. Len(u), u[i] = "open", i < j
        PROVE  u[j] \in C
    <2>1. CASE j <= Len(s)
      <3>1. i \in 1 .. Len(s) /\ j \in 1 .. Len(s) /\ u[i] = s[i] /\ u[j] = s[j]
        BY <1>1, <1>2, <1>3, <2>1
      <3>2. QED
        BY <1>3, <3>1 DEF ThenOnly
    <2>2. CASE ~(j <= Len(s))
      <3>1. j - Len(s) \in 1 .. Len(t) /\ u[j] = t[j - Len(s)]
        BY <1>1, <1>2, <2>2
      <3>2. QED
        BY <3>1
    <2>3. QED
      BY <2>1, <2>2
  <1>4. QED
    BY <1>1, <1>2, <1>3 DEF ThenOnly, u

\* The lists of steps that the others are made of.
LEMMA StepLists ==
  /\ TcpOptions \in Seq(StepNames)
  /\ \A i \in 1 .. Len(TcpOptions) : TcpOptions[i] \in TcpCloses
  /\ "open" \notin TcpCloses
  /\ KcpOptions \in Seq(StepNames) /\ \A i \in 1 .. Len(KcpOptions) : KcpOptions[i] # "open"
  /\ KcpSocket \in Seq(StepNames) /\ Len(KcpSocket) = 3
  /\ KcpSocket[1] = "dscp" /\ KcpSocket[2] = "readBuffer" /\ KcpSocket[3] = "writeBuffer"
  /\ KcpSession \in Seq(StepNames) /\ Len(KcpSession) = 1 /\ KcpSession[1] = "mtu"
  <1>1. /\ TcpOptions \in Seq(StepNames)
        /\ \A i \in 1 .. Len(TcpOptions) : TcpOptions[i] \in TcpCloses
        /\ "open" \notin TcpCloses
    <2>1. TcpOptions \in Seq(StepNames) /\ Len(TcpOptions) = 5
      BY DEF TcpOptions, StepNames
    <2>2. DOMAIN TcpOptions = 1 .. Len(TcpOptions)
      BY <2>1, LenProperties
    <2>3. \A i \in 1 .. 5 : TcpOptions[i] # "open"
      BY DEF TcpOptions
    <2>4. QED
      BY <2>1, <2>2, <2>3 DEF TcpCloses
  <1>2. /\ KcpOptions \in Seq(StepNames)
        /\ \A i \in 1 .. Len(KcpOptions) : KcpOptions[i] # "open"
    BY Tuple2 DEF KcpOptions, StepNames
  <1>3. /\ KcpSocket \in Seq(StepNames) /\ Len(KcpSocket) = 3
        /\ KcpSocket[1] = "dscp" /\ KcpSocket[2] = "readBuffer"
        /\ KcpSocket[3] = "writeBuffer"
    BY DEF KcpSocket, StepNames
  <1>4. KcpSession \in Seq(StepNames) /\ Len(KcpSession) = 1 /\ KcpSession[1] = "mtu"
    BY Tuple1 DEF KcpSession, StepNames
  <1>5. QED
    BY <1>1, <1>2, <1>3, <1>4

\* Two steps are in order if only the second opens, or the second closes.
LEMMA TwoSteps ==
    ASSUME NEW C, NEW a \in StepNames, NEW b \in StepNames, a = "open" => b \in C
    PROVE  ThenOnly(<<a, b>>, C)
  <1> DEFINE s == <<a, b>>
  <1>1. s \in Seq(StepNames) /\ Len(s) = 2 /\ s[1] = a /\ s[2] = b
    BY Tuple2
  <1> HIDE DEF s
  <1>2. \A i, j \in 1 .. 2 : i < j => i = 1 /\ j = 2
    OBVIOUS
  <1>3. ThenOnly(s, C)
    BY <1>1, <1>2 DEF ThenOnly
  <1>4. QED
    BY <1>3 DEF s

\* No constructor has a step after the opening of the socket whose error return
\* leaves the socket open: protocol by protocol, and function by function.
LEMMA StepsAfterOpenClose ==
    ASSUME kind \in {"tcp", "kcp", "ws"}, NEW op, HasOp(op)
    PROVE  ThenOnly(SetUp(op), ClosesOnError(op))
  <1>1. ASSUME NEW C PROVE ThenOnly(<<"open">>, C)
    <2> DEFINE s == <<"open">>
    <2>1. s \in Seq(StepNames) /\ Len(s) = 1
      BY Tuple1 DEF StepNames
    <2> HIDE DEF s
    <2>2. \A i, j \in 1 .. 1 : ~(i < j)
      OBVIOUS
    <2>3. ThenOnly(s, C)
      BY <2>1, <2>2 DEF ThenOnly
    <2>4. QED
      BY <2>3 DEF s
  <1>2. CASE kind = "tcp"
    <2>1. CASE op = "listen"
      <3>1. SetUp(op) = <<"resolve", "open">>
        BY <1>2, <2>1 DEF SetUp, TcpListen
      <3>2. QED
        BY <3>1, TwoSteps DEF StepNames
    <2>2. CASE op = "accept"
      <3>1. SetUp(op) = <<"open">> \o TcpOptions /\ ClosesOnError(op) = TcpCloses
        BY <1>2, <2>2 DEF SetUp, ClosesOnError, TcpAccept
      <3>2. QED
        BY <1>1, <3>1, StepLists, ThenMore
    <2>3. CASE op = "dial"
      <3> DEFINE C == TcpDialCloses \cup TcpCloses
      <3>1. SetUp(op) = <<"open", "assert">> \o TcpOptions /\ ClosesOnError(op) = C
        BY <1>2, <2>3 DEF SetUp, ClosesOnError, TcpDial
      <3>2. /\ ThenOnly(<<"open", "assert">>, C) /\ "open" \notin C
            /\ \A i \in 1 .. Len(TcpOptions) : TcpOptions[i] \in C
        BY StepLists, TwoSteps DEF StepNames, TcpDialCloses
      <3> HIDE DEF C
      <3>3. QED
        BY <3>1, <3>2, StepLists, ThenMore
    <2>4. QED
      BY <2>1, <2>2, <2>3 DEF HasOp, Ops
  <1>3. CASE kind = "kcp"
    <2>1. \A C : ThenOnly(KcpOptions \o <<"open">>, C)
      BY StepLists, OpenLast
    <2>2. CASE op = "listen"
      <3>1. /\ SetUp(op) = (KcpOptions \o <<"open">>) \o KcpSocket
            /\ ClosesOnError(op) = KcpListenCloses
        BY <1>3, <2>2 DEF SetUp, ClosesOnError, KcpListen
      <3>2. /\ \A i \in 1 .. Len(KcpSocket) : KcpSocket[i] \in KcpListenCloses
            /\ "open" \notin KcpListenCloses
        BY StepLists DEF KcpListenCloses
      <3>3. QED
        BY <2>1, <3>1, <3>2, StepLists, ThenMore
    <2>3. CASE op = "accept"
      <3>1. SetUp(op) = <<"open">> \o KcpSession /\ ClosesOnError(op) = KcpCloses
        BY <1>3, <2>3 DEF SetUp, ClosesOnError, KcpAccept
      <3>2. /\ \A i \in 1 .. Len(KcpSession) : KcpSession[i] \in KcpCloses
            /\ "open" \notin KcpCloses
        BY StepLists DEF KcpCloses
      <3>3. QED
        BY <1>1, <3>1, <3>2, StepLists, ThenMore
    <2>4. CASE op = "dial"
      <3> DEFINE C == KcpDialCloses \cup KcpCloses
                 s == (KcpOptions \o <<"open">>) \o KcpSocket
      <3>1. SetUp(op) = s \o KcpSession /\ ClosesOnError(op) = C
        BY <1>3, <2>4 DEF SetUp, ClosesOnError, KcpDial
      <3>2. /\ \A i \in 1 .. Len(KcpSocket) : KcpSocket[i] \in C
            /\ \A i \in 1 .. Len(KcpSession) : KcpSession[i] \in C
            /\ "open" \notin C
        BY StepLists DEF KcpDialCloses, KcpCloses
      <3> HIDE DEF C
      <3>3. ThenOnly(s, C)
        BY <2>1, <3>2, StepLists, ThenMore
      <3> HIDE DEF s
      <3>4. QED
        BY <3>1, <3>2, <3>3, StepLists, ThenMore
    <2>5. QED
      BY <2>2, <2>3, <2>4 DEF HasOp, Ops
  <1>4. CASE kind = "ws"
    <2>1. SetUp(op) = <<"endpoint", "open">>
      BY <1>4 DEF HasOp, SetUp, WsDial
    <2>2. QED
      BY <2>1, TwoSteps DEF StepNames
  <1>5. QED
    BY <1>2, <1>3, <1>4

\* The values of listener and conn after a step of a constructor, or a Close.
LEMMA EndSteps ==
    ASSUME NEW e \in Ends
    PROVE  Succeed(e) \in Ends /\ Fail(e) \in Ends /\ [e EXCEPT !.socket = "closed"] \in Ends
  <1>1. e.at + 1 \in Nat
    BY DEF Ends
  <1>2. Succeed(e) \in Ends
    <2> DEFINE last == e.at = Len(SetUp(e.op))
               opens == Step(e) = "open"
    <2>1. Succeed(e) = [e EXCEPT !.stage = IF last THEN "ready" ELSE "running",
                                 !.at = @ + 1,
                                 !.socket = IF opens THEN "open" ELSE @]
      BY DEF Succeed
    <2> HIDE DEF last, opens
    <2>2. QED
      BY <1>1, <2>1 DEF Ends
  <1>3. Fail(e) \in Ends
    <2> DEFINE closes == Opened(e) /\ Step(e) \in ClosesOnError(e.op)
    <2>1. Fail(e) = [e EXCEPT !.stage = "failed", !.at = 0,
                              !.socket = IF closes THEN "closed" ELSE @]
      BY DEF Fail
    <2> HIDE DEF closes
    <2>2. 0 \in Nat /\ e.socket \in {"none", "open", "closed"}
      BY DEF Ends
    <2>3. CASE closes
      BY <2>1, <2>2, <2>3 DEF Ends
    <2>4. CASE ~closes
      BY <2>1, <2>2, <2>4 DEF Ends
    <2>5. QED
      BY <2>3, <2>4
  <1>4. [e EXCEPT !.socket = "closed"] \in Ends
    BY DEF Ends
  <1>5. QED
    BY <1>2, <1>3, <1>4

\* What each of them does to EndInv.
LEMMA EndInvSteps ==
    ASSUME kind \in {"tcp", "kcp", "ws"}, NEW e \in Ends, EndInv(e)
    PROVE  /\ Running(e) => EndInv(Succeed(e)) /\ EndInv(Fail(e))
           /\ e.stage = "ready" => EndInv([e EXCEPT !.socket = "closed"])
  <1>1. CASE Running(e)
    <2> DEFINE len == Len(SetUp(e.op))
    <2>1. HasOp(e.op) /\ len \in Nat /\ e.at \in 1 .. len
      BY <1>1, StepsAfterOpenClose, LenProperties DEF EndInv, ThenOnly
    <2>2. EndInv(Succeed(e))
      <3> DEFINE n == Succeed(e)
      <3>1. /\ n.op = e.op /\ n.at = e.at + 1
            /\ n.stage = IF e.at = len THEN "ready" ELSE "running"
            /\ n.socket = IF Step(e) = "open" THEN "open" ELSE e.socket
        BY DEF Succeed, Ends
      <3> HIDE DEF n
      <3>2. n.stage = "running" => n.at \in 1 .. len
        BY <2>1, <3>1
      <3>3. \A j \in n.at .. len : j \in e.at .. len /\ j \in 1 .. len /\ e.at < j
        BY <2>1, <3>1
      <3>4. CASE Step(e) = "open"
        <4>1. \A j \in n.at .. len : SetUp(e.op)[j] \in ClosesOnError(e.op)
          BY <2>1, <3>3, <3>4, StepsAfterOpenClose DEF Step, ThenOnly
        <4>2. QED
          BY <2>1, <3>1, <3>2, <4>1 DEF EndInv, Running, n
      <3>5. CASE Step(e) # "open"
        <4>1. Opened(n) => \A j \in n.at .. len : SetUp(e.op)[j] \in ClosesOnError(e.op)
          BY <1>1, <3>1, <3>3, <3>5 DEF EndInv, Opened
        <4>2. QED
          BY <2>1, <3>1, <3>2, <4>1 DEF EndInv, Running, n
      <3>6. QED
        BY <3>4, <3>5
    <2>3. EndInv(Fail(e))
      <3>1. Opened(e) => Step(e) \in ClosesOnError(e.op)
        BY <1>1, <2>1 DEF EndInv, Step
      <3>2. Fail(e).stage = "failed" /\ Fail(e).socket # "open"
        BY <3>1 DEF Fail, Opened, Ends
      <3>3. QED
        BY <3>2 DEF EndInv, Running, Opened
    <2>4. QED
      BY <1>1, <2>2, <2>3 DEF Running
  <1>2. ASSUME e.stage = "ready" PROVE EndInv([e EXCEPT !.socket = "closed"])
    BY <1>2 DEF Ends, EndInv, Opened, Running
  <1>3. QED
    BY <1>1, <1>2

\* A constructor begins without a socket.
LEMMA EndBegins ==
    ASSUME NEW op \in {"listen", "accept", "dial"}
    PROVE  Begin(op) \in Ends /\ ~Opened(Begin(op))
  BY DEF Ends, Opened, Begin

\* Nothing of it is left open, whatever step fails.
LEMMA EndInvBegins ==
    ASSUME kind \in {"tcp", "kcp", "ws"}, NEW op, HasOp(op)
    PROVE  EndInv(Begin(op))
  <1>1. Len(SetUp(op)) \in Nat /\ Len(SetUp(op)) > 0
    BY StepsAfterOpenClose, LenProperties DEF ThenOnly
  <1>2. 1 \in 1 .. Len(SetUp(op))
    BY <1>1
  <1>3. QED
    BY <1>2 DEF EndInv, Begin, Running, Opened

\* The deadline of a call that begins or ends.
LEMMA DeadlineType ==
    ASSUME deadline \in [{"dial", "read", "write"} -> 0 .. NoDeadline],
           NEW call \in {"dial", "read", "write"}
    PROVE  /\ Arm(call) => deadline' \in [{"dial", "read", "write"} -> 0 .. NoDeadline]
           /\ Reset(call) => deadline' \in [{"dial", "read", "write"} -> 0 .. NoDeadline]
  BY DEF Arm, Reset, Patience, DialPatience, ReadPatience, WritePatience,
         NoDeadline

\* The rest of a message, and what Read returns of it.
LEMMA Parts ==
    ASSUME NEW s \in Seq(Nat), NEW n \in 1 .. Len(s)
    PROVE  /\ SubSeq(s, 1, n) \in Seq(Nat) /\ Len(SubSeq(s, 1, n)) = n
           /\ \A i \in 1 .. n : SubSeq(s, 1, n)[i] = s[i]
           /\ Rest(s, n) \in Seq(Nat) /\ Len(Rest(s, n)) = Len(s) - n
           /\ \A i \in 1 .. (Len(s) - n) : Rest(s, n)[i] = s[n + i]
  <1>1. Len(s) \in Nat /\ n \in Nat /\ n <= Len(s)
    BY LenProperties
  <1>2. \A i \in 1 .. n : s[i] \in Nat
    BY <1>1, ElementOfSeq
  <1>3. \A i \in (n + 1) .. Len(s) : s[i] \in Nat
    BY <1>1, ElementOfSeq
  <1>4. /\ SubSeq(s, 1, n) \in Seq(Nat) /\ Len(SubSeq(s, 1, n)) = n
        /\ \A i \in 1 .. n : SubSeq(s, 1, n)[i] = s[i]
    BY <1>1, <1>2, SubSeqProperties
  <1>5. /\ Rest(s, n) \in Seq(Nat) /\ Len(Rest(s, n)) = Len(s) - n
        /\ \A i \in 1 .. (Len(s) - n) : Rest(s, n)[i] = s[n + i]
    <2>1. n + 1 \in Int /\ Len(s) \in Int
      BY <1>1
    <2>2. /\ Rest(s, n) \in Seq(Nat)
          /\ Len(Rest(s, n)) = IF n + 1 <= Len(s) THEN Len(s) - (n + 1) + 1 ELSE 0
          /\ \A i \in 1 .. Len(s) - (n + 1) + 1 : Rest(s, n)[i] = s[(n + 1) + i - 1]
      <3> DEFINE t == SubSeq(s, n + 1, Len(s))
      <3>1. t \in Seq(Nat)
        BY ONLY <1>3, <2>1, SubSeqProperties
      <3>2. Len(t) = IF n + 1 <= Len(s) THEN Len(s) - (n + 1) + 1 ELSE 0
        BY ONLY <1>3, <2>1, SubSeqProperties
      <3>3. \A i \in 1 .. Len(s) - (n + 1) + 1 : t[i] = s[(n + 1) + i - 1]
        BY ONLY <1>3, <2>1, SubSeqProperties
      <3> HIDE DEF t
      <3>4. Rest(s, n) = t
        BY Zenon DEF Rest, t
      <3>5. QED
        BY ONLY <3>1, <3>2, <3>3, <3>4
    <2>3. Len(s) - (n + 1) + 1 = Len(s) - n
      BY <1>1
    <2>4. \A i \in 1 .. (Len(s) - n) : (n + 1) + i - 1 = n + i
      BY <1>1
    <2>5. Len(Rest(s, n)) = Len(s) - n
      <3>1. CASE n + 1 <= Len(s)
        BY <2>2, <2>3, <3>1
      <3>2. CASE ~(n + 1 <= Len(s))
        <4>1. Len(s) - n = 0
          BY ONLY <1>1, <3>2
        <4>2. QED
          BY <2>2, <3>2, <4>1
      <3>3. QED
        BY <3>1, <3>2
    <2>6. QED
      BY <2>2, <2>3, <2>4, <2>5
  <1>6. QED
    BY <1>4, <1>5

\* The first message on its way.
LEMMA FirstMessage ==
    ASSUME TypeOK, incoming # <<>>
    PROVE  /\ Head(incoming) = incoming[1] /\ incoming[1] \in Messages
           /\ incoming[1].bytes \in Seq(Nat)
           /\ Tail(incoming) \in Seq(Messages)
           /\ Len(incoming) \in Nat /\ Len(incoming) >= 1
           /\ Len(Tail(incoming)) = Len(incoming) - 1
           /\ \A j \in 1 .. (Len(incoming) - 1) : Tail(incoming)[j] = incoming[j + 1]
  <1>1. incoming \in Seq(Messages)
    BY DEF TypeOK
  <1>2. /\ Tail(incoming) \in Seq(Messages)
        /\ Len(Tail(incoming)) = Len(incoming) - 1
        /\ Head(incoming) \in Messages
        /\ \A j \in 1 .. Len(Tail(incoming)) : Tail(incoming)[j] = incoming[j + 1]
    BY <1>1, HeadTailProperties
  <1>3. Len(incoming) \in Nat /\ Len(incoming) >= 1
    BY <1>1, EmptySeq
  <1>4. Head(incoming) = incoming[1]
    BY <1>1
  <1>5. QED
    BY <1>2, <1>3, <1>4 DEF Messages

-----------------------------------------------------------------------------
(* Each part of the invariant is preserved *)

\* No step gives a variable a value of another type.
LEMMA TypeNext ==
    TypeOK /\ [Next]_vars => TypeOK'
  <1> SUFFICES ASSUME TypeOK, [Next]_vars
               PROVE  TypeOK'
    OBVIOUS
  <1> USE DEF TypeOK
  <1>1. ASSUME NewListener PROVE TypeOK'
    <2>1. listener' \in Ends /\ conn' \in Ends
      BY <1>1, EndSteps, EndBegins DEF NewListener
    <2>2. deadline' \in [{"dial", "read", "write"} -> 0 .. NoDeadline]
      BY <1>1, DeadlineType DEF NewListener
    <2>3. QED
      BY <1>1, <2>1, <2>2 DEF NewListener
  <1>2. ASSUME ListenerStep PROVE TypeOK'
    <2>1. listener' \in Ends /\ conn' \in Ends
      BY <1>2, EndSteps, EndBegins DEF ListenerStep, Advance
    <2>2. deadline' \in [{"dial", "read", "write"} -> 0 .. NoDeadline]
      BY <1>2, DeadlineType DEF ListenerStep
    <2>3. QED
      BY <1>2, <2>1, <2>2 DEF ListenerStep
  <1>3. ASSUME CloseListener PROVE TypeOK'
    <2>1. listener' \in Ends /\ conn' \in Ends
      BY <1>3, EndSteps, EndBegins DEF CloseListener
    <2>2. deadline' \in [{"dial", "read", "write"} -> 0 .. NoDeadline]
      BY <1>3, DeadlineType DEF CloseListener
    <2>3. QED
      BY <1>3, <2>1, <2>2 DEF CloseListener
  <1>4. ASSUME Accept PROVE TypeOK'
    <2>1. listener' \in Ends /\ conn' \in Ends
      BY <1>4, EndSteps, EndBegins DEF Accept
    <2>2. deadline' \in [{"dial", "read", "write"} -> 0 .. NoDeadline]
      BY <1>4, DeadlineType DEF Accept
    <2>3. QED
      BY <1>4, <2>1, <2>2 DEF Accept
  <1>5. ASSUME DialContext PROVE TypeOK'
    <2>1. listener' \in Ends /\ conn' \in Ends
      BY <1>5, EndSteps, EndBegins DEF DialContext
    <2>2. deadline' \in [{"dial", "read", "write"} -> 0 .. NoDeadline]
      BY <1>5, DeadlineType DEF DialContext
    <2>3. QED
      BY <1>5, <2>1, <2>2 DEF DialContext
  <1>6. ASSUME ConnStep PROVE TypeOK'
    <2>1. listener' \in Ends /\ conn' \in Ends
      BY <1>6, EndSteps, EndBegins DEF ConnStep, Advance
    <2>2. deadline' \in [{"dial", "read", "write"} -> 0 .. NoDeadline]
      BY <1>6, DeadlineType DEF ConnStep
    <2>3. QED
      BY <1>6, <2>1, <2>2 DEF ConnStep
  <1>7. ASSUME Connected PROVE TypeOK'
    <2>1. listener' \in Ends /\ conn' \in Ends
      BY <1>7, EndSteps, EndBegins DEF Connected
    <2>2. deadline' \in [{"dial", "read", "write"} -> 0 .. NoDeadline]
      BY <1>7, DeadlineType DEF Connected
    <2>3. QED
      BY <1>7, <2>1, <2>2 DEF Connected
  <1>8. ASSUME NotConnected PROVE TypeOK'
    <2>1. listener' \in Ends /\ conn' \in Ends
      BY <1>8, EndSteps, EndBegins DEF NotConnected
    <2>2. deadline' \in [{"dial", "read", "write"} -> 0 .. NoDeadline]
      BY <1>8, DeadlineType DEF NotConnected
    <2>3. QED
      BY <1>8, <2>1, <2>2 DEF NotConnected
  <1>9. ASSUME Close PROVE TypeOK'
    <2>1. listener' \in Ends /\ conn' \in Ends
      BY <1>9, EndSteps, EndBegins DEF Close
    <2>2. deadline' \in [{"dial", "read", "write"} -> 0 .. NoDeadline]
      BY <1>9, DeadlineType DEF Close
    <2>3. QED
      BY <1>9, <2>1, <2>2 DEF Close
  <1>10. ASSUME NEW type \in {"binary", "text"}, NEW n \in 0 .. Bytes, PeerSends(type, n)
         PROVE  TypeOK'
    <2> DEFINE new == [type |-> type, bytes |-> [i \in 1 .. n |-> sent + i]]
    <2>1. [i \in 1 .. n |-> sent + i] \in Seq(Nat)
      <3>1. n \in Nat /\ [i \in 1 .. n |-> sent + i] \in [1 .. n -> Nat]
        OBVIOUS
      <3>2. \A f \in [1 .. n -> Nat] : f \in Seq(Nat)
        BY <3>1, SeqDef
      <3>3. QED
        BY <3>1, <3>2
    <2>2. new \in Messages
      BY <2>1 DEF Messages
    <2> HIDE DEF new
    <2>3. incoming' = Append(incoming, new) /\ incoming \in Seq(Messages)
      BY <1>10 DEF PeerSends, new
    <2>4. incoming' \in Seq(Messages) /\ Len(incoming') = Len(incoming) + 1
      BY <2>2, <2>3, AppendProperties
    <2>5. Len(incoming') <= Backlog
      BY <1>10, <2>3, <2>4, LenProperties DEF PeerSends
    <2>6. sent' \in 0 .. Bytes
      BY <1>10 DEF PeerSends
    <2>7. QED
      BY <1>10, <2>4, <2>5, <2>6 DEF PeerSends
  <1>11. ASSUME PeerHangsUp PROVE TypeOK'
    BY <1>11 DEF PeerHangsUp
  <1>12. ASSUME NEW n \in 1 .. Bytes, Read(n) PROVE TypeOK'
    <2>1. deadline' \in [{"dial", "read", "write"} -> 0 .. NoDeadline]
      BY <1>12, DeadlineType DEF Read
    <2>2. QED
      BY <1>12, <2>1 DEF Read
  <1>13. ASSUME ReadStream PROVE TypeOK'
    <2>1. PICK n \in 1 .. Len(Head(incoming).bytes) :
            /\ ReadReturns(Head(incoming).bytes, n)
            /\ incoming' = IF n = Len(Head(incoming).bytes) THEN Tail(incoming)
                           ELSE [incoming EXCEPT
                                  ![1].bytes = Rest(Head(incoming).bytes, n)]
      BY <1>13 DEF ReadStream
    <2>2. incoming # <<>>
      BY <1>13 DEF ReadStream
    <2> DEFINE bytes == Head(incoming).bytes
    <2>3. /\ bytes \in Seq(Nat) /\ incoming[1] \in Messages
          /\ Len(incoming) \in Nat /\ Len(incoming) >= 1
          /\ bytes = incoming[1].bytes
      BY <2>2, FirstMessage
    <2> HIDE DEF bytes
    <2>4. SubSeq(bytes, 1, n) \in Seq(Nat) /\ Rest(bytes, n) \in Seq(Nat)
      BY <2>1, <2>3, Parts DEF bytes
    <2>5. got' \in Seq(Nat)
      BY <2>1, <2>4, ConcatProperties DEF ReadReturns, bytes
    <2>6. incoming' \in Seq(Messages) /\ Len(incoming') <= Backlog
      <3>1. CASE incoming' = Tail(incoming)
        BY <2>2, <3>1, FirstMessage
      <3>2. CASE incoming' = [incoming EXCEPT ![1].bytes = Rest(bytes, n)]
        <4> DEFINE m == [incoming[1] EXCEPT !.bytes = Rest(bytes, n)]
        <4>1. m \in Messages
          BY <2>3, <2>4 DEF Messages
        <4>2. incoming' = [incoming EXCEPT ![1] = m] /\ 1 \in 1 .. Len(incoming)
          BY <2>3, <3>2
        <4> HIDE DEF m
        <4>3. incoming \in Seq(Messages) /\ Len(incoming) <= Backlog
          OBVIOUS
        <4>4. QED
          BY <4>1, <4>2, <4>3, ExceptSeq
      <3>3. QED
        BY <2>1, <3>1, <3>2 DEF bytes
    <2>7. deadline' \in [{"dial", "read", "write"} -> 0 .. NoDeadline]
      BY <2>1, DeadlineType DEF ReadReturns
    <2>8. reading' \in 0 .. Bytes
      BY <2>1 DEF ReadReturns
    <2>9. QED
      BY <1>13, <2>5, <2>6, <2>7, <2>8 DEF ReadStream
  <1>14. ASSUME NextMessage PROVE TypeOK'
    <2>1. incoming # <<>> /\ incoming' = Tail(incoming)
      BY <1>14 DEF NextMessage
    <2>2. incoming' \in Seq(Messages) /\ Len(incoming') <= Backlog
      BY <2>1, FirstMessage
    <2>3. Head(incoming).bytes \in Seq(Nat)
      BY <2>1, FirstMessage
    <2>4. /\ deadline' \in [{"dial", "read", "write"} -> 0 .. NoDeadline]
          /\ reading' \in 0 .. Bytes /\ got' = got
      BY <1>14, DeadlineType DEF NextMessage, ReadError
    <2>5. reader' \in {NoReader} \cup Seq(Nat) /\ broken' \subseteq {"read", "write"}
      BY <1>14, <2>3 DEF NextMessage
    <2>6. QED
      BY <1>14, <2>2, <2>4, <2>5 DEF NextMessage
  <1>15. ASSUME ReadMessage PROVE TypeOK'
    <2>1. PICK n \in 1 .. Len(reader) :
            /\ ReadReturns(reader, n)
            /\ reader' = Rest(reader, n) \/ reader' = NoReader
      BY <1>15 DEF ReadMessage
    <2>2. reader \in Seq(Nat)
      BY <1>15 DEF ReadMessage
    <2>3. SubSeq(reader, 1, n) \in Seq(Nat) /\ Rest(reader, n) \in Seq(Nat)
      BY <2>1, <2>2, Parts
    <2>4. got' \in Seq(Nat)
      BY <2>1, <2>3, ConcatProperties DEF ReadReturns
    <2>5. deadline' \in [{"dial", "read", "write"} -> 0 .. NoDeadline]
      BY <2>1, DeadlineType DEF ReadReturns
    <2>6. reader' \in {NoReader} \cup Seq(Nat) /\ reading' \in 0 .. Bytes
      BY <2>1, <2>3 DEF ReadReturns
    <2>7. QED
      BY <1>15, <2>4, <2>5, <2>6 DEF ReadMessage
  <1>16. ASSUME EndOfMessage PROVE TypeOK'
    BY <1>16 DEF EndOfMessage
  <1>17. ASSUME ReadFails PROVE TypeOK'
    <2>1. deadline' \in [{"dial", "read", "write"} -> 0 .. NoDeadline]
      BY <1>17, DeadlineType DEF ReadFails, ReadError
    <2>2. QED
      BY <1>17, <2>1 DEF ReadFails, ReadError
  <1>18. ASSUME Write PROVE TypeOK'
    <2>1. deadline' \in [{"dial", "read", "write"} -> 0 .. NoDeadline]
      BY <1>18, DeadlineType DEF Write
    <2>2. QED
      BY <1>18, <2>1 DEF Write
  <1>19. ASSUME WriteSome PROVE TypeOK'
    <2>1. deadline' \in [{"dial", "read", "write"} -> 0 .. NoDeadline]
      BY <1>19, DeadlineType DEF WriteSome
    <2>2. QED
      BY <1>19, <2>1 DEF WriteSome
  <1>20. ASSUME WriteFails PROVE TypeOK'
    <2>1. deadline' \in [{"dial", "read", "write"} -> 0 .. NoDeadline]
      BY <1>20, DeadlineType DEF WriteFails
    <2>2. QED
      BY <1>20, <2>1 DEF WriteFails
  <1>21. ASSUME Tick PROVE TypeOK'
    <2>1. deadline' \in [{"dial", "read", "write"} -> 0 .. NoDeadline]
      <3>1. \A t \in 0 .. NoDeadline :
              (IF t \in 1 .. Timeout THEN t - 1 ELSE t) \in 0 .. NoDeadline
        BY DEF NoDeadline
      <3>2. DOMAIN deadline = {"dial", "read", "write"}
        OBVIOUS
      <3>3. deadline' = [call \in {"dial", "read", "write"} |->
                           IF deadline[call] \in 1 .. Timeout
                           THEN deadline[call] - 1 ELSE deadline[call]]
        BY <1>21, <3>2 DEF Tick
      <3>4. QED
        BY <3>1, <3>3
    <2>2. QED
      BY <1>21, <2>1 DEF Tick
  <1>22. CASE UNCHANGED vars
    BY <1>22 DEF vars
  <1>23. QED
    BY <1>1, <1>2, <1>3, <1>4, <1>5, <1>6, <1>7, <1>8, <1>9, <1>10, <1>11,
       <1>12, <1>13, <1>14, <1>15, <1>16, <1>17, <1>18, <1>19, <1>20,
       <1>21, <1>22
    DEF Next, ReadStep

\* The steps that leave the listener and the connection alone.
LEMMA OtherSteps ==
    ASSUME [Next]_vars
    PROVE  \/ UNCHANGED setupVars
           \/ NewListener \/ ListenerStep \/ CloseListener
           \/ Accept \/ DialContext \/ ConnStep \/ Connected \/ NotConnected \/ Close
  BY DEF vars, Next, PeerSends, PeerHangsUp, Read, ReadStep, ReadStream,
         NextMessage, ReadMessage, EndOfMessage, ReadFails, Write, WriteSome,
         WriteFails, Tick

\* A step that fails closes the socket that was opened.
LEMMA SetUpNext ==
    TypeOK /\ SetUpInv /\ [Next]_vars => SetUpInv'
  <1> SUFFICES ASSUME TypeOK, SetUpInv, [Next]_vars
               PROVE  SetUpInv'
    OBVIOUS
  <1>1. /\ kind \in {"tcp", "kcp", "ws"} /\ listener \in Ends /\ conn \in Ends
        /\ EndInv(listener) /\ EndInv(conn)
    BY DEF TypeOK, SetUpInv
  <1>2. listener.stage # "none" => kind # "ws"
    BY DEF SetUpInv, Absent
  <1>3. ASSUME kind' = kind, EndInv(listener'), EndInv(conn'),
               listener' # Absent => kind # "ws"
        PROVE  SetUpInv'
    <2>1. \A op : /\ (HasOp(op))' <=> HasOp(op)
                  /\ (SetUp(op))' = SetUp(op)
                  /\ (ClosesOnError(op))' = ClosesOnError(op)
      BY <1>3 DEF HasOp, SetUp, ClosesOnError
    <2>2. EndInv(listener)' /\ EndInv(conn)'
      BY <1>3, <2>1 DEF EndInv, Running, Opened
    <2>3. QED
      BY <1>3, <2>2 DEF SetUpInv, Absent
  <1>4. CASE UNCHANGED setupVars
    BY <1>1, <1>2, <1>3, <1>4 DEF SetUpInv
  <1>5. CASE NewListener
    <2>1. HasOp("listen")
      BY <1>5 DEF NewListener, HasOp, Ops
    <2>2. QED
      BY <1>1, <1>3, <1>5, <2>1, EndInvBegins DEF NewListener
  <1>6. CASE ListenerStep
    <2>1. EndInv(listener')
      BY <1>1, <1>6, EndInvSteps DEF ListenerStep, Advance
    <2>2. kind # "ws"
      BY <1>2, <1>6 DEF ListenerStep, Advance, Running
    <2>3. QED
      BY <1>1, <1>3, <1>6, <2>1, <2>2 DEF ListenerStep
  <1>7. CASE CloseListener
    <2>1. EndInv(listener') /\ kind # "ws"
      BY <1>1, <1>2, <1>7, EndInvSteps DEF CloseListener
    <2>2. QED
      BY <1>1, <1>3, <1>7, <2>1 DEF CloseListener
  <1>8. CASE Accept
    <2>1. HasOp("accept") /\ kind # "ws"
      BY <1>2, <1>8 DEF Accept, HasOp, Ops
    <2>2. QED
      BY <1>1, <1>3, <1>8, <2>1, EndInvBegins DEF Accept
  <1>9. CASE DialContext
    <2>1. HasOp("dial")
      BY DEF HasOp, Ops
    <2>2. QED
      BY <1>1, <1>3, <1>9, <2>1, EndInvBegins DEF DialContext, SetUpInv
  <1>10. CASE ConnStep
    <2>1. EndInv(conn')
      BY <1>1, <1>10, EndInvSteps DEF ConnStep, Advance
    <2>2. QED
      BY <1>1, <1>3, <1>10, <2>1 DEF ConnStep, SetUpInv
  <1>11. CASE Connected
    BY <1>1, <1>3, <1>11, EndInvSteps DEF Connected, SetUpInv
  <1>12. CASE NotConnected
    BY <1>1, <1>3, <1>12, EndInvSteps DEF NotConnected, SetUpInv
  <1>13. CASE Close
    BY <1>1, <1>3, <1>13, EndInvSteps DEF Close, SetUpInv
  <1>14. QED
    BY <1>4, <1>5, <1>6, <1>7, <1>8, <1>9, <1>10, <1>11, <1>12, <1>13, OtherSteps

\* A step that moves no byte; an error may end reading for good.
StreamQuiet ==
  /\ UNCHANGED <<kind, sent, incoming, reader, got>>
  /\ broken \subseteq broken'

\* The other steps send bytes or read them.
LEMMA Steps ==
    ASSUME [Next]_vars
    PROVE  \/ StreamQuiet
           \/ \E type \in {"binary", "text"}, n \in 0 .. Bytes : PeerSends(type, n)
           \/ ReadStream \/ NextMessage \/ ReadMessage \/ EndOfMessage
  <1>1. NewListener => StreamQuiet
    BY DEF NewListener, StreamQuiet
  <1>2. ListenerStep => StreamQuiet
    BY DEF ListenerStep, StreamQuiet
  <1>3. CloseListener => StreamQuiet
    BY DEF CloseListener, StreamQuiet
  <1>4. Accept => StreamQuiet
    BY DEF Accept, StreamQuiet
  <1>5. DialContext => StreamQuiet
    BY DEF DialContext, StreamQuiet
  <1>6. ConnStep => StreamQuiet
    BY DEF ConnStep, StreamQuiet
  <1>7. Connected => StreamQuiet
    BY DEF Connected, StreamQuiet
  <1>8. NotConnected => StreamQuiet
    BY DEF NotConnected, StreamQuiet
  <1>9. Close => StreamQuiet
    BY DEF Close, StreamQuiet
  <1>10. PeerHangsUp => StreamQuiet
    BY DEF PeerHangsUp, StreamQuiet
  <1>11. (\E n \in 1 .. Bytes : Read(n)) => StreamQuiet
    BY DEF Read, StreamQuiet
  <1>12. ReadFails => StreamQuiet
    BY DEF ReadFails, ReadError, StreamQuiet
  <1>13. Write => StreamQuiet
    BY DEF Write, StreamQuiet
  <1>14. WriteSome => StreamQuiet
    BY DEF WriteSome, StreamQuiet
  <1>15. WriteFails => StreamQuiet
    BY DEF WriteFails, StreamQuiet
  <1>16. Tick => StreamQuiet
    BY DEF Tick, StreamQuiet
  <1>17. UNCHANGED vars => StreamQuiet
    BY DEF vars, StreamQuiet
  <1>18. QED
    BY <1>1, <1>2, <1>3, <1>4, <1>5, <1>6, <1>7, <1>8, <1>9, <1>10, <1>11,
       <1>12, <1>13, <1>14, <1>15, <1>16, <1>17
    DEF Next, ReadStep

\* What follows once Read returns n bytes that come next: got grows by them.
LEMMA GotGrows ==
    ASSUME got \in Seq(Nat), \A i \in 1 .. Len(got) : got[i] = i,
           NEW s \in Seq(Nat), NEW n \in 1 .. Len(s), ReadReturns(s, n),
           \A i \in 1 .. Len(s) : s[i] = Len(got) + i
    PROVE  /\ Len(got') = Len(got) + n
           /\ \A i \in 1 .. Len(got') : got'[i] = i
  <1> DEFINE front == SubSeq(s, 1, n)
             g == Len(got)
  <1>1. /\ front \in Seq(Nat) /\ Len(front) = n
        /\ \A i \in 1 .. n : front[i] = s[i]
    BY Parts
  <1>2. got' = got \o front
    BY DEF ReadReturns
  <1> HIDE DEF front
  <1>3. g \in Nat /\ n \in Nat /\ \A i \in 1 .. n : i \in 1 .. Len(s)
    BY LenProperties
  <1>4. Len(got') = g + n
    BY <1>1, <1>2, ConcatProperties
  <1>5. \A i \in 1 .. (g + n) :
          got'[i] = IF i <= g THEN got[i] ELSE front[i - g]
    BY <1>1, <1>2, ConcatProperties
  <1> HIDE DEF g
  <1>6. ASSUME NEW i \in 1 .. (g + n) PROVE got'[i] = i
    <2>1. CASE i <= g
      <3>1. i \in 1 .. g
        BY ONLY <1>3, <2>1, i \in 1 .. (g + n)
      <3>2. got[i] = i
        BY <3>1 DEF g
      <3>3. QED
        BY <1>5, <2>1, <3>2
    <2>2. CASE ~(i <= g)
      <3>1. i - g \in 1 .. n /\ g + (i - g) = i
        BY ONLY <1>3, <2>2, i \in 1 .. (g + n)
      <3>2. front[i - g] = g + (i - g)
        BY <1>1, <1>3, <3>1 DEF g
      <3>3. QED
        BY <1>5, <2>2, <3>1, <3>2
    <2>3. QED
      BY <2>1, <2>2
  <1>7. QED
    BY <1>4, <1>6 DEF g

\* The offsets o put the messages ms one after the other, up to the last byte
\* sent.
Linked(o, ms) ==
    /\ o[Len(ms) + 1] = sent
    /\ \A j \in 1..(Len(ms) + 1) : o[j] <= sent
    /\ \A j \in 1..Len(ms) :
         /\ o[j + 1] = o[j] + Len(ms[j].bytes)
         /\ \A i \in 1..Len(ms[j].bytes) : ms[j].bytes[i] = o[j] + i

\* The first message leaves: the others keep their places.
LEMMA ChainTail ==
    ASSUME TypeOK, incoming # <<>>,
           NEW off \in [1..(Len(incoming) + 1) -> Nat], Chain(off)
    PROVE  \E o \in [1..(Len(Tail(incoming)) + 1) -> Nat] :
             /\ o[1] = off[1] + Len(incoming[1].bytes)
             /\ Linked(o, Tail(incoming))
  <1> DEFINE L == Len(incoming)
             t == Tail(incoming)
             o == [j \in 1..L |-> off[j + 1]]
  <1>1. /\ L \in Nat /\ L >= 1 /\ Len(t) = L - 1
        /\ \A j \in 1..(L - 1) : t[j] = incoming[j + 1]
    BY FirstMessage
  <1>2. /\ off[L + 1] = sent
        /\ \A j \in 1..(L + 1) : off[j] <= sent /\ off[j] \in Nat
        /\ \A j \in 1..L :
             /\ off[j + 1] = off[j] + Len(incoming[j].bytes)
             /\ \A i \in 1..Len(incoming[j].bytes) :
                  incoming[j].bytes[i] = off[j] + i
    BY DEF Chain
  <1> HIDE DEF L, t
  <1>3. /\ L - 1 + 1 = L /\ 1 \in 1..L /\ L \in 1..L
        /\ \A j \in 1..L : j + 1 \in 1..(L + 1)
        /\ \A j \in 1..(L - 1) : j \in 1..L /\ j + 1 \in 1..L
    BY ONLY <1>1
  <1>4. o \in [1..L -> Nat] /\ \A j \in 1..L : o[j] = off[j + 1]
    BY <1>2, <1>3
  <1> HIDE DEF o
  <1>5. o[1] = off[1] + Len(incoming[1].bytes)
    <2>1. o[1] = off[1 + 1] /\ off[1 + 1] = off[1] + Len(incoming[1].bytes)
      BY <1>2, <1>3, <1>4
    <2>2. QED
      BY <2>1
  <1>6. o[L] = sent /\ \A j \in 1..L : o[j] <= sent
    BY <1>2, <1>3, <1>4
  <1>7. ASSUME NEW j \in 1..(L - 1)
        PROVE  /\ o[j + 1] = o[j] + Len(t[j].bytes)
               /\ \A i \in 1..Len(t[j].bytes) : t[j].bytes[i] = o[j] + i
    <2>1. t[j] = incoming[j + 1] /\ o[j] = off[j + 1] /\ o[j + 1] = off[j + 1 + 1]
      BY <1>1, <1>3, <1>4
    <2>2. /\ off[j + 1 + 1] = off[j + 1] + Len(incoming[j + 1].bytes)
          /\ \A i \in 1..Len(incoming[j + 1].bytes) :
               incoming[j + 1].bytes[i] = off[j + 1] + i
      <3>1. j + 1 \in 1..L
        BY <1>3
      <3>2. QED
        BY <1>2, <3>1
    <2>3. QED
      BY <2>1, <2>2
  <1>8. Len(t) + 1 = L
    BY <1>1, <1>3
  <1>9. /\ o \in [1..(Len(t) + 1) -> Nat]
        /\ o[1] = off[1] + Len(incoming[1].bytes)
        /\ o[Len(t) + 1] = sent
        /\ \A j \in 1..(Len(t) + 1) : o[j] <= sent
        /\ \A j \in 1..Len(t) :
             /\ o[j + 1] = o[j] + Len(t[j].bytes)
             /\ \A i \in 1..Len(t[j].bytes) : t[j].bytes[i] = o[j] + i
    BY <1>1, <1>4, <1>5, <1>6, <1>7, <1>8
  <1>10. QED
    BY <1>9 DEF t, Linked

\* The messages on their way stay in the order of their bytes.
LEMMA StreamNext == TypeOK /\ StreamInv /\ [Next]_vars => StreamInv'
  <1> SUFFICES ASSUME TypeOK, StreamInv, [Next]_vars
               PROVE  StreamInv'
    OBVIOUS
  <1> DEFINE L == Len(incoming)
             g == Len(got)
             Live == kind # "ws" \/ "read" \notin broken
  <1>1. /\ incoming \in Seq(Messages) /\ L \in Nat /\ g \in Nat /\ got \in Seq(Nat)
        /\ sent \in Nat
    BY LenProperties DEF TypeOK
  <1>2. \A j \in 1..L : incoming[j].bytes \in Seq(Nat)
    <2>1. \A j \in 1..L : incoming[j] \in Messages
      BY <1>1, ElementOfSeq
    <2>2. QED
      BY <2>1 DEF Messages
  <1>3. CASE StreamQuiet
    BY <1>3 DEF StreamInv, StreamQuiet, Chain, Pending
  <1>4. ASSUME NEW type \in {"binary", "text"}, NEW n \in 0 .. Bytes,
               PeerSends(type, n)
        PROVE  StreamInv'
    <2> DEFINE bytes == [i \in 1 .. n |-> sent + i]
               new == [type |-> type, bytes |-> bytes]
    <2>1. /\ UNCHANGED <<kind, broken, reader, got>> /\ sent' = sent + n
          /\ incoming' = Append(incoming, new) /\ (type = "text" => n = 0)
      BY <1>4 DEF PeerSends
    <2>2. bytes \in Seq(Nat) /\ Len(bytes) = n /\ \A i \in 1 .. n : bytes[i] = sent + i
      <3>1. n \in Nat /\ bytes \in [1 .. n -> Nat]
        BY <1>1
      <3>2. \A f \in [1 .. n -> Nat] : f \in Seq(Nat)
        BY <3>1, SeqDef
      <3>3. bytes \in Seq(Nat)
        BY <3>1, <3>2
      <3>4. Len(bytes) = n
        BY <3>1, <3>3, LenProperties
      <3>5. QED
        BY <3>3, <3>4
    <2> HIDE DEF bytes
    <2>3. new \in Messages /\ new.type = type /\ new.bytes = bytes
      BY <2>2 DEF Messages
    <2> HIDE DEF new
    <2>4. /\ Len(incoming') = L + 1 /\ incoming'[L + 1] = new
          /\ \A j \in 1..L : incoming'[j] = incoming[j]
      BY <1>1, <2>1, <2>3, AppendProperties
    <2> HIDE DEF L
    <2>5. \A j \in 1..(L + 1) : j \in 1..L \/ j = L + 1
      BY ONLY <1>1
    <2>6. \A j \in 1..Len(incoming') :
            incoming'[j].type = "text" => Len(incoming'[j].bytes) = 0
      BY <2>1, <2>2, <2>3, <2>4, <2>5 DEF StreamInv, L
    <2>7. ASSUME Live
          PROVE  \E off \in [1..(Len(incoming') + 1) -> Nat] : Chain(off)'
      <3>1. PICK off \in [1..(L + 1) -> Nat] : Chain(off)
        BY <2>7 DEF StreamInv, L
      <3>2. /\ \A j \in 1..(L + 1) : j \in 1..(L + 1 + 1) /\ j # L + 1 + 1
            /\ \A j \in 1..(L + 1 + 1) : j \in 1..(L + 1) \/ j = L + 1 + 1
            /\ L + 1 + 1 \in 1..(L + 1 + 1) /\ 1 \in 1..(L + 1)
            /\ \A j \in 1..L : j \in 1..(L + 1) /\ j + 1 \in 1..(L + 1)
            /\ L + 1 \in 1..(L + 1)
        BY ONLY <1>1
      <3>3. PICK new_off \in [1..(L + 1 + 1) -> Nat] :
              /\ \A j \in 1..(L + 1) : new_off[j] = off[j]
              /\ new_off[L + 1 + 1] = sent + n
        <4> DEFINE f == [j \in 1..(L + 1 + 1) |->
                           IF j = L + 1 + 1 THEN sent + n ELSE off[j]]
        <4>1. sent + n \in Nat
          BY <1>1
        <4>2. f \in [1..(L + 1 + 1) -> Nat]
          BY <3>2, <4>1
        <4>3. \A j \in 1..(L + 1) : f[j] = off[j]
          BY <3>2
        <4>4. f[L + 1 + 1] = sent + n
          BY <3>2
        <4> HIDE DEF f
        <4>5. QED
          BY <4>2, <4>3, <4>4
      <3>5. /\ off[1] = g + Pending /\ off[L + 1] = sent
            /\ \A j \in 1..(L + 1) : off[j] <= sent /\ off[j] \in Nat
            /\ \A j \in 1..L :
                 /\ off[j + 1] = off[j] + Len(incoming[j].bytes)
                 /\ \A i \in 1..Len(incoming[j].bytes) :
                      incoming[j].bytes[i] = off[j] + i
            /\ reader # NoReader => \A i \in 1..Len(reader) : reader[i] = g + i
        BY <3>1 DEF Chain, L
      <3>6. \A j \in 1..(L + 1 + 1) : new_off[j] <= sent + n
        <4>1. n \in Nat /\ sent \in Nat
          BY <1>1
        <4>2. \A j \in 1..(L + 1) : new_off[j] <= sent + n
          BY <3>3, <3>5, <4>1
        <4>3. QED
          BY <3>2, <3>3, <4>1, <4>2
      <3>7. \A j \in 1..(L + 1) :
              /\ new_off[j + 1] = new_off[j] + Len(incoming'[j].bytes)
              /\ \A i \in 1..Len(incoming'[j].bytes) :
                   incoming'[j].bytes[i] = new_off[j] + i
        <4>1. ASSUME NEW j \in 1..L
              PROVE  /\ new_off[j + 1] = new_off[j] + Len(incoming'[j].bytes)
                     /\ \A i \in 1..Len(incoming'[j].bytes) :
                          incoming'[j].bytes[i] = new_off[j] + i
          <5>1. incoming'[j] = incoming[j]
            BY <2>4
          <5>2. new_off[j] = off[j] /\ new_off[j + 1] = off[j + 1]
            BY <3>2, <3>3
          <5>3. QED
            BY <3>5, <5>1, <5>2
        <4>2. /\ new_off[L + 1 + 1] = new_off[L + 1] + Len(incoming'[L + 1].bytes)
              /\ \A i \in 1..Len(incoming'[L + 1].bytes) :
                   incoming'[L + 1].bytes[i] = new_off[L + 1] + i
          BY <2>2, <2>3, <2>4, <3>2, <3>3, <3>5
        <4>3. QED
          BY <2>5, <4>1, <4>2
      <3>8. Chain(new_off)'
        <4>1. /\ Len(incoming') = L + 1 /\ Pending' = Pending /\ Len(got') = g
              /\ reader' = reader /\ got' = got /\ sent' = sent + n
          BY <2>1, <2>4 DEF Pending
        <4>2. new_off[1] = g + Pending
          BY <3>2, <3>3, <3>5
        <4>3. QED
          BY <3>3, <3>5, <3>6, <3>7, <4>1, <4>2 DEF Chain
      <3>9. QED
        BY <2>4, <3>8
    <2>8. Len(got') <= sent'
      BY <1>1, <2>1 DEF StreamInv
    <2>9. QED
      BY <2>1, <2>6, <2>7, <2>8 DEF StreamInv
  <1>5. CASE EndOfMessage
    <2>1. /\ UNCHANGED <<kind, incoming, sent, broken, got>>
          /\ reader = <<>> /\ reader' = NoReader /\ reader # NoReader
      BY <1>5, EmptySeq DEF EndOfMessage
    <2>2. Pending' = Pending
      BY <2>1, EmptySeq DEF Pending
    <2>3. ASSUME NEW off, Chain(off)
          PROVE  Chain(off)'
      BY <2>1, <2>2, <2>3 DEF Chain
    <2>4. QED
      BY <2>1, <2>3 DEF StreamInv
  <1>6. CASE ReadMessage
    <2>1. PICK n \in 1 .. Len(reader) :
            /\ ReadReturns(reader, n)
            /\ reader' = Rest(reader, n) \/ (n = Len(reader) /\ reader' = NoReader)
      BY <1>6 DEF ReadMessage
    <2>2. /\ UNCHANGED <<kind, incoming, sent, broken>>
          /\ reader \in Seq(Nat) /\ reader # NoReader /\ "read" \notin broken
      BY <1>6 DEF ReadMessage, TypeOK
    <2>3. PICK off \in [1..(L + 1) -> Nat] : Chain(off)
      BY <2>2 DEF StreamInv
    <2>4. /\ off[1] = g + Len(reader) /\ \A i \in 1..Len(reader) : reader[i] = g + i
          /\ off[1] <= sent
      <3>1. 1 \in 1..(L + 1)
        BY ONLY <1>1
      <3>2. QED
        BY <1>1, <2>2, <2>3, <3>1 DEF Chain, Pending
    <2>5. /\ Len(got') = g + n
          /\ \A i \in 1..Len(got') : got'[i] = i
      BY <1>1, <2>1, <2>2, <2>4, GotGrows DEF StreamInv
    <2>6. /\ Rest(reader, n) \in Seq(Nat) /\ Len(Rest(reader, n)) = Len(reader) - n
          /\ \A i \in 1 .. (Len(reader) - n) : Rest(reader, n)[i] = reader[n + i]
      BY <2>2, Parts
    <2>7. Len(reader) \in Nat /\ n \in Nat /\ n <= Len(reader)
      BY <2>2, LenProperties
    <2>8. g + n <= sent
      BY ONLY <1>1, <2>4, <2>7
    <2>9. CASE reader' = Rest(reader, n)
      <3>1. reader' # NoReader
        BY <2>6, <2>9
      <3>2. Pending' = Len(reader) - n
        BY <2>6, <2>9, <3>1 DEF Pending
      <3>3. g + n + (Len(reader) - n) = g + Len(reader)
        BY ONLY <1>1, <2>7
      <3>4. ASSUME NEW i \in 1 .. (Len(reader) - n) PROVE reader'[i] = g + n + i
        <4>1. n + i \in 1 .. Len(reader) /\ g + (n + i) = g + n + i
          BY ONLY <1>1, <2>7, i \in 1 .. (Len(reader) - n)
        <4>2. reader'[i] = reader[n + i]
          BY <2>6, <2>9
        <4>3. QED
          BY <2>4, <4>1, <4>2
      <3>5. Chain(off)'
        BY <2>2, <2>3, <2>4, <2>5, <2>6, <2>9, <3>2, <3>3, <3>4 DEF Chain
      <3>6. QED
        BY <2>2, <2>5, <2>8, <3>5 DEF StreamInv
    <2>10. CASE n = Len(reader) /\ reader' = NoReader
      <3>1. Pending' = 0 /\ g + n + 0 = g + n
        BY <1>1, <2>7, <2>10 DEF Pending
      <3>2. Chain(off)'
        BY <2>2, <2>3, <2>4, <2>5, <2>10, <3>1 DEF Chain
      <3>3. QED
        BY <2>2, <2>5, <2>8, <2>10, <3>2 DEF StreamInv
    <2>11. QED
      BY <2>1, <2>9, <2>10
  <1>7. CASE NextMessage
    <2>1. /\ UNCHANGED <<kind, sent, got>> /\ incoming # <<>> /\ kind = "ws"
          /\ incoming' = Tail(incoming) /\ reader = NoReader
          /\ "read" \notin broken
      BY <1>7 DEF NextMessage, ReadError
    <2>2. /\ Len(incoming') = L - 1 /\ L >= 1
          /\ \A j \in 1..(L - 1) : incoming'[j] = incoming[j + 1]
          /\ incoming[1].bytes \in Seq(Nat) /\ Head(incoming) = incoming[1]
      BY <2>1, FirstMessage
    <2>3. \A j \in 1..(L - 1) : j + 1 \in 1..L
      BY ONLY <1>1
    <2>4. \A j \in 1..Len(incoming') :
            incoming'[j].type = "text" => Len(incoming'[j].bytes) = 0
      BY <2>2, <2>3 DEF StreamInv
    <2>5. PICK off \in [1..(L + 1) -> Nat] : Chain(off)
      BY <2>1 DEF StreamInv
    <2>6. PICK o \in [1..(Len(incoming') + 1) -> Nat] :
               /\ o[1] = off[1] + Len(incoming[1].bytes)
               /\ o[Len(incoming') + 1] = sent
               /\ \A j \in 1..(Len(incoming') + 1) : o[j] <= sent
               /\ \A j \in 1..Len(incoming') :
                    /\ o[j + 1] = o[j] + Len(incoming'[j].bytes)
                    /\ \A i \in 1..Len(incoming'[j].bytes) :
                         incoming'[j].bytes[i] = o[j] + i
      <3>1. PICK o \in [1..(Len(Tail(incoming)) + 1) -> Nat] :
               /\ o[1] = off[1] + Len(incoming[1].bytes)
               /\ Linked(o, Tail(incoming))
        BY <2>1, <2>5, ChainTail
      <3>2. Linked(o, incoming') /\ o \in [1..(Len(incoming') + 1) -> Nat]
        BY <2>1, <3>1
      <3>3. QED
        BY <3>1, <3>2 DEF Linked
    <2>7. off[1] = g
      BY <1>1, <2>1, <2>5 DEF Chain, Pending
    <2>8. Len(incoming[1].bytes) \in Nat /\ 1 \in 1..L
      BY <1>1, <2>2, LenProperties
    <2>9. \A i \in 1..Len(incoming[1].bytes) : incoming[1].bytes[i] = g + i
      BY <2>5, <2>7, <2>8 DEF Chain
    <2>10. CASE reader' = Head(incoming).bytes /\ broken' = broken
      <3>1. reader' # NoReader /\ reader' = incoming[1].bytes
        BY <2>2, <2>10
      <3>2. Pending' = Len(incoming[1].bytes)
        BY <3>1 DEF Pending
      <3>3. Chain(o)'
        BY <2>1, <2>6, <2>7, <2>9, <3>1, <3>2 DEF Chain
      <3>4. QED
        BY <2>1, <2>4, <3>3 DEF StreamInv
    <2>11. CASE Head(incoming).type = "text" /\ UNCHANGED <<broken, reader>>
      <3>1. Len(incoming[1].bytes) = 0
        BY <2>2, <2>8, <2>11 DEF StreamInv
      <3>2. Pending' = 0 /\ o[1] = g + 0
        BY <1>1, <2>1, <2>6, <2>7, <2>11, <3>1 DEF Pending
      <3>3. Chain(o)'
        BY <2>1, <2>6, <2>11, <3>2 DEF Chain
      <3>4. QED
        BY <2>1, <2>4, <2>11, <3>3 DEF StreamInv
    <2>12. CASE "read" \in broken' /\ reader' = reader
      BY <2>1, <2>4, <2>12 DEF StreamInv
    <2>13. QED
      BY <1>7, <2>10, <2>11, <2>12 DEF NextMessage
  <1>8. CASE ReadStream
    <2> DEFINE bytes == Head(incoming).bytes
    <2>1. PICK n \in 1 .. Len(bytes) :
            /\ ReadReturns(bytes, n)
            /\ incoming' = IF n = Len(bytes) THEN Tail(incoming)
                           ELSE [incoming EXCEPT ![1].bytes = Rest(bytes, n)]
      BY <1>8 DEF ReadStream
    <2>2. /\ UNCHANGED <<kind, sent, broken, reader>> /\ incoming # <<>>
          /\ kind # "ws" /\ reader = NoReader
      BY <1>8 DEF ReadStream, StreamInv
    <2>3. /\ bytes = incoming[1].bytes /\ bytes \in Seq(Nat) /\ L >= 1
          /\ incoming[1] \in Messages
          /\ Len(Tail(incoming)) = L - 1
          /\ \A j \in 1..(L - 1) : Tail(incoming)[j] = incoming[j + 1]
      BY <2>2, FirstMessage
    <2> HIDE DEF bytes
    <2>4. PICK off \in [1..(L + 1) -> Nat] : Chain(off)
      BY <2>2 DEF StreamInv
    <2>5. off[1] = g /\ 1 \in 1..L /\ off[L + 1] = sent
      BY <1>1, <2>2, <2>3, <2>4 DEF Chain, Pending
    <2>6. /\ \A i \in 1..Len(bytes) : bytes[i] = g + i
          /\ off[1 + 1] = g + Len(bytes) /\ off[1 + 1] <= sent
      <3>1. 1 + 1 \in 1..(L + 1)
        BY <1>1, <2>3
      <3>2. QED
        BY <2>3, <2>4, <2>5, <3>1 DEF Chain
    <2>7. /\ Len(got') = g + n
          /\ \A i \in 1..Len(got') : got'[i] = i
      BY <1>1, <2>1, <2>3, <2>6, GotGrows DEF StreamInv
    <2>8. Len(bytes) \in Nat /\ n \in Nat /\ 1 <= n /\ n <= Len(bytes)
      BY <2>3, LenProperties
    <2>9. g + n <= sent
      BY ONLY <1>1, <2>6, <2>8
    <2>10. CASE n = Len(bytes)
      <3>1. incoming' = Tail(incoming)
        BY <2>1, <2>10
      <3>2. \A j \in 1..(L - 1) : j + 1 \in 1..L
        BY ONLY <1>1
      <3>3. \A j \in 1..Len(incoming') :
              incoming'[j].type = "text" => Len(incoming'[j].bytes) = 0
        BY <2>3, <3>1, <3>2 DEF StreamInv
      <3>4. PICK o \in [1..(Len(incoming') + 1) -> Nat] :
                 /\ o[1] = off[1] + Len(incoming[1].bytes)
                 /\ o[Len(incoming') + 1] = sent
                 /\ \A j \in 1..(Len(incoming') + 1) : o[j] <= sent
                 /\ \A j \in 1..Len(incoming') :
                      /\ o[j + 1] = o[j] + Len(incoming'[j].bytes)
                      /\ \A i \in 1..Len(incoming'[j].bytes) :
                           incoming'[j].bytes[i] = o[j] + i
        <4>1. PICK o \in [1..(Len(Tail(incoming)) + 1) -> Nat] :
                 /\ o[1] = off[1] + Len(incoming[1].bytes)
                 /\ Linked(o, Tail(incoming))
          BY <2>2, <2>4, ChainTail
        <4>2. Linked(o, incoming') /\ o \in [1..(Len(incoming') + 1) -> Nat]
          BY <3>1, <4>1
        <4>3. QED
          BY <4>1, <4>2 DEF Linked
      <3>5. Pending' = 0 /\ o[1] = g + n + 0
        BY <1>1, <2>2, <2>3, <2>5, <2>8, <2>10, <3>4 DEF Pending
      <3>6. Chain(o)'
        BY <2>2, <2>7, <3>4, <3>5 DEF Chain
      <3>7. QED
        BY <2>2, <2>7, <2>9, <3>3, <3>6 DEF StreamInv
    <2>11. CASE n # Len(bytes)
      <3> DEFINE rest == Rest(bytes, n)
                 m == [incoming[1] EXCEPT !.bytes = rest]
      <3>1. /\ rest \in Seq(Nat) /\ Len(rest) = Len(bytes) - n
            /\ \A i \in 1 .. (Len(bytes) - n) : rest[i] = bytes[n + i]
        BY <2>3, Parts
      <3>2. incoming' = [incoming EXCEPT ![1].bytes = rest]
        BY <2>1, <2>11
      <3> HIDE DEF rest
      <3>3. m \in Messages /\ m.bytes = rest /\ m.type = incoming[1].type
        BY <2>3, <3>1 DEF Messages
      <3>4. incoming' = [incoming EXCEPT ![1] = m]
        BY <3>2
      <3> HIDE DEF m
      <3>5. /\ Len(incoming') = L
            /\ \A j \in 1..L : incoming'[j] = IF j = 1 THEN m ELSE incoming[j]
        BY <1>1, <2>5, <3>3, <3>4, ExceptSeq
      <3> HIDE DEF L
      <3>6. \A j \in 1..L : /\ incoming'[j].type = incoming[j].type
                            /\ j # 1 => incoming'[j] = incoming[j]
        BY <3>3, <3>5
      <3>7. /\ incoming'[1].bytes = rest
            /\ incoming[1].type = "text" => Len(bytes) = 0
        BY <2>3, <2>5, <3>3, <3>5 DEF StreamInv, L
      <3>8. \A j \in 1..L :
              incoming'[j].type = "text" => Len(incoming'[j].bytes) = 0
        <4>1. incoming[1].type # "text"
          BY <2>8, <3>7
        <4>2. QED
          BY <3>6, <4>1 DEF StreamInv, L
      <3>9. PICK o \in [1..(L + 1) -> Nat] :
              o[1] = g + n /\ \A j \in 1..(L + 1) : j # 1 => o[j] = off[j]
        <4> DEFINE f == [j \in 1..(L + 1) |-> IF j = 1 THEN g + n ELSE off[j]]
        <4>1. g + n \in Nat /\ 1 \in 1..(L + 1)
          BY ONLY <1>1, <2>8
        <4>2. f \in [1..(L + 1) -> Nat]
          BY <4>1 DEF L
        <4>3. f[1] = g + n
          BY <4>1
        <4>4. \A j \in 1..(L + 1) : j # 1 => f[j] = off[j]
          OBVIOUS
        <4> HIDE DEF f
        <4>5. QED
          BY <4>2, <4>3, <4>4
      <3>10. /\ \A j \in 1..(L + 1) : off[j] <= sent
             /\ \A j \in 1..L :
                  /\ off[j + 1] = off[j] + Len(incoming[j].bytes)
                  /\ \A i \in 1..Len(incoming[j].bytes) :
                       incoming[j].bytes[i] = off[j] + i
             /\ off[L + 1] = sent
        BY <2>4, <2>5 DEF Chain, L
      <3>11. /\ L + 1 # 1 /\ L + 1 \in 1..(L + 1) /\ 1 + 1 \in 1..(L + 1)
             /\ \A j \in 1..L : j + 1 # 1 /\ j + 1 \in 1..(L + 1) /\ j \in 1..(L + 1)
             /\ 1 + 1 # 1
        <4>1. L \in Nat /\ L >= 1
          BY <1>1, <2>3 DEF L
        <4> HIDE DEF L
        <4>2. QED
          BY ONLY <4>1
      <3>12. o[L + 1] = sent /\ \A j \in 1..(L + 1) : o[j] <= sent
        BY <2>9, <3>9, <3>10, <3>11
      <3>13. /\ o[1 + 1] = o[1] + Len(incoming'[1].bytes)
             /\ \A i \in 1..Len(incoming'[1].bytes) :
                  incoming'[1].bytes[i] = o[1] + i
        <4>1. o[1 + 1] = g + Len(bytes)
          BY <2>6, <3>9, <3>11
        <4>2. g + Len(bytes) = g + n + (Len(bytes) - n)
          BY ONLY <1>1, <2>8
        <4>3. ASSUME NEW i \in 1 .. (Len(bytes) - n) PROVE rest[i] = g + n + i
          <5>1. n + i \in 1 .. Len(bytes) /\ g + (n + i) = g + n + i
            BY ONLY <1>1, <2>8, i \in 1 .. (Len(bytes) - n)
          <5>2. QED
            BY <2>6, <3>1, <5>1
        <4>4. QED
          BY <3>1, <3>7, <3>9, <4>1, <4>2, <4>3
      <3>14. \A j \in 1..L :
               /\ o[j + 1] = o[j] + Len(incoming'[j].bytes)
               /\ \A i \in 1..Len(incoming'[j].bytes) :
                    incoming'[j].bytes[i] = o[j] + i
        <4>1. ASSUME NEW j \in 1..L, j # 1
              PROVE  /\ o[j + 1] = o[j] + Len(incoming'[j].bytes)
                     /\ \A i \in 1..Len(incoming'[j].bytes) :
                          incoming'[j].bytes[i] = o[j] + i
          <5>1. /\ incoming'[j] = incoming[j] /\ o[j] = off[j]
                /\ o[j + 1] = off[j + 1]
            BY <3>6, <3>9, <3>11, <4>1
          <5>2. QED
            BY <3>10, <5>1
        <4>2. QED
          BY <3>13, <4>1
      <3>15. Pending' = 0 /\ o[1] = g + n + 0
        BY <1>1, <2>2, <2>8, <3>9 DEF Pending
      <3>16. Chain(o)'
        BY <2>2, <2>7, <3>5, <3>12, <3>14, <3>15 DEF Chain
      <3>17. QED
        BY <2>2, <2>7, <2>9, <3>5, <3>8, <3>16 DEF StreamInv
    <2>12. QED
      BY <2>10, <2>11
  <1>9. QED
    BY <1>3, <1>4, <1>5, <1>6, <1>7, <1>8, Steps

-----------------------------------------------------------------------------
(* The invariant *)

\* Before anything is constructed the invariant holds.
THEOREM InvInit == Init => Inv
  <1> SUFFICES ASSUME Init PROVE Inv
    OBVIOUS
  <1>1. <<>> \in Seq(Messages) /\ <<>> \in Seq(Nat) /\ Len(<<>>) = 0
    BY EmptySeq
  <1>2. Absent \in Ends /\ ~Opened(Absent)
    BY DEF Absent, Ends, Opened
  <1>3. TypeOK
    <2>1. deadline \in [{"dial", "read", "write"} -> 0 .. NoDeadline]
      BY DEF Init, NoDeadline
    <2>2. hungUp \in BOOLEAN
      BY Zenon DEF Init
    <2>3. /\ kind \in {"tcp", "kcp", "ws"} /\ conf \subseteq Options
          /\ sent \in 0 .. Bytes /\ reading \in 0 .. Bytes /\ writing \in 0 .. 2
          /\ broken \subseteq {"read", "write"}
      BY DEF Init
    <2>4. /\ incoming \in Seq(Messages) /\ Len(incoming) <= Backlog
          /\ got \in Seq(Nat) /\ reader \in {NoReader} \cup Seq(Nat)
      BY <1>1 DEF Init
    <2>5. listener \in Ends /\ conn \in Ends
      BY <1>2 DEF Init
    <2>6. QED
      BY <2>1, <2>2, <2>3, <2>4, <2>5 DEF TypeOK
  <1>4. SetUpInv
    BY <1>2 DEF Init, SetUpInv, EndInv, Running, Absent
  <1>5. StreamInv
    <2>1. PICK off \in [1..(Len(incoming) + 1) -> Nat] :
            \A j \in 1..(Len(incoming) + 1) : off[j] = 0
      <3>1. [j \in 1..(Len(incoming) + 1) |-> 0]
              \in [1..(Len(incoming) + 1) -> Nat]
        OBVIOUS
      <3>2. QED
        BY <3>1
    <2>2. /\ Len(incoming) = 0 /\ Len(got) = 0 /\ sent = 0 /\ reader = NoReader
          /\ Pending = 0
      BY <1>1 DEF Init, Pending
    <2>3. Chain(off)
      BY <2>1, <2>2 DEF Chain
    <2>4. QED
      BY <2>1, <2>2, <2>3 DEF StreamInv
  <1>6. QED
    BY <1>3, <1>4, <1>5 DEF Inv

\* Every step preserves the invariant.
THEOREM InvNext == Inv /\ [Next]_vars => Inv'
  BY TypeNext, SetUpNext, StreamNext DEF Inv

\* The invariant holds in every reachable state.
THEOREM Invariance == Spec => []Inv
  BY InvInit, InvNext, PTL DEF Spec

\* Every variable has its type.
THEOREM TypeCorrect == Spec => []TypeOK
  <1>1. Inv => TypeOK
    BY DEF Inv
  <1>2. QED
    BY <1>1, Invariance, PTL

\* No error return of a constructor, of Accept or of DialContext leaves an open
\* socket to nobody: whichever options are set and whichever step fails, in each
\* protocol the steps after the opening are those that close.
THEOREM SocketsOwned == Spec => []NoSocketLeaked
  <1>1. Inv => NoSocketLeaked
    BY DEF Inv, SetUpInv, EndInv, NoSocketLeaked
  <1>2. QED
    BY <1>1, Invariance, PTL

\* Read returns the bytes the peer sent, in order, without loss or repetition.
THEOREM StreamCorrect == Spec => []StreamIntact
  <1>1. Inv => StreamIntact
    <2> SUFFICES ASSUME Inv PROVE StreamIntact
      OBVIOUS
    <2>1. got \in Seq(Nat) /\ \A i \in 1..Len(got) : got[i] = i
      BY DEF Inv, TypeOK, StreamInv
    <2>2. got = [i \in 1..Len(got) |-> i]
      BY <2>1, LenProperties
    <2>3. QED
      BY <2>2 DEF Inv, StreamInv, StreamIntact
  <1>2. QED
    BY <1>1, Invariance, PTL

-----------------------------------------------------------------------------
(* WsListener                                                              *)

HIDE DEF setupVars, peerVars, readVars, streamVars, TransportAssumption

USE DEF Procs, CallsClose, Goto, NoErr, Errs, HandlerLabels, AcceptorLabels,
        CloserLabels, closeVars, upgradeVars, acceptVars
USE WsAssumption, NobodyIsNoHandler

\* The labels of the goroutines.
LabelInv ==
  /\ pc \in [Procs -> HandlerLabels \cup AcceptorLabels \cup CloserLabels]
  /\ \A h \in Handlers : pc[h] \in HandlerLabels
  /\ \A a \in Acceptors : pc[a] \in AcceptorLabels
  /\ \A p \in CallsClose : pc[p] \in CloserLabels

\* The types of the other variables.
FieldsOK ==
  /\ closed \in BOOLEAN
  /\ acceptErr \in Errs \cup {NoErr}
  /\ done \in BOOLEAN
  /\ once \in {"fresh", "locked", "signalled", "wait", "done"}
  /\ httpServer \in {"open", "closed"}
  /\ slots \subseteq Handlers
  /\ wg \subseteq Handlers
  /\ transport \in [Handlers -> {"none", "open", "delivered", "closed"}]
  /\ received \in [Acceptors -> Handlers \cup {Nobody}]
  /\ result \in [Acceptors -> Errs \cup {NoErr}]
  /\ late \in [Acceptors -> BOOLEAN]

\* pendingSlots respects its capacity.
SlotsInv == Cardinality(slots) <= MaxPendingConnections

\* closed and the cause are set together, before done is closed; when the body
\* is done no handler is waited for.
OnceInv ==
  /\ closed <=> once # "fresh"
  /\ acceptErr # NoErr <=> closed
  /\ done <=> once \in {"signalled", "wait", "done"}
  /\ once = "done" => wg = {}

\* A handler is waited for from its check of closed to its end, and holds a
\* slot from before the upgrade until its transport is out of its hands.
HandlerInv ==
  \A h \in Handlers :
    /\ h \in wg <=> pc[h] \notin {"idle", "exited"}
    /\ h \in slots <=> pc[h] \in {"upgrade", "offer", "freeSlot"}

\* An open transport is with its handler or with a call of Accept.
TransportInv ==
  /\ \A h \in Handlers :
       transport[h] = "open" => pc[h] = "offer" \/ InAccept(h)
  /\ \A a \in Acceptors : pc[a] = "got" => received[a] # Nobody

\* A call of Accept that failed, or began late, has seen done closed.
AcceptInv ==
  \A a \in Acceptors :
    /\ late[a] => done
    /\ pc[a] = "failed" => done /\ result[a] = acceptErr
    /\ pc[a] = "accepted" => ~late[a]

\* All of it but the capacity of pendingSlots, which needs arithmetic.
CoreInv == /\ LabelInv /\ FieldsOK /\ OnceInv /\ HandlerInv
           /\ TransportInv /\ AcceptInv

WsInv == CoreInv /\ SlotsInv

\* The type invariant of WsListener is part of it.
LEMMA WsInvTypes == WsInv => WsTypeOK
  BY DEF WsInv, CoreInv, LabelInv, FieldsOK, SlotsInv, WsTypeOK

-----------------------------------------------------------------------------
\* A new listener satisfies the invariant.
THEOREM WsInvInit == WsInit => WsInv
  <1> SUFFICES ASSUME WsInit PROVE WsInv
    OBVIOUS
  <1>1. CoreInv
    BY DEF WsInit, CoreInv, LabelInv, FieldsOK, OnceInv, HandlerInv, TransportInv,
           AcceptInv
  <1>2. SlotsInv
    BY FS_EmptySet DEF WsInit, SlotsInv
  <1>3. QED
    BY <1>1, <1>2 DEF WsInv

\* Every step preserves the invariant, the capacity of pendingSlots aside.
LEMMA CoreNext == CoreInv /\ [WsNext]_wsVars => CoreInv'
  <1> SUFFICES ASSUME CoreInv, [WsNext]_wsVars PROVE CoreInv'
    OBVIOUS
  <1> USE DEF CoreInv, LabelInv, FieldsOK, OnceInv, HandlerInv, TransportInv,
              AcceptInv, InAccept
  <1>1. ASSUME NEW h \in Handlers, Enter(h) PROVE CoreInv'
    BY <1>1 DEF Enter
  <1>2. ASSUME NEW h \in Handlers, EnterClosed(h) PROVE CoreInv'
    BY <1>2 DEF EnterClosed
  <1>3. ASSUME NEW h \in Handlers, TakeSlot(h) PROVE CoreInv'
    BY <1>3 DEF TakeSlot
  <1>4. ASSUME NEW h \in Handlers, TooMany(h) PROVE CoreInv'
    BY <1>4 DEF TooMany
  <1>5. ASSUME NEW h \in Handlers, UpgradeOK(h) PROVE CoreInv'
    BY <1>5 DEF UpgradeOK
  <1>6. ASSUME NEW h \in Handlers, UpgradeFails(h) PROVE CoreInv'
    BY <1>6 DEF UpgradeFails
  <1>7. ASSUME NEW h \in Handlers, OfferDone(h) PROVE CoreInv'
    BY <1>7 DEF OfferDone
  <1>8. ASSUME NEW h \in Handlers, FreeSlot(h) PROVE CoreInv'
    BY <1>8 DEF FreeSlot
  <1>9. ASSUME NEW h \in Handlers, WgDone(h) PROVE CoreInv'
    BY <1>9 DEF WgDone
  <1>10. ASSUME NEW h \in Handlers, NEW a \in Acceptors, Handoff(h, a)
         PROVE  CoreInv'
    BY <1>10 DEF Handoff
  <1>11. ASSUME NEW a \in Acceptors, WsAccept(a) PROVE CoreInv'
    BY <1>11 DEF WsAccept
  <1>12. ASSUME NEW a \in Acceptors, AcceptFails(a) PROVE CoreInv'
    BY <1>12 DEF AcceptFails
  <1>13. ASSUME NEW a \in Acceptors, AcceptCheck(a) PROVE CoreInv'
    BY <1>13 DEF AcceptCheck
  <1>14. ASSUME NEW k \in Closers, WsClose(k) PROVE CoreInv'
    BY <1>14 DEF WsClose
  <1>15. ASSUME ServeEnds PROVE CoreInv'
    BY <1>15 DEF ServeEnds
  <1>16. ASSUME NEW p \in CallsClose, CloseEnter(p) PROVE CoreInv'
    BY <1>16 DEF CloseEnter, CauseOf
  <1>17. ASSUME NEW p \in CallsClose, CloseReturns(p) PROVE CoreInv'
    BY <1>17 DEF CloseReturns
  <1>18. ASSUME CloseDone PROVE CoreInv'
    BY <1>18 DEF CloseDone
  <1>19. ASSUME CloseServer PROVE CoreInv'
    BY <1>19 DEF CloseServer
  <1>20. ASSUME CloseWaited PROVE CoreInv'
    BY <1>20 DEF CloseWaited
  <1>21. CASE UNCHANGED wsVars
    BY <1>21 DEF wsVars
  <1>22. QED
    BY <1>1, <1>2, <1>3, <1>4, <1>5, <1>6, <1>7, <1>8, <1>9, <1>10, <1>11,
       <1>12, <1>13, <1>14, <1>15, <1>16, <1>17, <1>18, <1>19, <1>20,
       <1>21
    DEF WsNext, HandlerStep, AcceptStep, CloseBody

\* The slots are those of handlers that exist.
LEMMA FiniteSlots == CoreInv => IsFiniteSet(slots) /\ Cardinality(slots) \in Nat
  BY FS_Subset, FS_CardinalityType DEF CoreInv, FieldsOK

\* Taking a slot and giving it back are all that changes pendingSlots.
LEMMA SlotSteps ==
    ASSUME WsNext, slots' # slots
    PROVE  \E h \in Handlers : TakeSlot(h) \/ FreeSlot(h)
  BY DEF WsNext, HandlerStep, AcceptStep, CloseBody, Enter, EnterClosed, TooMany,
         UpgradeOK, UpgradeFails, OfferDone, WgDone, Handoff, WsAccept,
         AcceptFails, AcceptCheck, WsClose, ServeEnds, CloseEnter, CloseReturns,
         CloseDone, CloseServer, CloseWaited

\* A slot is taken only when one is free.
LEMMA SlotsNext == WsInv /\ [WsNext]_wsVars => SlotsInv'
  <1> SUFFICES ASSUME WsInv, [WsNext]_wsVars PROVE SlotsInv'
    OBVIOUS
  <1>1. CASE UNCHANGED slots
    BY <1>1 DEF WsInv, SlotsInv
  <1>2. ASSUME NEW h \in Handlers, TakeSlot(h) PROVE SlotsInv'
    <2>1. \/ Cardinality(slots') = Cardinality(slots)
          \/ Cardinality(slots') = Cardinality(slots) + 1
      BY <1>2, FiniteSlots, FS_AddElement DEF WsInv, TakeSlot
    <2>2. QED
      BY <1>2, <2>1, FiniteSlots DEF WsInv, TakeSlot, SlotsInv
  <1>3. ASSUME NEW h \in Handlers, FreeSlot(h) PROVE SlotsInv'
    <2>1. slots' \in SUBSET slots
      BY <1>3 DEF FreeSlot
    <2>2. /\ Cardinality(slots') <= Cardinality(slots)
          /\ Cardinality(slots') \in Nat
      BY <2>1, FiniteSlots, FS_Subset, FS_CardinalityType DEF WsInv
    <2>3. QED
      BY <2>2, FiniteSlots DEF WsInv, SlotsInv
  <1>4. QED
    BY <1>1, <1>2, <1>3, SlotSteps DEF wsVars, upgradeVars

\* Every step preserves the invariant.
THEOREM WsInvNext == WsInv /\ [WsNext]_wsVars => WsInv'
  BY CoreNext, SlotsNext DEF WsInv

\* The invariant holds in every reachable state.
THEOREM WsInvariance == WsSpec => []WsInv
  BY WsInvInit, WsInvNext, PTL DEF WsSpec

-----------------------------------------------------------------------------
(* The properties *)

\* Every variable has its type, and pendingSlots respects its capacity.
THEOREM WsTypeCorrect == WsSpec => []WsTypeOK
  BY WsInvTypes, WsInvariance, PTL

\* At most MaxPendingConnections requests are being upgraded or wait for an
\* Accept at the same time: each of them holds a slot.
THEOREM PendingBounded == WsSpec => []PendingBound
  <1> DEFINE pending == {h \in Handlers : pc[h] \in {"upgrade", "offer"}}
  <1>1. WsInv => PendingBound
    <2> SUFFICES ASSUME WsInv PROVE Cardinality(pending) <= MaxPendingConnections
      BY DEF PendingBound
    <2>1. pending \in SUBSET slots
      BY DEF WsInv, CoreInv, HandlerInv
    <2> HIDE DEF pending
    <2>2. /\ Cardinality(pending) <= Cardinality(slots)
          /\ Cardinality(pending) \in Nat
      BY <2>1, FiniteSlots, FS_Subset, FS_CardinalityType DEF WsInv
    <2>3. QED
      BY <2>2, FiniteSlots DEF WsInv, SlotsInv
  <1>2. QED
    BY <1>1, WsInvariance, PTL

\* When Close has returned no handler is under way and every transport was
\* closed, delivered, or is with an Accept that is about to decide on it.
THEOREM CloseClean == WsSpec => []CloseIsClean
  <1>1. WsInv => CloseIsClean
    BY DEF WsInv, CoreInv, LabelInv, OnceInv, HandlerInv, TransportInv,
           CloseIsClean
  <1>2. QED
    BY <1>1, WsInvariance, PTL

\* A failing Accept returns the cause of the closing, although it reads it
\* without the lock, and an Accept that begins after the closing fails.
THEOREM AcceptCorrect == WsSpec => []AcceptResults
  <1>1. WsInv => AcceptResults
    BY DEF WsInv, CoreInv, OnceInv, AcceptInv, AcceptResults
  <1>2. QED
    BY <1>1, WsInvariance, PTL

=============================================================================
