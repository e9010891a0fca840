------------------------------ MODULE Transport ------------------------------
(***************************************************************************)
(* The transports of common/network: how a listener and one connection of  *)
(* it, or one dialled connection, are set up over TCP, KCP or WebSocket,   *)
(* and how a reader, a writer and a closer use the connection.  Sockets of *)
(* net, kcp-go and gorilla/websocket are modelled by what the code relies  *)
(* on.  The WebSocket listener is module WsListener.                       *)
(***************************************************************************)
EXTENDS Naturals, Sequences, FiniteSets

CONSTANTS
  Confs,       \* the configurations to explore: sets of options
  Bytes,       \* bound: the bytes the peer sends, and the buffers of Read
  Backlog,     \* bound: messages on their way to the reader
  MaxMessage,  \* WsConfig.MaxMessageSize, when the option is set
  Timeout,     \* the ticks until a deadline passes
  NoReader     \* WsTransportImpl.reader = nil

Options == {"keepAlive", "readBuffer", "writeBuffer", "dscp", "mtu",
            "readTimeout", "writeTimeout", "maxMessage"}

ASSUME TransportAssumption ==
  /\ \A options \in Confs : options \subseteq Options
  /\ {Bytes, Backlog, MaxMessage, Timeout} \subseteq Nat \ {0}
  /\ NoReader \notin Seq(Nat)

VARIABLES
  kind,      \* the protocol: "tcp", "kcp" or "ws"
  conf,      \* the options that are set
  listener,  \* [op, stage, at, socket] of the listener: its constructor op is
             \* at step "at" of SetUp, and what became of the socket
  conn,      \* the same of the connection, which op accepts or dials
  deadline,  \* ticks left to each blocking call, or NoDeadline
  sent,      \* how many bytes the peer has sent: they are 1, 2, 3, ...
  hungUp,    \* the peer has ended its side
  incoming,  \* what is on its way to the reader: a sequence of [type, bytes]
  reader,    \* WsTransportImpl.reader: the rest of its message, or NoReader
  broken,    \* the calls, "read" or "write", that fail from now on
  reading,   \* the length of the buffer of the Read in progress, or 0
  got,       \* the bytes that Read has returned
  writing    \* the parts of the Write in progress that are not sent, or 0

setupVars == <<kind, conf, listener, conn>>
peerVars  == <<sent, hungUp>>
readVars  == <<reader, reading, got>>
vars == <<setupVars, deadline, peerVars, incoming, broken, readVars, writing>>

NoDeadline == Timeout + 1
Absent == [op |-> "none", stage |-> "none", at |-> 0, socket |-> "none"]

Init ==
  /\ kind \in {"tcp", "kcp", "ws"}
  /\ conf \in Confs
  /\ listener = Absent
  /\ conn = Absent
  /\ deadline = [call \in {"dial", "read", "write"} |-> NoDeadline]
  /\ sent = 0
  /\ hungUp = FALSE
  /\ incoming = <<>>
  /\ reader = NoReader
  /\ broken = {}
  /\ reading = 0
  /\ got = <<>>
  /\ writing = 0

-----------------------------------------------------------------------------
(* Deadlines.  A call arms its own and resets it when it returns.          *)

\* Without WsConfig.HandshakeTimeout the dialer has a default, and TCP gives up
\* by itself: a dial always has a deadline.
DialPatience  == Timeout
ReadPatience  == IF "readTimeout" \in conf THEN Timeout ELSE NoDeadline
WritePatience == IF "writeTimeout" \in conf THEN Timeout ELSE NoDeadline

Patience(call) ==
  [dial |-> DialPatience, read |-> ReadPatience, write |-> WritePatience][call]

Arm(call)   == deadline' = [deadline EXCEPT ![call] = Patience(call)]
Reset(call) == deadline' = [deadline EXCEPT ![call] = NoDeadline]

Tick ==
  /\ \E call \in DOMAIN deadline : deadline[call] \in 1 .. Timeout
  /\ deadline' = [call \in DOMAIN deadline |->
       IF deadline[call] \in 1 .. Timeout THEN deadline[call] - 1 ELSE deadline[call]]
  /\ UNCHANGED <<setupVars, peerVars, incoming, broken, readVars, writing>>

-----------------------------------------------------------------------------
(* Construction: the listeners' constructors, Accept and DialContext are   *)
(* lists of steps.  Each may fail, the optional ones only when they are    *)
(* set; calls that cannot fail are left out.  What a failure does with the *)
(* socket is up to the error return of its step, in the function that owns *)
(* the socket then: the ...Closes are the steps after which it is closed.  *)

TcpOptions == <<"keepAlive", "keepAlivePeriod", "readBuffer", "writeBuffer", "noDelay">>
TcpListen == <<"resolve", "open">>
TcpAccept == <<"open">> \o TcpOptions
TcpDial   == <<"open", "assert">> \o TcpOptions

KcpOptions == <<"crypt", "shards">>
KcpSocket  == <<"dscp", "readBuffer", "writeBuffer">>
KcpSession == <<"mtu">>
KcpListen == KcpOptions \o <<"open">> \o KcpSocket
KcpAccept == <<"open">> \o KcpSession
KcpDial   == KcpOptions \o <<"open">> \o KcpSocket \o KcpSession

WsDial == <<"endpoint", "open">>

SetUp(op) ==
  CASE kind = "tcp" -> [listen |-> TcpListen, accept |-> TcpAccept, dial |-> TcpDial][op]
    [] kind = "kcp" -> [listen |-> KcpListen, accept |-> KcpAccept, dial |-> KcpDial][op]
    [] kind = "ws"  -> [dial |-> WsDial][op]

\* newTCPTransportImpl owns what it is given: a deferred function closes it,
\* whatever fails.  Until then DialContext owns it.
TcpCloses     == {TcpOptions[i] : i \in DOMAIN TcpOptions}
TcpDialCloses == {"assert"}

\* Each error return of kcp_impl.go closes for itself.
KcpCloses       == {"mtu"}
KcpListenCloses == {"dscp", "readBuffer", "writeBuffer"}

\* Faulty variant: one of the error returns of DialContext forgets to close.
KcpDialForgets  == {"dscp", "readBuffer"}
KcpDialCloses   == {"dscp", "readBuffer", "writeBuffer"}

ClosesOnError(op) ==
  CASE kind = "tcp" -> [listen |-> {}, accept |-> TcpCloses,
                        dial |-> TcpDialCloses \cup TcpCloses][op]
    [] kind = "kcp" -> [listen |-> KcpListenCloses, accept |-> KcpCloses,
                        dial |-> KcpDialCloses \cup KcpCloses][op]
    [] kind = "ws"  -> [dial |-> {}][op]

IsSet(step) ==
  LET option == IF step = "keepAlivePeriod" THEN "keepAlive" ELSE step
  IN  option \in Options => option \in conf

Running(e) == e.stage = "running"
Step(e)    == SetUp(e.op)[e.at]
Opened(e)  == e.socket = "open"

\* Accept and DialContext wait for a peer; a KCP dial has nobody to wait for.
Waits(e) == Step(e) = "open" /\ e.op # "listen" /\ ~(kind = "kcp" /\ e.op = "dial")

Succeed(e) ==
  [e EXCEPT !.stage = IF e.at = Len(SetUp(e.op)) THEN "ready" ELSE "running",
            !.at = @ + 1,
            !.socket = IF Step(e) = "open" THEN "open" ELSE @]

\* An error return: the caller gets no listener and no transport.
Fail(e) ==
  [e EXCEPT !.stage = "failed", !.at = 0,
            !.socket = IF Opened(e) /\ Step(e) \in ClosesOnError(e.op)
                       THEN "closed" ELSE @]

Begin(op) == [op |-> op, stage |-> "running", at |-> 1, socket |-> "none"]

\* From e to next by one step that does not wait.
Advance(e, next) ==
  /\ Running(e)
  /\ ~Waits(e)
  /\ \/ next = Succeed(e)
     \/ IsSet(Step(e)) /\ next = Fail(e)

streamVars == <<peerVars, incoming, broken, readVars, writing>>

NewListener ==
  /\ kind # "ws"
  /\ listener = Absent
  /\ listener' = Begin("listen")
  /\ UNCHANGED <<kind, conf, conn, deadline, streamVars>>

ListenerStep ==
  /\ Advance(listener, listener')
  /\ UNCHANGED <<kind, conf, conn, deadline, streamVars>>

Accept ==
  /\ listener.stage = "ready"
  /\ conn = Absent
  /\ conn' = Begin("accept")
  /\ UNCHANGED <<kind, conf, listener, deadline, streamVars>>

DialContext ==
  /\ conn = Absent
  /\ conn' = Begin("dial")
  /\ Arm("dial")
  /\ UNCHANGED <<kind, conf, listener, streamVars>>

ConnStep ==
  /\ Advance(conn, conn')
  /\ UNCHANGED <<kind, conf, listener, deadline, streamVars>>

Connected ==
  /\ Running(conn) /\ Waits(conn)
  /\ conn.op = "accept" => Opened(listener)
  /\ conn' = Succeed(conn)
  /\ Reset("dial")
  /\ UNCHANGED <<kind, conf, listener, streamVars>>

NotConnected ==
  /\ Running(conn) /\ Waits(conn)
  /\ conn' = Fail(conn)
  /\ Reset("dial")
  /\ UNCHANGED <<kind, conf, listener, streamVars>>

\* Nobody answered the dial in time, or the listener was closed.
Hopeless ==
  \/ deadline["dial"] = 0
  \/ conn.op = "accept" /\ ~Opened(listener)

CloseListener ==
  /\ listener.stage = "ready"
  /\ Opened(listener)
  /\ listener' = [listener EXCEPT !.socket = "closed"]
  /\ UNCHANGED <<kind, conf, conn, deadline, streamVars>>

\* TransportImpl.Close.  A KCP session leaves the listener's socket open.
Close ==
  /\ conn.stage = "ready"
  /\ Opened(conn)
  /\ conn' = [conn EXCEPT !.socket = "closed"]
  /\ UNCHANGED <<kind, conf, listener, deadline, streamVars>>

\* An accepted KCP session uses the UDP socket of the listener.
Usable ==
  /\ Opened(conn)
  /\ kind = "kcp" /\ conn.op = "accept" => Opened(listener)

-----------------------------------------------------------------------------
(* The peer.  A message of TCP or KCP is whatever arrives at once; text    *)
(* messages exist in WebSocket only and carry no byte of the stream.       *)

PeerSends(type, n) ==
  /\ conn.stage = "ready"
  /\ ~hungUp
  /\ Len(incoming) < Backlog
  /\ sent + n <= Bytes
  /\ kind = "ws" \/ (type = "binary" /\ n > 0)
  /\ type = "text" => n = 0
  /\ incoming' = Append(incoming, [type |-> type, bytes |-> [i \in 1 .. n |-> sent + i]])
  /\ sent' = sent + n
  /\ UNCHANGED <<setupVars, deadline, hungUp, broken, readVars, writing>>

\* A KCP session does not learn that the peer has gone.
PeerHangsUp ==
  /\ conn.stage = "ready"
  /\ kind # "kcp"
  /\ ~hungUp
  /\ hungUp' = TRUE
  /\ UNCHANGED <<setupVars, deadline, sent, incoming, broken, readVars, writing>>

-----------------------------------------------------------------------------
(* Read.  One goroutine reads; the call with an empty buffer is left out.  *)

Read(n) ==
  /\ conn.stage = "ready"
  /\ reading = 0
  /\ reading' = n
  /\ Arm("read")
  /\ UNCHANGED <<setupVars, peerVars, incoming, broken, reader, got, writing>>

\* Read returns the first n of the bytes, or an error.
ReadReturns(bytes, n) ==
  /\ got' = got \o SubSeq(bytes, 1, n)
  /\ reading' = 0
  /\ Reset("read")
ReadError ==
  /\ reading' = 0
  /\ Reset("read")
  /\ UNCHANGED got

Rest(bytes, n) == SubSeq(bytes, n + 1, Len(bytes))

\* TCP and KCP: some of the bytes that have arrived.
ReadStream ==
  /\ reading > 0 /\ kind # "ws" /\ Usable
  /\ incoming # <<>>
  /\ LET bytes == Head(incoming).bytes IN
     \E n \in 1 .. Len(bytes) :
       /\ n <= reading
       /\ ReadReturns(bytes, n)
       /\ incoming' = IF n = Len(bytes) THEN Tail(incoming)
                      ELSE [incoming EXCEPT ![1].bytes = Rest(bytes, n)]
  /\ UNCHANGED <<setupVars, peerVars, broken, reader, writing>>

\* WebSocket: NextReader finds a message.  A binary one becomes the reader, and
\* the loop of Read goes on; any other, and one too long, is an error.
TooLong(message) == "maxMessage" \in conf /\ Len(message.bytes) > MaxMessage

NextMessage ==
  /\ reading > 0 /\ kind = "ws" /\ Usable /\ "read" \notin broken
  /\ reader = NoReader
  /\ incoming # <<>>
  /\ incoming' = Tail(incoming)
  /\ LET message == Head(incoming) IN
     \/ /\ message.type = "binary" /\ ~TooLong(message)
        /\ reader' = message.bytes
        /\ UNCHANGED <<deadline, broken, reading, got>>
     \/ /\ message.type = "text"
        /\ ReadError
        /\ UNCHANGED <<broken, reader>>
     \/ /\ TooLong(message)
        /\ ReadError
        /\ broken' = broken \cup {"read"}
        /\ UNCHANGED reader
  /\ UNCHANGED <<setupVars, peerVars, writing>>

\* Faulty variant: the rest of a message that exceeds the buffer is forgotten.
ReadMessageForgets ==
  /\ reading > 0 /\ Usable /\ "read" \notin broken
  /\ reader \notin {NoReader, <<>>}
  /\ \E n \in 1 .. Len(reader) :
       /\ n <= reading
       /\ ReadReturns(reader, n)
  /\ reader' = NoReader
  /\ UNCHANGED <<setupVars, peerVars, incoming, broken, writing>>

\* Bytes of the message.  Its end may come with the last of them, when
\* compression is on, or as an EOF of its own.
ReadMessage ==
  /\ reading > 0 /\ Usable /\ "read" \notin broken
  /\ reader \notin {NoReader, <<>>}
  /\ \E n \in 1 .. Len(reader) :
       /\ n <= reading
       /\ ReadReturns(reader, n)
       /\ \/ reader' = Rest(reader, n)
          \/ n = Len(reader) /\ reader' = NoReader
  /\ UNCHANGED <<setupVars, peerVars, incoming, broken, writing>>

\* Faulty variant: each turn of the loop in Read sets the deadline anew.
EndOfMessageRearms ==
  /\ reading > 0
  /\ reader = <<>>
  /\ reader' = NoReader
  /\ Arm("read")
  /\ UNCHANGED <<setupVars, peerVars, incoming, broken, reading, got, writing>>

\* The end of the message without a byte: Read goes on to the next message.
EndOfMessage ==
  /\ reading > 0
  /\ reader = <<>>
  /\ reader' = NoReader
  /\ UNCHANGED <<setupVars, deadline, peerVars, incoming, broken, reading, got, writing>>

\* The deadline has passed, the socket is closed, or the peer is gone, maybe
\* with what was on its way.  gorilla/websocket keeps an error of the socket.
ReadFails ==
  /\ reading > 0
  /\ \/ deadline["read"] = 0
     \/ ~Usable
     \/ hungUp
     \/ "read" \in broken
  /\ ReadError
  /\ broken' = IF kind = "ws" THEN broken \cup {"read"} ELSE broken
  /\ UNCHANGED <<setupVars, peerVars, incoming, reader, writing>>

ReadStep == ReadStream \/ NextMessage \/ ReadMessage \/ EndOfMessage \/ ReadFails

-----------------------------------------------------------------------------
(* Write.  One goroutine writes and, like Conn, stops at the first error.  *)

\* Two parts of the data stand for any number: the network may stop between.
Write ==
  /\ conn.stage = "ready"
  /\ writing = 0
  /\ "write" \notin broken
  /\ writing' = 2
  /\ Arm("write")
  /\ UNCHANGED <<setupVars, peerVars, incoming, broken, readVars>>

WriteSome ==
  /\ writing > 0
  /\ Usable
  /\ writing' = writing - 1
  /\ IF writing = 1 THEN Reset("write") ELSE UNCHANGED deadline
  /\ UNCHANGED <<setupVars, peerVars, incoming, broken, readVars>>

WriteFails ==
  /\ writing > 0
  /\ deadline["write"] = 0 \/ ~Usable \/ hungUp
  /\ writing' = 0
  /\ Reset("write")
  /\ broken' = broken \cup {"write"}
  /\ UNCHANGED <<setupVars, peerVars, incoming, readVars>>

-----------------------------------------------------------------------------
Next ==
  \/ NewListener \/ ListenerStep \/ CloseListener
  \/ Accept \/ DialContext \/ ConnStep \/ Connected \/ NotConnected \/ Close
  \/ \E type \in {"binary", "text"}, n \in 0 .. Bytes : PeerSends(type, n)
  \/ PeerHangsUp
  \/ \E n \in 1 .. Bytes : Read(n)
  \/ ReadStep
  \/ Write \/ WriteSome \/ WriteFails
  \/ Tick

Spec == Init /\ [][Next]_vars

\* The steps that wait for nobody, and time, go on.  Nothing is asked of the
\* peer, nor of whoever accepts, dials, reads, writes and closes.
Fairness ==
  /\ WF_vars(ListenerStep)
  /\ WF_vars(ConnStep)
  /\ WF_vars(NotConnected /\ Hopeless)
  /\ WF_vars(ReadFails)
  /\ WF_vars(WriteFails /\ (deadline["write"] = 0 \/ ~Usable))
  /\ WF_vars(ReadStream)
  /\ WF_vars(EndOfMessage)
  /\ WF_vars(NextMessage \/ ReadMessage)
  /\ WF_vars(Tick)

FairSpec == Spec /\ Fairness

-----------------------------------------------------------------------------
(* Properties *)

Ends == [op : {"none", "listen", "accept", "dial"},
         stage : {"none", "running", "ready", "failed"},
         at : Nat,
         socket : {"none", "open", "closed"}]
Messages == [type : {"binary", "text"}, bytes : Seq(Nat)]

\* Every variable has its type.
TypeOK ==
  /\ kind \in {"tcp", "kcp", "ws"} /\ conf \subseteq Options
  /\ listener \in Ends /\ conn \in Ends
  /\ deadline \in [{"dial", "read", "write"} -> 0 .. NoDeadline]
  /\ sent \in 0 .. Bytes /\ hungUp \in BOOLEAN
  /\ incoming \in Seq(Messages) /\ Len(incoming) <= Backlog
  /\ reader \in {NoReader} \cup Seq(Nat)
  /\ broken \subseteq {"read", "write"}
  /\ reading \in 0 .. Bytes /\ got \in Seq(Nat) /\ writing \in 0 .. 2

\* Between its opening and its hand-over to the caller a socket passes through
\* functions that each clean up on their own error returns, in another order
\* per protocol: none of them, at whatever step, leaves an open socket that
\* nobody has, and none that leaves the socket alone comes after its opening.
NoSocketLeaked ==
  \A e \in {listener, conn} : Opened(e) => e.stage \in {"running", "ready"}

\* Read hides the boundaries of WebSocket messages and nothing else: what it has
\* returned is what the peer sent, in order, with no byte lost, repeated or
\* taken from a text message, however the messages, the buffers, deadlines and
\* errors fall.
StreamIntact ==
  /\ got = [i \in 1 .. Len(got) |-> i]
  /\ Len(got) <= sent

\* Every blocking call ends: a dial by its timeout, an Accept when the listener
\* is closed, and Read and Write when the connection is closed or, with a
\* timeout configured, whatever the peer does: an endless series of empty
\* messages does not keep a Read waiting.
CallsEnd ==
  /\ (Running(conn) /\ conn.op = "dial") ~> ~Running(conn)
  /\ (Running(conn) /\ ~Opened(listener)) ~> ~Running(conn)
  /\ (reading > 0 /\ ("readTimeout" \in conf \/ ~Usable)) ~> (reading = 0)
  /\ (writing > 0 /\ ("writeTimeout" \in conf \/ ~Usable)) ~> (writing = 0)
=============================================================================
