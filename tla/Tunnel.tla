------------------------------- MODULE Tunnel -------------------------------
(***************************************************************************)
(* A TCP connection's way through the tunnel (handleClient of              *)
(* client/main.go, handleMux and handleClient of server/main.go): at each  *)
(* end a handler with a TCP connection to its peer - the application, the  *)
(* target - and a stream of the session that both ends share, and two      *)
(* goroutines that copy between them.  Whichever copy ends first takes the *)
(* connection down.                                                        *)
(*                                                                         *)
(* Abstractions.                                                           *)
(*  - smux is external: a stream carries bytes in order, and its end after *)
(*    them; what has arrived can be read after the session died, but not   *)
(*    after the stream was closed at this end.  A write, and the end that  *)
(*    Close sends, wait while the stream is full of bytes that the other   *)
(*    end has not passed on.                                               *)
(*  - A byte is its position in its direction, and stands for as much as   *)
(*    fills the buffers of a socket: a write to a peer that has stopped    *)
(*    reading waits.  One that only pauses is a delay.  A copy holds at    *)
(*    most one byte between its read and its write.                        *)
(*  - delivered counts what a socket accepted: that the kernel takes bytes *)
(*    back when a socket with unread input is closed is left out.          *)
(*  - Connections share the session and nothing else, so there is one      *)
(*    here.  That one that waits also holds up the others of its session   *)
(*    is left out; who closes sessions is in ClientMux and Server.         *)
(***************************************************************************)
EXTENDS Integers, FiniteSets

CONSTANTS
    StreamRoom, \* bytes of a direction of the stream, from the write at one end to the other peer
    MaxBytes    \* bound: bytes that the peer of each end sends

Ends == {"client", "server"}
Other(e) == IF e = "client" THEN "server" ELSE "client"

ASSUME BytesAssumption == MaxBytes \in [Ends -> Nat] /\ StreamRoom \in Nat \ {0}

VARIABLES
    peer,       \* the peer of each end: "none", "open", "half" (sends no more) or "gone"
    stopped,    \* it keeps its connection and reads no more
    sent,       \* bytes it has sent
    handling,    \* where each handler is
    sock,       \* the TCP connection of each end: "none", "open" or "closed"
    stream,     \* the stream likewise
    up,         \* the goroutine that copies from the TCP connection to the stream
    put,        \* bytes it has written
    fin,        \* the end of the stream from this end: "no", "owed" by a Close that waits, "sent"
    arrived,    \* bytes of the stream that arrived at this end
    down,       \* the goroutine that copies from the stream to the TCP connection
    delivered,  \* bytes it has written
    alive       \* the session has not been closed at this end

tunnelVars == <<peer, stopped, sent, handling, sock, stream, up, put, fin, arrived, down, delivered, alive>>
peers == <<peer, stopped, sent>>
ups == <<up, put>>
downs == <<down, delivered>>
net == <<fin, arrived>>

Copies == {"off", "read", "write", "ended"}

\* A copy goroutine reads or holds a byte it writes, and a handler opens, waits, closes
\* its two connections or is done.
TunnelTypeOK ==
    /\ peer \in [Ends -> {"none", "open", "half", "gone"}]
    /\ {sent, put, arrived, delivered} \subseteq [Ends -> Nat]
    /\ handling \in [Ends -> {"none", "open", "copy", "close", "last", "done"}]
    /\ {sock, stream} \subseteq [Ends -> {"none", "open", "closed"}]
    /\ {up, down} \subseteq [Ends -> Copies]
    /\ fin \in [Ends -> {"no", "owed", "sent"}]
    /\ {stopped, alive} \subseteq [Ends -> BOOLEAN]

\* AcceptTCP has returned an application's connection.
TunnelInit ==
    /\ peer = [e \in Ends |-> IF e = "client" THEN "open" ELSE "none"]
    /\ handling = [e \in Ends |-> IF e = "client" THEN "open" ELSE "none"]
    /\ sock = [e \in Ends |-> IF e = "client" THEN "open" ELSE "none"]
    /\ stream = [e \in Ends |-> "none"]
    /\ up = [e \in Ends |-> "off"] /\ down = [e \in Ends |-> "off"]
    /\ sent = [e \in Ends |-> 0] /\ put = [e \in Ends |-> 0]
    /\ arrived = [e \in Ends |-> 0] /\ delivered = [e \in Ends |-> 0]
    /\ fin = [e \in Ends |-> "no"] /\ stopped = [e \in Ends |-> FALSE]
    /\ alive = [e \in Ends |-> TRUE]

-----------------------------------------------------------------------------
(* The peers, and the session *)

Send(e) ==
    /\ peer[e] = "open" /\ sent[e] < MaxBytes[e]
    /\ sent' = [sent EXCEPT ![e] = @ + 1]
    /\ UNCHANGED <<peer, stopped, handling, sock, stream, ups, net, downs, alive>>

\* The peer ends its direction, or its connection.
PeerEnds(e) ==
    /\ \/ peer[e] = "open" /\ peer' = [peer EXCEPT ![e] = "half"] /\ UNCHANGED stopped
       \/ /\ peer[e] \in {"open", "half"} /\ peer' = [peer EXCEPT ![e] = "gone"]
          /\ stopped' = [stopped EXCEPT ![e] = FALSE]
    /\ UNCHANGED <<sent, handling, sock, stream, ups, net, downs, alive>>

\* The peer reads no more, and keeps its connection.
PeerStops(e) ==
    /\ peer[e] \in {"open", "half"} /\ ~stopped[e]
    /\ stopped' = [stopped EXCEPT ![e] = TRUE]
    /\ UNCHANGED <<peer, sent, handling, sock, stream, ups, net, downs, alive>>

\* A frame's bytes arrive.  Written(n) of the n bytes that were put have left compStream:
\* Write calls Flush.
Written_Unflushed(n) == n - (n % 2)
Written(n) == n

Arrive(e) ==
    /\ stream[e] = "open" /\ alive[e] /\ arrived[e] < Written(put[Other(e)])
    /\ arrived' = [arrived EXCEPT ![e] = @ + 1]
    /\ UNCHANGED <<peers, handling, sock, stream, ups, fin, downs, alive>>

\* A session is closed at one end: the scavenger, keepalives that stay away, or an error.
SessionDies(e) ==
    /\ alive[e] /\ alive' = [alive EXCEPT ![e] = FALSE]
    /\ UNCHANGED <<peers, handling, sock, stream, ups, net, downs>>

-----------------------------------------------------------------------------
(* The handlers *)

\* Both copies start at once.
StartCopies(e) == up' = [up EXCEPT ![e] = "read"] /\ down' = [down EXCEPT ![e] = "read"]

\* The client's handleClient opens a stream; without one it closes the connection.
StartStream ==
    /\ handling["client"] = "open"
    /\ IF alive["client"]
       THEN /\ stream' = [stream EXCEPT !["client"] = "open"]
            /\ handling' = [handling EXCEPT !["client"] = "copy"]
            /\ StartCopies("client") /\ UNCHANGED sock
       ELSE /\ sock' = [sock EXCEPT !["client"] = "closed"]
            /\ handling' = [handling EXCEPT !["client"] = "done"]
            /\ UNCHANGED <<stream, up, down>>
    /\ UNCHANGED <<peers, put, net, delivered, alive>>

\* AcceptStream of the server's handleMux, and a goroutine for the stream, ...
AcceptStream ==
    /\ handling["server"] = "none" /\ stream["client"] # "none" /\ alive["server"]
    /\ stream' = [stream EXCEPT !["server"] = "open"]
    /\ handling' = [handling EXCEPT !["server"] = "open"]
    /\ UNCHANGED <<peers, sock, ups, net, downs, alive>>

\* ... which dials the target and hands over to handleClient, ...
Dial ==
    /\ handling["server"] = "open"
    /\ handling' = [handling EXCEPT !["server"] = "copy"]
    /\ sock' = [sock EXCEPT !["server"] = "open"]
    /\ peer' = [peer EXCEPT !["server"] = "open"]
    /\ StartCopies("server")
    /\ UNCHANGED <<stopped, sent, stream, put, net, delivered, alive>>

\* Close of a stream, which is closed at this end and then, if the session lives, ...
CloseStream(e) ==
    /\ stream' = [stream EXCEPT ![e] = "closed"]
    /\ fin' = [fin EXCEPT ![e] = IF alive[e] THEN "owed" ELSE "no"]

\* The stream takes another frame: what the other end has not passed on leaves room, or
\* the other end has closed it and throws the rest away.
Room(e) == stream[Other(e)] = "closed" \/ put[e] - delivered[Other(e)] < StreamRoom

\* ... sends its end and returns, or gives up with the session.
SendEnd(e) ==
    /\ fin[e] = "owed" /\ (~alive[e] \/ Room(e))
    /\ fin' = [fin EXCEPT ![e] = IF alive[e] THEN "sent" ELSE "no"]
    /\ UNCHANGED <<peers, handling, sock, stream, ups, arrived, downs, alive>>

\* Mutant: the stream is left open.
DialFails_Leaks ==
    /\ handling["server"] = "open"
    /\ handling' = [handling EXCEPT !["server"] = "done"]
    /\ UNCHANGED <<peers, sock, stream, ups, net, downs, alive>>

\* ... or cannot, and closes the stream.
DialFails ==
    /\ handling["server"] = "open"
    /\ handling' = [handling EXCEPT !["server"] = "done"]
    /\ CloseStream("server")
    /\ UNCHANGED <<peers, sock, ups, arrived, downs, alive>>

\* Mutant: a select with a default.
OneIsOver_Never(e) == TRUE

\* The select on the two copies.
OneIsOver(e) == "ended" \in {up[e], down[e]}

Over(e) ==
    /\ handling[e] = "copy" /\ OneIsOver(e)
    /\ handling' = [handling EXCEPT ![e] = "close"]
    /\ UNCHANGED <<peers, sock, stream, ups, net, downs, alive>>

\* What the deferred calls close first: p2, the client's stream and the server's target.
First(e) == IF e = "client" THEN "stream" ELSE "sock"

Close(e) ==
    /\ handling[e] \in {"close", "last"} /\ fin[e] # "owed"
    /\ IF (handling[e] = "close") = (First(e) = "stream")
       THEN CloseStream(e) /\ UNCHANGED sock
       ELSE sock' = [sock EXCEPT ![e] = "closed"] /\ UNCHANGED <<stream, fin>>
    /\ handling' = [handling EXCEPT ![e] = IF @ = "close" THEN "last" ELSE "done"]
    /\ UNCHANGED <<peers, ups, arrived, downs, alive>>

-----------------------------------------------------------------------------
(* streamCopy(stream, conn) *)

\* A read of the connection: a byte, or an end or an error.
UpRead(e) ==
    /\ up[e] = "read"
    /\ \/ sock[e] = "open" /\ put[e] < sent[e] /\ up' = [up EXCEPT ![e] = "write"]
       \/ /\ \/ peer[e] \in {"half", "gone"} /\ put[e] = sent[e]
             \/ peer[e] = "gone"
             \/ sock[e] = "closed"
          /\ up' = [up EXCEPT ![e] = "ended"]
    /\ UNCHANGED <<peers, handling, sock, stream, put, net, downs, alive>>

\* A write to the stream, which waits for room and fails once the stream or the session
\* is closed.
UpWrite(e) ==
    /\ up[e] = "write"
    /\ \/ /\ stream[e] = "open" /\ alive[e] /\ Room(e)
          /\ put' = [put EXCEPT ![e] = @ + 1] /\ up' = [up EXCEPT ![e] = "read"]
       \/ /\ stream[e] = "closed" \/ ~alive[e]
          /\ up' = [up EXCEPT ![e] = "ended"] /\ UNCHANGED put
    /\ UNCHANGED <<peers, handling, sock, stream, net, downs, alive>>

-----------------------------------------------------------------------------
(* streamCopy(conn, stream) *)

\* Everything the other end wrote has been read.
Drained(e) == arrived[e] = delivered[e]
AtEnd(e) == fin[Other(e)] = "sent" /\ arrived[e] = put[Other(e)]

\* A read of the stream.
DownRead(e) ==
    /\ down[e] = "read"
    /\ \/ stream[e] = "open" /\ ~Drained(e) /\ down' = [down EXCEPT ![e] = "write"]
       \/ /\ stream[e] = "closed" \/ (Drained(e) /\ (AtEnd(e) \/ ~alive[e]))
          /\ down' = [down EXCEPT ![e] = "ended"]
    /\ UNCHANGED <<peers, handling, sock, stream, ups, net, delivered, alive>>

\* A write to the connection, which waits for a peer that stays and does not read; of one
\* that is gone, the kernel may take it or fail.
DownWrite(e) ==
    /\ down[e] = "write"
    /\ \/ /\ sock[e] = "open" /\ ~stopped[e]
          /\ delivered' = [delivered EXCEPT ![e] = @ + 1] /\ down' = [down EXCEPT ![e] = "read"]
       \/ /\ sock[e] = "closed" \/ peer[e] = "gone"
          /\ down' = [down EXCEPT ![e] = "ended"] /\ UNCHANGED delivered
    /\ UNCHANGED <<peers, handling, sock, stream, ups, net, alive>>

-----------------------------------------------------------------------------

Handlers ==
    \/ StartStream \/ AcceptStream \/ Dial \/ DialFails
    \/ \E e \in Ends : Over(e) \/ Close(e) \/ SendEnd(e)

Copy(e) == UpRead(e) \/ UpWrite(e) \/ DownRead(e) \/ DownWrite(e)

TunnelNext ==
    \/ \E e \in Ends : Send(e) \/ PeerEnds(e) \/ PeerStops(e) \/ Arrive(e) \/ SessionDies(e) \/ Copy(e)
    \/ Handlers

\* Goroutines are scheduled, net.Dial returns, what was written to a session that lives at
\* both ends arrives, and a session whose other end is closed hears no more keepalives and
\* dies.  Nobody has to send, to read on, to finish, or to close a session.
TunnelFairness ==
    /\ WF_tunnelVars(StartStream) /\ WF_tunnelVars(AcceptStream) /\ WF_tunnelVars(Dial \/ DialFails)
    /\ \A e \in Ends :
        /\ WF_tunnelVars(Over(e)) /\ WF_tunnelVars(Close(e)) /\ WF_tunnelVars(SendEnd(e))
        /\ WF_tunnelVars(UpRead(e) \/ UpWrite(e)) /\ WF_tunnelVars(DownRead(e) \/ DownWrite(e))
        /\ WF_tunnelVars(alive[Other(e)] /\ Arrive(e)) /\ WF_tunnelVars(~alive[Other(e)] /\ SessionDies(e))

TunnelSpec == TunnelInit /\ [][TunnelNext]_tunnelVars

FairTunnel == TunnelSpec /\ TunnelFairness

-----------------------------------------------------------------------------
(* Properties *)

\* Somebody ended something: a peer its direction or its connection, or the session.
Ended == \E e \in Ends : peer[e] \in {"half", "gone"} \/ ~alive[e]

DialFailed == handling["server"] = "done" /\ sock["server"] = "none"

\* Bytes move forward only.
Forward ==
    \A e \in Ends : delivered[e] <= arrived[e] /\ arrived[e] <= put[Other(e)]
                    /\ put[Other(e)] <= sent[Other(e)]

\* The tunnel closes a connection only for a reason: one of the peers ended it, the
\* session died, or the target could not be reached.
CutForAReason ==
    \A e \in Ends : sock[e] = "closed" => Ended \/ DialFailed

\* What a peer sent before it ended its direction reaches the other peer, if that one
\* and the session do not end theirs first: bytes held by the four copies, by
\* compression and by the session are not overtaken by the end of the connection.
EndedCompletely ==
    \A e \in Ends :
        sock[e] = "closed" /\ peer[e] = "open" /\ peer[Other(e)] = "half"
            /\ alive["client"] /\ alive["server"] => delivered[e] = sent[Other(e)]

TunnelInv == TunnelTypeOK /\ Forward /\ CutForAReason /\ EndedCompletely

\* A byte that was sent arrives, as long as nobody ends anything and its receiver reads.
Delivered ==
    []<>(\A e \in Ends : \/ delivered[Other(e)] = sent[e]
                         \/ stopped[Other(e)] \/ Ended \/ DialFailed)

AllOver(e) ==
    /\ handling[e] \in {"none", "done"} /\ fin[e] # "owed"
    /\ up[e] \in {"off", "ended"} /\ down[e] \in {"off", "ended"}
    /\ sock[e] # "open" /\ stream[e] # "open"

\* A copy waits in a write to a peer that stays connected and has stopped reading.
Jammed(e) == down[e] = "write" /\ sock[e] = "open" /\ stopped[e]

\* Once either peer or either session ends, both ends come down - no goroutine, socket
\* or stream of the connection is left - unless, and until, a peer that stays connected
\* without reading jams a copy.  An end whose own peer and session are gone comes down
\* whatever happens at the other.
AllReleased ==
    /\ []<>(Ended => (\A e \in Ends : AllOver(e)) \/ \E e \in Ends : Jammed(e))
    /\ []<>(\A e \in Ends : peer[e] = "gone" /\ ~alive[e] => AllOver(e))

=============================================================================
