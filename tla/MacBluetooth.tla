---------------------------- MODULE MacBluetooth ----------------------------
(***************************************************************************)
(* Bluetooth on macOS: BTUnlockClient of that platform, the RFCOMMStream   *)
(* it uses inside a user's session, and the relay it uses outside of one   *)
(* (pcbu_auth, as root): a Unix socket to pcbu_bthelper, whose threads     *)
(* hold the RFCOMMStream instead and pass the bytes on.                    *)
(*                                                                         *)
(* Every attempt has a relay socket and a stream of its own; streams of    *)
(* given-up attempts live on beside the current one.  IOBluetooth's        *)
(* callbacks come on the run loop thread, at any time.  A write goes in    *)
(* chunks (the MTU), what the phone says in words.                         *)
(*                                                                         *)
(* A name that MacAgent has too begins with BT here.                       *)
(***************************************************************************)
EXTENDS Naturals, Sequences, SequencesExt

CONSTANTS
    Settings,     \* what a client runs under: its mode, geteuid() == 0 ("relay") or
                  \* not; its attempts (clientConnectRetries + 1); and a bound on
                  \* the deaths of pcbu_auth and the helper
    MaxAttempts,  \* the most attempts of a setting
    Answers       \* what the phone may say on a channel, in this order

Attempts == 1 .. MaxAttempts
Request == <<"R1", "R2">>  \* the unlock request, in two chunks
NoData == "none"

ASSUME MacConstants ==
    /\ MaxAttempts \in Nat \ {0} /\ Answers \in Seq(STRING)
    /\ Settings \subseteq [mode : {"relay", "direct"}, attempts : Attempts, crashes : Nat]

VARIABLES
    setting,  \* the setting of the client
    client,   \* BTUnlockClient: its thread, m_IsRunning, m_UnlockState, the attempt
    sock,     \* the relay sockets: bytes on the way, and which ends are open
    helper,   \* whether pcbu_bthelper runs
    relay,    \* RelayClient of the helper: both of its threads
    opener,   \* RFCOMMStream::Connect of a stream
    writer,   \* RFCOMMStream::WriteRaw of a stream
    rf,       \* PCBURFCOMMDelegate, and what IOBluetooth holds of it
    phone,    \* the phone's end of a channel: what it said and was told
    crashes

btVars == <<setting, client, sock, helper, relay, opener, writer, rf, phone, crashes>>

mode == setting.mode

NewStream == [sdp |-> NoData, open |-> NoData, write |-> NoData, isClosed |-> FALSE,
              readBuffer |-> <<>>, pendingWrite |-> NoData,
              held |-> FALSE, pending |-> FALSE,   \* references: the stream's, g_PendingQueries'
              query |-> FALSE, channel |-> "none", attached |-> FALSE, inFlight |-> <<>>]

BTInit ==
    /\ setting \in Settings
    /\ client = [pc |-> "open", isRunning |-> TRUE, attempt |-> 1, toWrite |-> <<>>,
                 got |-> <<>>, state |-> "UNKNOWN"]
    /\ sock = [i \in Attempts |-> [up |-> <<>>, down |-> <<>>, client |-> FALSE, helper |-> FALSE]]
    /\ helper = TRUE
    /\ relay = [i \in Attempts |-> [main |-> "none", phone |-> "none", isRunning |-> TRUE,
                                    up |-> <<>>, down |-> <<>>]]
    /\ opener = [i \in Attempts |-> "none"]
    /\ writer = [i \in Attempts |-> "idle"]
    /\ rf = [i \in Attempts |-> NewStream]
    /\ phone = [i \in Attempts |-> [said |-> 0, told |-> <<>>, asked |-> <<>>]]
    /\ crashes = 0

----------------------------------------------------------------------------
\* RFCOMMStream

\* IsStopped: the flag that the owner of the stream gave it.
IsStopped(i) == IF mode = "relay" THEN ~relay[i].isRunning ELSE ~client.isRunning

\* Close: the delegate is taken off the channel before it is closed, so no
\* callback comes after it; what is in flight is dropped with the channel.
Closed(s) == [s EXCEPT !.isClosed = TRUE, !.attached = FALSE,
                       !.channel = IF @ = "none" THEN @ ELSE "closed", !.inFlight = <<>>]

\* ~RFCOMMStream: closed, and the reference to the delegate is released; what
\* is left is the delegate of a query that is under way.
Destroyed(s) == [NewStream EXCEPT !.isClosed = TRUE, !.channel = Closed(s).channel,
                                  !.query = s.query, !.pending = s.pending]

Opening(i, pc) == opener' = [opener EXCEPT ![i] = pc]

\* Mutant: the query is not entered in g_PendingQueries.
StartQueryUnheld(i) ==
    /\ opener[i] = "sdp"
    /\ Opening(i, "sdpWait")
    /\ rf' = [rf EXCEPT ![i].query = TRUE]
    /\ UNCHANGED <<setting, client, sock, helper, relay, writer, phone, crashes>>

\* performSDPQuery, whose target is kept alive until it completes.
StartQuery(i) ==
    /\ opener[i] = "sdp"
    /\ Opening(i, "sdpWait")
    /\ rf' = [rf EXCEPT ![i].query = TRUE, ![i].pending = TRUE]
    /\ UNCHANGED <<setting, client, sock, helper, relay, writer, phone, crashes>>

\* No address, no device, no query.
QueryFails(i) ==
    /\ opener[i] = "sdp"
    /\ Opening(i, "failed")
    /\ UNCHANGED <<setting, client, sock, helper, relay, writer, rf, phone, crashes>>

\* The query is done; or its time is over, or the stream is stopped.
AwaitQuery(i) ==
    /\ opener[i] = "sdpWait"
    /\ Opening(i, IF rf[i].sdp = "ok" THEN "channel" ELSE "failed")
    /\ UNCHANGED <<setting, client, sock, helper, relay, writer, rf, phone, crashes>>

\* openRFCOMMChannelAsync; the service may not be there, or it fails.
OpenChannel(i) ==
    /\ opener[i] = "channel"
    /\ \/ Opening(i, "failed") /\ UNCHANGED rf
       \/ /\ Opening(i, "openWait")
          /\ rf' = [rf EXCEPT ![i].channel = "opening", ![i].attached = TRUE]
    /\ UNCHANGED <<setting, client, sock, helper, relay, writer, phone, crashes>>

\* The channel is open; or it failed, was closed, timed out or was stopped.
AwaitChannel(i) ==
    /\ opener[i] = "openWait"
    /\ IF rf[i].open = "ok"
       THEN Opening(i, "done") /\ UNCHANGED rf
       ELSE Opening(i, "failed") /\ rf' = [rf EXCEPT ![i] = Closed(@)]
    /\ UNCHANGED <<setting, client, sock, helper, relay, writer, phone, crashes>>

Connect(i) == StartQuery(i) \/ QueryFails(i) \/ AwaitQuery(i) \/ OpenChannel(i) \/ AwaitChannel(i)

\* What WriteRaw is to write next, for the thread that owns the stream.
Chunk(i) == IF mode = "relay" THEN Head(relay[i].up) ELSE Head(client.toWrite)

\* WriteRaw of a chunk begins, unless the channel is closed already.
BeginWrite(i) ==
    /\ writer[i] = "idle"
    /\ IF rf[i].isClosed
       THEN writer' = [writer EXCEPT ![i] = "failed"] /\ UNCHANGED rf
       ELSE /\ writer' = [writer EXCEPT ![i] = "submit"]
            /\ rf' = [rf EXCEPT ![i].write = NoData]

IsOpen(i) == rf[i].attached /\ rf[i].channel = "open"

\* writeAsync on the run loop, which may fail; its data has to stay valid until
\* it completes, so the delegate keeps it.
Submit(i) ==
    /\ writer[i] = "submit"
    /\ \/ /\ IsOpen(i)
          /\ rf' = [rf EXCEPT ![i].pendingWrite = Chunk(i), ![i].inFlight = Append(@, Chunk(i))]
          /\ writer' = [writer EXCEPT ![i] = "wait"]
       \/ /\ IsOpen(i)
          /\ rf' = [rf EXCEPT ![i].pendingWrite = NoData]
          /\ writer' = [writer EXCEPT ![i] = "failed"]
       \/ /\ ~IsOpen(i)
          /\ writer' = [writer EXCEPT ![i] = "failed"]
          /\ UNCHANGED rf
    /\ UNCHANGED <<setting, client, sock, helper, relay, opener, phone, crashes>>

\* The write is done; or it failed, the channel was closed, or WRITE_TIMEOUT.
AwaitWrite(i) ==
    /\ writer[i] = "wait"
    /\ writer' = [writer EXCEPT ![i] = IF rf[i].write = "ok" THEN "done" ELSE "failed"]
    /\ UNCHANGED <<setting, client, sock, helper, relay, opener, rf, phone, crashes>>

WriteRaw(i) == Submit(i) \/ AwaitWrite(i)

\* Mutant: a closed channel ends the reading, whatever has been received.
ReadClosedFirst(i, n) ==
    IF rf[i].isClosed \/ IsStopped(i) THEN n = "closed"
    ELSE rf[i].readBuffer # <<>> /\ n = "data"

\* Read: what has been received comes before the end of the channel.
Read(i, n) ==
    IF rf[i].readBuffer # <<>> THEN n = "data"
    ELSE (rf[i].isClosed \/ IsStopped(i)) /\ n = "closed"

----------------------------------------------------------------------------
\* The callbacks of PCBURFCOMMDelegate, and the phone

sdpQueryComplete(i) ==
    /\ rf[i].query
    /\ \E status \in {"ok", "error"} :
          rf' = [rf EXCEPT ![i].sdp = IF rf[i].held THEN status ELSE @,
                           ![i].query = FALSE, ![i].pending = FALSE]
    /\ UNCHANGED <<setting, client, sock, helper, relay, opener, writer, phone, crashes>>

rfcommChannelOpenComplete(i) ==
    /\ rf[i].attached /\ rf[i].channel = "opening"
    /\ \/ rf' = [rf EXCEPT ![i].open = "ok", ![i].channel = "open"]
       \/ rf' = [rf EXCEPT ![i].open = "error", ![i].channel = "closed"]
    /\ UNCHANGED <<setting, client, sock, helper, relay, opener, writer, phone, crashes>>

rfcommChannelData(i) ==
    /\ rf[i].attached /\ rf[i].channel = "open" /\ phone[i].said < Len(Answers)
    /\ phone' = [phone EXCEPT ![i].said = @ + 1]
    /\ rf' = [rf EXCEPT ![i].readBuffer = Append(@, Answers[phone'[i].said])]
    /\ UNCHANGED <<setting, client, sock, helper, relay, opener, writer, crashes>>

rfcommChannelWriteComplete(i) ==
    /\ rf[i].attached /\ rf[i].inFlight # <<>>
    /\ \/ /\ rf[i].channel = "open"
          /\ phone' = [phone EXCEPT ![i].told = Append(@, Head(rf[i].inFlight))]
          /\ rf' = [rf EXCEPT ![i].inFlight = Tail(@), ![i].pendingWrite = NoData,
                              ![i].write = "ok"]
       \/ /\ rf' = [rf EXCEPT ![i].inFlight = Tail(@), ![i].pendingWrite = NoData,
                              ![i].write = "error"]
          /\ UNCHANGED phone
    /\ UNCHANGED <<setting, client, sock, helper, relay, opener, writer, crashes>>

\* The phone hangs up, or is out of reach.
rfcommChannelClosed(i) ==
    /\ rf[i].attached /\ rf[i].channel \in {"opening", "open"}
    /\ rf' = [rf EXCEPT ![i].channel = "closed", ![i].isClosed = TRUE]
    /\ UNCHANGED <<setting, client, sock, helper, relay, opener, writer, phone, crashes>>

Callback(i) ==
    \/ sdpQueryComplete(i) \/ rfcommChannelOpenComplete(i) \/ rfcommChannelData(i)
    \/ rfcommChannelWriteComplete(i) \/ rfcommChannelClosed(i)

----------------------------------------------------------------------------
\* BTUnlockClient: ConnectThread, OpenStream and BluetoothRelay::Connect

Now == client.attempt
At(pc) == client.pc = pc
Goto(pc) == client' = [client EXCEPT !.pc = pc]

\* OpenStream of an attempt: through the helper, or with a stream of its own.
Open ==
    /\ At("open")
    /\ \/ /\ mode = "direct"
          /\ rf' = [rf EXCEPT ![Now].held = TRUE]
          /\ Opening(Now, "sdp")
          /\ Goto("connecting")
          /\ UNCHANGED <<sock, relay>>
       \/ /\ mode = "relay" /\ helper       \* connect() and getpeereid()
          /\ sock' = [sock EXCEPT ![Now].client = TRUE, ![Now].helper = TRUE]
          /\ relay' = [relay EXCEPT ![Now].main = "backlog"]
          /\ Goto("ask")
          /\ UNCHANGED <<rf, opener>>
       \/ /\ mode = "relay"
          /\ Goto("failed")
          /\ UNCHANGED <<rf, opener, sock, relay>>
    /\ UNCHANGED <<setting, helper, writer, phone, crashes>>

\* The line "CONNECT ...".
Ask ==
    /\ At("ask")
    /\ IF sock[Now].helper
       THEN Goto("line") /\ sock' = [sock EXCEPT ![Now].up = <<"CONNECT">>]
       ELSE Goto("failed") /\ sock' = [sock EXCEPT ![Now].client = FALSE, ![Now].down = <<>>]
    /\ UNCHANGED <<setting, helper, relay, opener, writer, rf, phone, crashes>>

\* ReadLine: OK, or an error, the end of the socket, no answer in time, a stop.
ReadLine ==
    /\ At("line")
    /\ \/ /\ sock[Now].down # <<>> /\ Head(sock[Now].down) = "OK"
          /\ sock' = [sock EXCEPT ![Now].down = Tail(@)]
          /\ client' = [client EXCEPT !.pc = "send", !.toWrite = Request]
       \/ /\ Goto("failed")
          /\ sock' = [sock EXCEPT ![Now].client = FALSE, ![Now].down = <<>>]
    /\ UNCHANGED <<setting, helper, relay, opener, writer, rf, phone, crashes>>

\* RFCOMMStream::Connect returned; a stream that failed is destroyed.
Connected ==
    /\ At("connecting")
    /\ Opening(Now, "none")
    /\ \/ /\ opener[Now] = "done"
          /\ client' = [client EXCEPT !.pc = "send", !.toWrite = Request]
          /\ UNCHANGED rf
       \/ /\ opener[Now] = "failed"
          /\ Goto("failed")
          /\ rf' = [rf EXCEPT ![Now] = Destroyed(@)]
    /\ UNCHANGED <<setting, sock, helper, relay, writer, phone, crashes>>

Retry ==
    /\ At("failed")
    /\ client' = IF client.attempt < setting.attempts /\ client.isRunning
                 THEN [client EXCEPT !.pc = "open", !.attempt = @ + 1]
                 ELSE [client EXCEPT !.pc = "ended", !.isRunning = FALSE, !.state = "CONNECT_ERROR"]
    /\ UNCHANGED <<setting, sock, helper, relay, opener, writer, rf, phone, crashes>>

\* Where a write leads: the request is part of PerformAuthFlow, CLOSE is the last.
Written(isDone) == CASE At("send") -> IF isDone THEN "read" ELSE "after"
                     [] At("close") -> "closing"

\* To the relay socket: SocketStream::WriteRaw refuses the request once stopped,
\* SocketWrite of CLOSE does not ask.
SendToRelay ==
    /\ mode = "relay" /\ client.pc \in {"send", "close"}
    /\ LET isSent == sock[Now].helper /\ (At("send") => client.isRunning)
       IN  /\ client' = [client EXCEPT !.pc = Written(isSent), !.toWrite = <<>>]
           /\ IF isSent
              THEN /\ sock' = [sock EXCEPT ![Now].up = @ \o client.toWrite]
                   /\ phone' = [phone EXCEPT ![Now].asked = @ \o client.toWrite]
              ELSE UNCHANGED <<sock, phone>>
    /\ UNCHANGED <<setting, helper, relay, opener, writer, rf, crashes>>

\* To the stream: Flush, chunk by chunk; CLOSE goes out after a stop, too.
SendToStream ==
    /\ mode = "direct" /\ client.pc \in {"send", "close"}
    /\ \/ /\ BeginWrite(Now)
          /\ phone' = [phone EXCEPT ![Now].asked = Append(@, Head(client.toWrite))]
          /\ UNCHANGED client
       \/ /\ writer[Now] \in {"done", "failed"}
          /\ writer' = [writer EXCEPT ![Now] = "idle"]
          /\ LET rest == IF writer[Now] = "done" THEN Tail(client.toWrite) ELSE <<>>
             IN  client' = [client EXCEPT !.toWrite = rest,
                               !.pc = IF rest = <<>> THEN Written(writer[Now] = "done") ELSE @]
          /\ UNCHANGED <<phone, rf>>
    /\ UNCHANGED <<setting, sock, helper, relay, opener, crashes>>

\* Something was read: OnPacketReceived goes on, ends the flow or throws.
Handled(n) ==
    \E next \in {"read", "after", "thrown"} :
        client' = [client EXCEPT !.got = Append(@, n), !.pc = next]

\* PerformAuthFlow reads until an answer, the end of the stream, the idle
\* timeout or a stop.
ReadFromRelay ==
    /\ mode = "relay" /\ At("read")
    /\ \/ /\ sock[Now].down # <<>>
          /\ Handled(Head(sock[Now].down))
          /\ sock' = [sock EXCEPT ![Now].down = Tail(@)]
       \/ /\ ~client.isRunning \/ sock[Now].down = <<>>           \* its end, or idle timeout
          /\ Goto("after")
          /\ UNCHANGED sock
    /\ UNCHANGED <<setting, helper, relay, opener, writer, rf, phone, crashes>>

ReadFromStream ==
    /\ mode = "direct" /\ At("read")
    /\ \/ /\ Read(Now, "data")
          /\ Handled(Head(rf[Now].readBuffer))
          /\ rf' = [rf EXCEPT ![Now].readBuffer = Tail(@)]
       \/ /\ Read(Now, "closed") \/ rf[Now].readBuffer = <<>>   \* idle timeout
          /\ Goto("after")
          /\ UNCHANGED rf
    /\ UNCHANGED <<setting, sock, helper, relay, opener, writer, phone, crashes>>

\* A phone that is still asked when the client was stopped is told so.
AfterFlow ==
    /\ At("after")
    /\ client' = IF client.isRunning
                 THEN [client EXCEPT !.state = "FLOW", !.pc = "closing"]
                 ELSE [client EXCEPT !.state = "FLOW", !.pc = "close", !.toWrite = <<"CLOSE">>]
    /\ UNCHANGED <<setting, sock, helper, relay, opener, writer, rf, phone, crashes>>

\* CloseStream, also where an exception ends the thread.
CloseStream ==
    /\ client.pc \in {"closing", "thrown"}
    /\ client' = [client EXCEPT !.pc = "ended", !.isRunning = FALSE, !.toWrite = <<>>,
                     !.state = IF At("thrown") THEN "UNK_ERROR" ELSE @]
    /\ IF mode = "relay"
       THEN sock' = [sock EXCEPT ![Now].client = FALSE, ![Now].down = <<>>] /\ UNCHANGED rf
       ELSE rf' = [rf EXCEPT ![Now] = Destroyed(@)] /\ UNCHANGED sock
    /\ UNCHANGED <<setting, helper, relay, opener, writer, phone, crashes>>

ConnectThread ==
    \/ Open \/ Ask \/ ReadLine \/ Connected \/ Retry \/ SendToRelay \/ SendToStream
    \/ ReadFromRelay \/ ReadFromStream \/ AfterFlow \/ CloseStream

\* RunServer gives the request up, or has its answer.
Stop ==
    /\ client.isRunning
    /\ client' = [client EXCEPT !.isRunning = FALSE]
    /\ UNCHANGED <<setting, sock, helper, relay, opener, writer, rf, phone, crashes>>

----------------------------------------------------------------------------
\* pcbu_bthelper: RunServer's accept, and RelayClient with its two threads

Main(i, pc) == relay' = [relay EXCEPT ![i].main = pc]

\* accept(), and the request line; or the end of the client, or REQUEST_TIMEOUT_MS.
ReadRequest(i) ==
    /\ helper /\ relay[i].main = "backlog"
    /\ \/ /\ sock[i].up # <<>>
          /\ sock' = [sock EXCEPT ![i].up = <<>>]
          /\ Main(i, "connecting")
          /\ Opening(i, "sdp")
          /\ rf' = [rf EXCEPT ![i].held = TRUE]
       \/ /\ sock[i].up = <<>>
          /\ sock' = [sock EXCEPT ![i].helper = FALSE]
          /\ Main(i, "ended")
          /\ UNCHANGED <<opener, rf>>
    /\ UNCHANGED <<setting, client, helper, writer, phone, crashes>>

\* The end of RelayClient: the stream is closed and destroyed, then the socket.
End(i) ==
    /\ Main(i, "ended")
    /\ rf' = [rf EXCEPT ![i] = Destroyed(@)]
    /\ sock' = [sock EXCEPT ![i].helper = FALSE, ![i].up = <<>>]

ReplyError(i) ==
    /\ relay[i].main = "connecting" /\ opener[i] = "failed"
    /\ Opening(i, "none")
    /\ End(i)
    /\ UNCHANGED <<setting, client, helper, writer, phone, crashes>>

\* OK, and the thread for the other direction; the client may be gone by now.
ReplyOK(i) ==
    /\ relay[i].main = "connecting" /\ opener[i] = "done"
    /\ Opening(i, "none")
    /\ IF sock[i].client
       THEN /\ sock' = [sock EXCEPT ![i].down = <<"OK">>]
            /\ relay' = [relay EXCEPT ![i].main = "poll", ![i].phone = "read"]
            /\ UNCHANGED rf
       ELSE End(i)
    /\ UNCHANGED <<setting, client, helper, writer, phone, crashes>>

\* The loop is left: the other thread is told, and joined.
Leave(i) == relay' = [relay EXCEPT ![i].main = "join", ![i].isRunning = FALSE]

\* Mutant: the end of the client is not told from having nothing to read.
PollPastEnd(i) ==
    /\ relay[i].main = "poll"
    /\ \/ /\ relay[i].isRunning
          /\ \E n \in 1 .. Len(sock[i].up) :
                /\ sock' = [sock EXCEPT ![i].up = SubSeq(@, n + 1, Len(@))]
                /\ relay' = [relay EXCEPT ![i].main = "write", ![i].up = SubSeq(sock[i].up, 1, n)]
       \/ /\ ~relay[i].isRunning
          /\ Leave(i)
          /\ UNCHANGED sock
    /\ UNCHANGED <<setting, client, helper, opener, writer, rf, phone, crashes>>

\* poll() and read(): some of what the client sent, or its end.
Poll(i) ==
    /\ relay[i].main = "poll"
    /\ \/ /\ relay[i].isRunning
          /\ \E n \in 1 .. Len(sock[i].up) :
                /\ sock' = [sock EXCEPT ![i].up = SubSeq(@, n + 1, Len(@))]
                /\ relay' = [relay EXCEPT ![i].main = "write", ![i].up = SubSeq(sock[i].up, 1, n)]
       \/ /\ ~relay[i].isRunning \/ (sock[i].up = <<>> /\ ~sock[i].client)
          /\ Leave(i)
          /\ UNCHANGED sock
    /\ UNCHANGED <<setting, client, helper, opener, writer, rf, phone, crashes>>

NextChunk(i) == relay' = [relay EXCEPT ![i].up = Tail(@),
                              ![i].main = IF Len(relay[i].up) = 1 THEN "poll" ELSE @]

\* Mutant: a chunk that could not be written is left out.
PassUpAnyway(i) ==
    /\ relay[i].main = "write"
    /\ \/ BeginWrite(i) /\ UNCHANGED relay
       \/ /\ writer[i] \in {"done", "failed"}
          /\ writer' = [writer EXCEPT ![i] = "idle"]
          /\ NextChunk(i)
          /\ UNCHANGED rf
    /\ UNCHANGED <<setting, client, sock, helper, opener, phone, crashes>>

\* pcbu_auth -> phone: every chunk of what was read, or the relay ends.
PassUp(i) ==
    /\ relay[i].main = "write"
    /\ \/ BeginWrite(i) /\ UNCHANGED relay
       \/ /\ writer[i] = "done"
          /\ writer' = [writer EXCEPT ![i] = "idle"]
          /\ NextChunk(i)
          /\ UNCHANGED rf
       \/ /\ writer[i] = "failed"
          /\ writer' = [writer EXCEPT ![i] = "idle"]
          /\ Leave(i)
          /\ UNCHANGED rf
    /\ UNCHANGED <<setting, client, sock, helper, opener, phone, crashes>>

Join(i) ==
    /\ relay[i].main = "join" /\ relay[i].phone = "ended"
    /\ End(i)
    /\ UNCHANGED <<setting, client, helper, opener, writer, phone, crashes>>

\* Phone -> pcbu_auth: the head of the loop and RFCOMMStream::Read.
ReadPhone(i) ==
    /\ relay[i].phone = "read"
    /\ \/ /\ relay[i].isRunning /\ Read(i, "data")
          /\ relay' = [relay EXCEPT ![i].phone = "pass", ![i].down = rf[i].readBuffer]
          /\ rf' = [rf EXCEPT ![i].readBuffer = <<>>]
       \/ /\ ~relay[i].isRunning \/ Read(i, "closed")
          /\ relay' = [relay EXCEPT ![i].phone = "ended", ![i].isRunning = FALSE]
          /\ UNCHANGED rf
    /\ UNCHANGED <<setting, client, sock, helper, opener, writer, phone, crashes>>

PassDown(i) ==
    /\ relay[i].phone = "pass"
    /\ IF sock[i].client
       THEN /\ sock' = [sock EXCEPT ![i].down = @ \o relay[i].down]
            /\ relay' = [relay EXCEPT ![i].phone = "read", ![i].down = <<>>]
       ELSE /\ relay' = [relay EXCEPT ![i].phone = "ended", ![i].isRunning = FALSE, ![i].down = <<>>]
            /\ UNCHANGED sock
    /\ UNCHANGED <<setting, client, helper, opener, writer, rf, phone, crashes>>

RelayClient(i) ==
    \/ ReadRequest(i) \/ ReplyError(i) \/ ReplyOK(i) \/ Poll(i) \/ PassUp(i) \/ Join(i)

PhoneThread(i) == ReadPhone(i) \/ PassDown(i)

----------------------------------------------------------------------------
\* Deaths: what a process holds goes with it.

ClientDies ==
    /\ client.pc \notin {"ended", "dead"} /\ crashes < setting.crashes
    /\ crashes' = crashes + 1
    /\ client' = [client EXCEPT !.pc = "dead", !.isRunning = FALSE]
    /\ IF mode = "relay"
       THEN /\ sock' = [i \in Attempts |-> [sock[i] EXCEPT !.client = FALSE, !.down = <<>>]]
            /\ UNCHANGED <<opener, writer, rf>>
       ELSE /\ rf' = [i \in Attempts |-> NewStream]
            /\ opener' = [i \in Attempts |-> "none"]
            /\ writer' = [i \in Attempts |-> "idle"]
            /\ UNCHANGED sock
    /\ UNCHANGED <<setting, helper, relay, phone>>

\* Also its own exit, when accept() fails.
HelperDies ==
    /\ mode = "relay" /\ helper /\ crashes < setting.crashes
    /\ crashes' = crashes + 1
    /\ helper' = FALSE
    /\ sock' = [i \in Attempts |-> [sock[i] EXCEPT !.helper = FALSE, !.up = <<>>]]
    /\ relay' = [i \in Attempts |-> IF relay[i].main \in {"none", "ended"} THEN relay[i]
                                   ELSE [relay[i] EXCEPT !.main = "dead", !.phone = "dead"]]
    /\ rf' = [i \in Attempts |-> NewStream]
    /\ opener' = [i \in Attempts |-> "none"]
    /\ writer' = [i \in Attempts |-> "idle"]
    /\ UNCHANGED <<setting, client, phone>>

\* launchd keeps it alive (com.meisapps.PulseUnlock.bthelper.plist).
HelperStarts ==
    /\ ~helper
    /\ helper' = TRUE
    /\ UNCHANGED <<setting, client, sock, relay, opener, writer, rf, phone, crashes>>

----------------------------------------------------------------------------

BTNext ==
    \/ ConnectThread \/ Stop \/ ClientDies \/ HelperDies \/ HelperStarts
    \/ \E i \in Attempts : Connect(i) \/ WriteRaw(i) \/ Callback(i) \/ RelayClient(i) \/ PhoneThread(i)

\* The threads run, and their waits end: each has a time limit or is ended by
\* the end of the socket.  Nothing is assumed of IOBluetooth or the phone.
BTFairness ==
    /\ WF_btVars(ConnectThread)
    /\ \A i \in Attempts :
          WF_btVars(Connect(i)) /\ WF_btVars(WriteRaw(i)) /\ WF_btVars(RelayClient(i)) /\ WF_btVars(PhoneThread(i))

BTSpec == BTInit /\ [][BTNext]_btVars /\ BTFairness

----------------------------------------------------------------------------
\* The words on the way, and none.
Data == {NoData, "CONNECT", "OK", "R1", "R2", "CLOSE"} \cup {Answers[n] : n \in DOMAIN Answers}

StreamRecords ==
    [sdp : {NoData, "ok", "error"}, open : {NoData, "ok", "error"}, write : {NoData, "ok", "error"},
     isClosed : BOOLEAN, readBuffer : Seq(Data), pendingWrite : Data, held : BOOLEAN,
     pending : BOOLEAN, query : BOOLEAN, channel : {"none", "opening", "open", "closed"},
     attached : BOOLEAN, inFlight : Seq(Data)]

Clients ==
    [pc : {"open", "ask", "line", "connecting", "failed", "send", "close", "read", "after", "thrown",
           "closing", "ended", "dead"},
     isRunning : BOOLEAN, attempt : Attempts, toWrite : Seq(Data), got : Seq(Data),
     state : {"UNKNOWN", "CONNECT_ERROR", "FLOW", "UNK_ERROR"}]

Socks == [up : Seq(Data), down : Seq(Data), client : BOOLEAN, helper : BOOLEAN]

Relays ==
    [main : {"none", "backlog", "connecting", "poll", "write", "join", "ended", "dead"},
     phone : {"none", "read", "pass", "ended", "dead"},
     isRunning : BOOLEAN, up : Seq(Data), down : Seq(Data)]

Openers == {"none", "sdp", "sdpWait", "channel", "openWait", "done", "failed"}
Writers == {"idle", "submit", "wait", "done", "failed"}
Phones == [said : 0 .. Len(Answers), told : Seq(Data), asked : Seq(Data)]

\* Every variable stays in its type.
BTTypeOK ==
    /\ setting \in Settings /\ helper \in BOOLEAN /\ crashes \in Nat /\ client \in Clients
    /\ sock \in [Attempts -> Socks] /\ relay \in [Attempts -> Relays]
    /\ opener \in [Attempts -> Openers] /\ writer \in [Attempts -> Writers]
    /\ rf \in [Attempts -> StreamRecords] /\ phone \in [Attempts -> Phones]

\* IOBluetooth retains neither the target of a query nor the delegate of a
\* channel: as long as it may call one back, the delegate is there, although
\* its stream may be destroyed while the query is still under way
\* (RFCOMMStream.Mac.mm:39-55, 95-104, 134-142, 270-285).
CallbackTargetsAlive ==
    \A i \in Attempts : rf[i].query \/ rf[i].attached => rf[i].held \/ rf[i].pending

\* "writeAsync needs the data to stay valid until the write completes"
\* (RFCOMMStream.Mac.mm:242): in the helper the data of a write in flight is not
\* replaced or released, also when the wait for it has timed out.
WriteDataKept ==
    mode = "relay" =>
        \A i \in Attempts :
            rf[i].inFlight # <<>> => rf[i].inFlight = <<rf[i].pendingWrite>>

Said(i) == SubSeq(Answers, 1, phone[i].said)

\* What is on its way to the client, after the line that says OK.
Heard(i) == IF At("line") /\ sock[i].down # <<>> THEN Tail(sock[i].down) ELSE sock[i].down

\* "relays raw bytes in both directions until either side closes"
\* (BluetoothRelay.Mac.h:13-15): the phone is told what the client wrote, from
\* its beginning and without a gap, the client gets what the phone said so;
\* and a helper that hangs up on a client that is still there, without having
\* failed to pass something up, has first passed down all that the phone said
\* before it hung up.
RelayLosesNothing ==
    \A i \in Attempts : mode = "relay" =>
        /\ IsPrefix(phone[i].told, phone[i].asked)
        /\ i = Now => IsPrefix(client.got \o Heard(i), Said(i))
        /\ /\ relay[i].main = "ended" /\ relay[i].phone = "ended"
           /\ relay[i].up = <<>> /\ sock[i].client
           => client.got \o Heard(i) = Said(i)

\* A request that is given up, by a stop or the death of its process, whatever
\* its threads and the helper were doing: the client's thread ends, which Stop()
\* joins, and every channel to the phone is closed and stays so.
PhoneLetGo ==
    ~client.isRunning ~>
        [](/\ client.pc \in {"ended", "dead"}
           /\ \A i \in Attempts : rf[i].channel \in {"none", "closed"})

----------------------------------------------------------------------------
(* The inductive invariant: of the client, and of each attempt.             *)

\* Where the client is with its current attempt.
ClientOK ==
    /\ mode = "direct" /\ client.pc \in {"send", "close"} => client.toWrite # <<>>
    /\ client.pc \in {"open", "ask", "line", "connecting", "failed"} => client.got = <<>>
    /\ At("open") => relay[Now].main = "none"
    /\ At("connecting") => mode = "direct"
    /\ At("ask") => /\ relay[Now].main \in {"backlog", "ended", "dead"}
                    /\ sock[Now].up = <<>> /\ sock[Now].down = <<>>
    /\ mode = "relay" /\ client.pc \in {"send", "close", "read", "after", "thrown", "closing"} =>
          relay[Now].main \notin {"none", "backlog", "connecting"}

\* Which thread uses the stream of an attempt, and how far it has come.
PlaceOK(i) ==
    /\ i > Now => relay[i].main = "none"
    /\ sock[i].client => i = Now /\ client.pc \notin {"open", "connecting", "failed", "ended", "dead"}
    /\ ~sock[i].client => sock[i].down = <<>>
    /\ opener[i] # "none" =>
          rf[i].held /\ IF mode = "relay" THEN relay[i].main = "connecting" ELSE i = Now /\ At("connecting")
    /\ writer[i] # "idle" =>
          IF mode = "relay" THEN relay[i].main = "write" ELSE i = Now /\ client.pc \in {"send", "close"}
    /\ mode = "direct" => relay[i].main = "none"

\* How far the helper has come with an attempt.
RelayOK(i) ==
    /\ relay[i].main \in {"none", "backlog", "connecting"} =>
          /\ relay[i].phone = "none" /\ relay[i].isRunning /\ relay[i].up = <<>> /\ sock[i].down = <<>>
    /\ relay[i].main = "none" => sock[i].up = <<>> /\ ~sock[i].client
    /\ relay[i].main \in {"none", "ended", "dead"} => ~sock[i].helper
    /\ relay[i].main = "connecting" => sock[i].up = <<>>
    /\ relay[i].main \in {"poll", "write", "join"} => relay[i].phone \in {"read", "pass", "ended"}
    /\ relay[i].phone \in {"read", "pass"} => relay[i].main \in {"poll", "write", "join"}
    /\ relay[i].main = "poll" => relay[i].up = <<>>
    /\ relay[i].main = "write" => relay[i].up # <<>>
    /\ relay[i].main = "join" => ~relay[i].isRunning
    /\ relay[i].phone \in {"none", "read", "ended"} => relay[i].down = <<>>

\* CallbackTargetsAlive, with the reason.
TargetOK(i) ==
    /\ rf[i].query => rf[i].pending
    /\ rf[i].attached => rf[i].held

\* WriteDataKept, with the reason: the helper gives up a stream whose write
\* has not completed.
WriteOK(i) ==
    mode = "relay" =>
        /\ writer[i] = "submit" => rf[i].write = NoData
        /\ rf[i].inFlight # <<>> =>
              /\ rf[i].inFlight = <<rf[i].pendingWrite>> /\ rf[i].write = NoData
              /\ \/ relay[i].main = "write" /\ writer[i] \in {"wait", "failed"}
                 \/ relay[i].main = "join"

\* A stream of the helper that is closed stays closed, one that is given up is closed.
ClosedOK(i) ==
    mode = "relay" =>
        /\ relay[i].main \in {"none", "backlog"} \/ opener[i] \in {"sdp", "sdpWait", "channel"} =>
              ~rf[i].isClosed /\ rf[i].channel = "none" /\ ~rf[i].attached
        /\ rf[i].isClosed => rf[i].channel \in {"none", "closed"}
        /\ relay[i].main = "ended" => ~rf[i].attached

\* Where what the client wrote is: the phone was told, IOBluetooth has it, the
\* helper has read it, or it is in the socket.
UpOK(i) ==
    mode = "relay" =>
        /\ \E rest \in Seq(Data) : phone[i].asked = (phone[i].told \o rf[i].inFlight) \o rest
        /\ relay[i].main \in {"none", "backlog", "connecting"} =>
              phone[i].asked = <<>> /\ phone[i].told = <<>>
        /\ relay[i].main = "poll" => phone[i].asked = phone[i].told \o sock[i].up
        /\ relay[i].main = "write" /\ writer[i] \in {"idle", "submit"} =>
              phone[i].asked = phone[i].told \o (relay[i].up \o sock[i].up)
        /\ /\ relay[i].main = "write"
           /\ writer[i] = "done" \/ (writer[i] = "wait" /\ (rf[i].inFlight # <<>> \/ rf[i].write = "ok"))
           => phone[i].asked = (phone[i].told \o rf[i].inFlight) \o (Tail(relay[i].up) \o sock[i].up)

\* Where what the phone said is: the client got it, or it is in the socket, the
\* thread of the helper has read it, or the delegate keeps it.
DownOK(i) ==
    mode = "relay" =>
        /\ relay[i].main \in {"none", "backlog"} => phone[i].said = 0 /\ rf[i].readBuffer = <<>>
        /\ i = Now => \E rest \in Seq(Data) : Said(i) = (client.got \o Heard(i)) \o rest
        /\ sock[i].client /\ relay[i].main \notin {"ended", "dead"} =>
              Said(i) = (client.got \o Heard(i)) \o (relay[i].down \o rf[i].readBuffer)
        /\ sock[i].client /\ At("line") /\ relay[i].main \in {"poll", "write", "join"} =>
              sock[i].down # <<>>
        /\ /\ sock[i].client /\ ~relay[i].isRunning
           /\ relay[i].main \in {"poll", "write"} \/ (relay[i].main = "join" /\ relay[i].up = <<>>)
           => relay[i].phone = "ended" /\ rf[i].readBuffer = <<>> /\ rf[i].isClosed
        /\ /\ relay[i].main = "ended" /\ relay[i].phone = "ended"
           /\ relay[i].up = <<>> /\ sock[i].client
           => client.got \o Heard(i) = Said(i)

AttemptOK(i) ==
    PlaceOK(i) /\ RelayOK(i) /\ TargetOK(i) /\ WriteOK(i) /\ ClosedOK(i) /\ UpOK(i) /\ DownOK(i)

MacInv == BTTypeOK /\ ClientOK /\ \A i \in Attempts : AttemptOK(i)
=============================================================================
