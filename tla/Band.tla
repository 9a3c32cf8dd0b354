--------------------------------- MODULE Band ---------------------------------
(***************************************************************************)
(* Band: the rooms in which the agents of an invoice talk, and the agents' *)
(* connections to it.  The two halves share no state.                      *)
(***************************************************************************)
EXTENDS Integers, Sequences, FiniteSets, SequencesExt

(***************************************************************************)
(* The rooms in which the agents of an invoice talk.  The scripted room    *)
(* (themis-orchestrator/src/room.rs) keeps them in memory; the real one    *)
(* keeps a map from rooms to Band chatrooms and speaks with the Band SDK   *)
(* over a bridge (themis-band-client/src/python_bridge.rs): one child      *)
(* process, one line per request and one line per answer, a timeout, and   *)
(* the two ends of the pipe kept in two mutexes that a request holds from  *)
(* beginning to end.  The SDK in the child is external.                    *)
(***************************************************************************)

CONSTANTS
    RoomCalls,      \* calls of the BandRoom trait, in flight together
    Tenants,
    InvoiceIds,
    Participants,   \* the agents open adds to a new chatroom, in order
    SpawnModes      \* what THEMIS_BAND_MODE, the key and the spawn come to

RoomIds == Tenants \X InvoiceIds     \* uuid v5 of "tenant:invoice"
NoRoom == "none"

ASSUME RoomCallsAssumption == NoRoom \notin RoomCalls
ASSUME ParticipantsAssumption == Participants \in Seq(STRING)

VARIABLES
    brMode,     \* "unset", "scripted" or "real"
    brMock,     \* scripted: room -> [owner, history], for the opened ones
    brRooms,    \* real: room -> chatroom, for the cached ones
    brStdin,    \* the bridge still holds the child's stdin
    brStdout,   \* the bridge still holds the child's stdout
    brHolder,   \* the call that holds the two mutexes, or NoRoom
    brPipe,     \* requests written and not yet read by the child
    brOut,      \* answers written and not yet read by the bridge
    brChild,    \* the child is running
    brBand,     \* Band: the chatrooms made so far, with their messages
    brStats,    \* requests_total and errors_total
    brCall      \* the calls

brVars == <<brMode, brMock, brRooms, brStdin, brStdout, brHolder, brPipe, brOut,
            brChild, brBand, brStats, brCall>>
bridge == <<brStdin, brStdout, brHolder, brPipe, brOut, brChild, brStats>>

NoRequest == [op |-> "none", room |-> NoRoom, chatroom |-> 0, from |-> NoRoom]
NoRoomCall == [at |-> "idle", op |-> "none", room |-> NoRoom, from |-> NoRoom,
         added |-> 0, chatroom |-> 0, request |-> NoRequest, result |-> "none",
         reply |-> NoRequest]

brInit ==
    /\ brMode = "unset"
    /\ brMock = <<>>
    /\ brRooms = <<>>
    /\ brStdin = FALSE /\ brStdout = FALSE
    /\ brHolder = NoRoom
    /\ brPipe = <<>> /\ brOut = <<>>
    /\ brChild = FALSE
    /\ brBand = <<>>
    /\ brStats = [requests |-> 0, errors |-> 0]
    /\ brCall = [c \in RoomCalls |-> NoRoomCall]

\* f with k set to v, k new or not.
PutAt(f, k, v) == [x \in DOMAIN f \cup {k} |-> IF x = k THEN v ELSE f[x]]
-----------------------------------------------------------------------------
\* PythonBandBridge::spawn: the child runs and both its ends are kept.
BridgeSpawn(ok) ==
    /\ brStdin' = ok
    /\ brStdout' = ok
    /\ brChild' = ok

\* try_real_band_room: the key set and not empty, the mode "real" and the
\* child spawned, or else the scripted room.
TryRealBandRoom(m) ==
    /\ brMode = "unset"
    /\ brMode' = IF m = [key |-> TRUE, mode |-> "real", spawned |-> TRUE]
                 THEN "real" ELSE "scripted"
    /\ BridgeSpawn(brMode' = "real")
    /\ UNCHANGED <<brMock, brRooms, brHolder, brPipe, brOut, brBand, brStats, brCall>>

\* A caller asks for op; the real room looks its map up.
RoomAsk(c, op, room, from) ==
    /\ brMode = "real"
    /\ brCall[c].at = "idle"
    /\ LET known == room \in DOMAIN brRooms
           call  == [NoRoomCall EXCEPT !.op = op, !.room = room, !.from = from]
           send(r) == [call EXCEPT !.at = "ask", !.request = r]
           end(r)  == [call EXCEPT !.at = "done", !.result = r]
           about   == [op |-> op, room |-> room, chatroom |-> brRooms[room], from |-> from]
       IN  brCall' = [brCall EXCEPT ![c] =
               CASE op = "open" -> IF known THEN end("ok")
                                   ELSE send([NoRequest EXCEPT !.op = "create", !.room = room])
                 [] op = "close" -> [call EXCEPT !.at = "remove"]
                 [] op = "peers" -> send([NoRequest EXCEPT !.op = "peers"])
                 [] OTHER -> IF known THEN send(about) ELSE end("unknown room")]
    /\ UNCHANGED <<brMode, brMock, brRooms, bridge, brBand>>

\* Calls that hold a reference into the map while their request runs.
MapReaders == {c \in RoomCalls : /\ brCall[c].op \in {"post", "history"}
                              /\ brCall[c].at \in {"ask", "write", "read"}}

\* close takes the room out of the map before it asks Band.
RoomRemove(c) ==
    /\ brCall[c].at = "remove"
    /\ MapReaders = {}
    /\ LET room == brCall[c].room IN
       IF room \in DOMAIN brRooms
       THEN /\ brRooms' = [r \in DOMAIN brRooms \ {room} |-> brRooms[r]]
            /\ brCall' = [brCall EXCEPT ![c].at = "ask",
                   ![c].request = [NoRequest EXCEPT !.op = "close", !.room = room,
                                                    !.chatroom = brRooms[room]]]
       ELSE /\ brCall' = [brCall EXCEPT ![c].at = "done", ![c].result = "ok"]
            /\ UNCHANGED brRooms
    /\ UNCHANGED <<brMode, brMock, bridge, brBand>>
-----------------------------------------------------------------------------
\* What a call does with the answer of its request; a failed one has the
\* reply NoRequest.
AfterReply(call, reply) ==
    LET ok   == reply # NoRequest
        end(r) == [call EXCEPT !.at = "done", !.result = r, !.reply = reply]
        add(n, chatroom) ==
            IF n = Len(Participants)
            THEN [call EXCEPT !.at = "insert", !.added = n, !.chatroom = chatroom, !.reply = reply]
            ELSE [call EXCEPT !.at = "ask", !.added = n, !.chatroom = chatroom, !.reply = reply,
                      !.request = [NoRequest EXCEPT !.op = "add", !.room = call.room,
                                       !.chatroom = chatroom, !.from = Participants[n + 1]]]
    IN  CASE call.request.op = "create" ->
                 IF ok /\ reply.chatroom # 0 THEN add(0, reply.chatroom) ELSE end("error")
          [] call.request.op = "add" -> add(call.added + 1, call.chatroom)
          [] call.request.op \in {"close", "peers"} -> end("ok")
          [] call.request.op = "history" /\ ok ->
                 end(IF reply.chatroom = 0 THEN "error" ELSE "ok")
          [] OTHER -> end(IF ok THEN "ok" ELSE "error")

\* record_outcome.
RecordOutcome(ok) ==
    brStats' = [requests |-> brStats.requests + 1,
                errors   |-> brStats.errors + (IF ok THEN 0 ELSE 1)]

\* send_request_with_timeout gets both mutexes and takes both handles.  A
\* handle that is gone ends the request, uncounted; a stdin that was taken
\* before stdout was found missing is dropped, which closes the child's input.
BridgeTake(c) ==
    /\ brCall[c].at = "ask"
    /\ brHolder = NoRoom
    /\ IF brStdin /\ brStdout
       THEN /\ brHolder' = c
            /\ brCall' = [brCall EXCEPT ![c].at = "write"]
       ELSE /\ brCall' = [brCall EXCEPT ![c] = AfterReply(@, NoRequest)]
            /\ UNCHANGED brHolder
    /\ brStdin' = (brStdin /\ brStdout)
    /\ UNCHANGED <<brMode, brMock, brRooms, brStdout, brPipe, brOut, brChild, brBand, brStats>>

\* The line is written and flushed, or the child has gone and the write
\* fails: then both handles are put back.  The write has no time-out: a line
\* longer than the pipe waits for a child that reads.
BridgeWrite(c) ==
    /\ brCall[c].at = "write"
    /\ IF brChild
       THEN /\ brPipe' = Append(brPipe, <<c, brCall[c].request>>)
            /\ brCall' = [brCall EXCEPT ![c].at = "read"]
            /\ UNCHANGED <<brHolder, brStats>>
       ELSE /\ brCall' = [brCall EXCEPT ![c] = AfterReply(@, NoRequest)]
            /\ brHolder' = NoRoom
            /\ RecordOutcome(FALSE)
            /\ UNCHANGED brPipe
    /\ UNCHANGED <<brMode, brMock, brRooms, brStdin, brStdout, brOut, brChild, brBand>>

\* The reader thread got a line in time.  The rest of its buffer is dropped
\* with it and stdout is put back; a line that is no JSON is an error.
BridgeRead(c) ==
    /\ brCall[c].at = "read"
    /\ brOut # <<>>
    /\ brCall' = [brCall EXCEPT ![c] = AfterReply(@, Head(brOut))]
    /\ brOut' = <<>>
    /\ brHolder' = NoRoom
    /\ RecordOutcome(Head(brOut) # NoRequest)
    /\ UNCHANGED <<brMode, brMock, brRooms, brStdin, brStdout, brPipe, brChild, brBand>>

\* A mutant of BridgeTimeout: stdout is put back, as for an answer.
BridgeTimeoutKeeps(c) ==
    /\ brCall[c].at = "read"
    /\ brCall' = [brCall EXCEPT ![c] = AfterReply(@, NoRequest)]
    /\ brHolder' = NoRoom
    /\ RecordOutcome(FALSE)
    /\ UNCHANGED <<brMode, brMock, brRooms, brStdin, brStdout, brPipe, brOut, brChild, brBand>>

\* The timeout runs out, or the child closes its stdout: stdout stays with
\* the abandoned reader and is never put back.
BridgeTimeout(c) ==
    /\ brCall[c].at = "read"
    /\ brCall' = [brCall EXCEPT ![c] = AfterReply(@, NoRequest)]
    /\ brStdout' = FALSE
    /\ brHolder' = NoRoom
    /\ RecordOutcome(FALSE)
    /\ UNCHANGED <<brMode, brMock, brRooms, brStdin, brPipe, brOut, brChild, brBand>>

\* open writes the chatroom into its map, over an earlier one if there is.
RoomInsert(c) ==
    /\ brCall[c].at = "insert"
    /\ MapReaders = {}
    /\ brRooms' = PutAt(brRooms, brCall[c].room, brCall[c].chatroom)
    /\ brCall' = [brCall EXCEPT ![c].at = "done", ![c].result = "ok"]
    /\ UNCHANGED <<brMode, brMock, bridge, brBand>>

\* shutdown, when the orchestrator is dropped: no call is under way.
BridgeShutdown ==
    /\ brMode = "real" /\ (brStdin \/ brStdout \/ brChild)
    /\ \A c \in RoomCalls : brCall[c].at \in {"idle", "done"}
    /\ brStdin' = FALSE /\ brStdout' = FALSE /\ brChild' = FALSE
    /\ UNCHANGED <<brMode, brMock, brRooms, brHolder, brPipe, brOut, brBand, brStats, brCall>>
-----------------------------------------------------------------------------
\* The SDK in the child: it takes a request, does it and answers with one
\* line; or answers with an error object, or with a line that is no JSON.
SdkServe(q, outcome) ==
    LET made == Len(brBand) + 1 IN
    /\ brBand' = IF outcome = "refused" THEN brBand
                 ELSE CASE q.op = "create" ->
                               Append(brBand, [room |-> q.room, in |-> {}, posts |-> <<>>])
                        [] q.op = "add" ->
                               [brBand EXCEPT ![q.chatroom].in = @ \cup {q.from}]
                        [] q.op = "post" ->
                               [brBand EXCEPT ![q.chatroom].posts = Append(@, <<q.room, q.from>>)]
                        [] OTHER -> brBand
    /\ brOut' = Append(brOut,
           CASE outcome = "garbled" -> NoRequest
             [] outcome = "refused" -> [q EXCEPT !.chatroom = 0]
             [] OTHER -> IF q.op = "create" THEN [q EXCEPT !.chatroom = made] ELSE q)

ChildServes(outcome) ==
    /\ brChild /\ brPipe # <<>>
    /\ SdkServe(brPipe[1][2], outcome)
    /\ brPipe' = Tail(brPipe)
    /\ UNCHANGED <<brMode, brMock, brRooms, brStdin, brStdout, brHolder, brChild, brStats, brCall>>

\* The child dies, or ends because its input is closed.
ChildExits ==
    /\ brChild
    /\ brChild' = FALSE
    /\ brPipe' = <<>>
    /\ UNCHANGED <<brMode, brMock, brRooms, brStdin, brStdout, brHolder, brOut, brBand, brStats, brCall>>
-----------------------------------------------------------------------------
\* The scripted room: every call is one step on the map.
MockCall(c, op, room, from) ==
    /\ brMode = "scripted"
    /\ brCall[c].at = "idle"
    /\ LET known == room \in DOMAIN brMock
           own   == known /\ brMock[room].owner = from
       IN  /\ brMock' = CASE op = "open" /\ ~known ->
                                 PutAt(brMock, room, [owner |-> room[1], history |-> <<>>])
                          [] op = "post" /\ own ->
                                 [brMock EXCEPT ![room].history = Append(@, <<room, from>>)]
                          [] OTHER -> brMock
           /\ brCall' = [brCall EXCEPT ![c] = [NoRoomCall EXCEPT !.at = "done", !.op = op,
                  !.room = room, !.from = from,
                  !.result = IF op \in {"open", "close", "peers"} THEN "ok"
                             ELSE IF ~known THEN "unknown room"
                             ELSE IF op = "post" /\ ~own THEN "cross-tenant post" ELSE "ok"]]
    /\ UNCHANGED <<brMode, brRooms, bridge, brBand>>

\* ScriptedBandRoom hands every call to the MockBandRoom it wraps.
ScriptedCall(c, op, room, from) == MockCall(c, op, room, from)

brStep(c) == RoomRemove(c) \/ BridgeTake(c) \/ BridgeRead(c) \/ BridgeTimeout(c) \/ RoomInsert(c)

brCalls(c) ==
    \E op \in {"open", "post", "history", "close", "peers"}, room \in RoomIds, from \in Tenants :
        /\ op \in {"open", "close", "history", "peers"} => from = room[1]
        /\ RoomAsk(c, op, room, from) \/ ScriptedCall(c, op, room, from)

brNext ==
    \/ \E m \in SpawnModes : TryRealBandRoom(m)
    \/ \E c \in RoomCalls : brCalls(c) \/ brStep(c) \/ BridgeWrite(c)
    \/ \E o \in {"done", "refused", "garbled"} : ChildServes(o)
    \/ ChildExits
    \/ BridgeShutdown

brSpec == brInit /\ [][brNext]_brVars

\* A task that can go on does, and the time-out of the bridge bounds its wait
\* for an answer.  Nothing is assumed of BridgeWrite.
brFairness == \A c \in RoomCalls : WF_brVars(brStep(c))
-----------------------------------------------------------------------------
\* No answer is taken for another request's: what a call was told is the
\* answer to what it asked, although a late answer may still be on its way
\* when the next request runs (python_bridge.rs, the timeout path), so a room
\* is never given another room's chatroom and no message goes astray.
RoomsAreTheirOwn ==
    /\ \A r \in DOMAIN brRooms : brBand[brRooms[r]].room = r
    /\ \A i \in DOMAIN brBand : \A p \in Range(brBand[i].posts) : p[1] = brBand[i].room
    /\ \A c \in RoomCalls :
           brCall[c].at = "done" /\ brCall[c].reply # NoRequest =>
               brCall[c].reply.op = brCall[c].request.op /\ brCall[c].reply.room = brCall[c].request.room

\* Unless the child leaves a write blocked for good, every call of a room
\* returns, whatever the child does: no two calls wait for one another over
\* the two mutexes and the map.
EveryRoomCallReturns ==
    (\A c \in RoomCalls : []<>(brCall[c].at # "write")) =>
        \A c \in RoomCalls : brCall[c].at # "idle" ~> brCall[c].at = "done"

-----------------------------------------------------------------------------
(***************************************************************************)
(* The agents' connections to Band: one shim process per agent             *)
(* (themis-band-client/scripts/run_agent.py) and, on the Rust side, a      *)
(* handle (socket.rs) with a thread that reads the shim's lines, answers   *)
(* outstanding requests by their ref and queues every other event.  A      *)
(* handle has one owner: a caller that sends requests and receives events, *)
(* or, for a live room (themis-orchestrator/src/band_live.rs), a pump      *)
(* that only receives and broadcasts.                                      *)
(***************************************************************************)

CONSTANTS
    Handles,        \* handles that may be spawned
    Starts,         \* requests POST /band/start-room
    RoomNames,
    AGENTS,         \* the length of AGENT_NAMES
    EVENT_CAP,      \* capacity of a handle's event channel
    MaxRefs,        \* requests a caller makes
    MaxBeats        \* heartbeats of a shim

VARIABLES
    bsHandle,   \* the handles
    bsStart,    \* the start-room requests
    bsRegistry, \* the fan-out registry
    bsCounter,  \* events pumped, per start
    bsPrinted   \* per handle: lines printed that are events (history)

bsVars == <<bsHandle, bsStart, bsRegistry, bsCounter, bsPrinted>>

NoRef == 0
NoEvent == [event |-> "none", ref |-> NoRef]
NotSpawned ==
    [owner |-> "none", room |-> "none", shim |-> "none", stdin |-> FALSE,
     in |-> <<>>, lines |-> <<>>, beats |-> 0, held |-> NoEvent, reader |-> TRUE,
     chan |-> <<>>, pending |-> {}, next |-> 1, wait |-> NoRef, op |-> "none",
     answer |-> NoEvent, told |-> {}, observed |-> 0, received |-> <<>>, replies |-> 0,
     kept |-> <<>>]    \* the last four, and told, are history

bsInit ==
    /\ bsHandle = [h \in Handles |-> NotSpawned]
    /\ bsStart = [s \in Starts |-> [at |-> "idle", room |-> "none", told |-> "none"]]
    /\ bsRegistry = [room |-> "none", start |-> "none", agents |-> 0]
    /\ bsCounter = [s \in Starts |-> 0]
    /\ bsPrinted = [h \in Handles |-> <<>>]

Line(event, ref) == [event |-> event, ref |-> ref]

\* What a shim prints before it reads its first command.
Greeting == <<Line("connecting", NoRef), Line("connected", NoRef), Line("room:joined", NoRef)>>

SpawnedHandle(owner, room) ==
    [NotSpawned EXCEPT !.owner = owner, !.room = room, !.shim = "up", !.stdin = TRUE,
                       !.lines = Greeting]

Fresh == {h \in Handles : bsHandle[h].owner = "none"}

\* What spawning n handles leaves behind when the environment lacks a key
\* (configured FALSE) or the k-th spawn fails: handles spawned before it are
\* dropped, and their shims with them.
SpawnOutcomes(n) == [configured : BOOLEAN, spawned : 0 .. n]

\* SocketHandle::spawn for a caller, by way of BandFleet::spawn_one.
SpawnOne(h, room) ==
    /\ h \in Fresh
    /\ bsHandle' = [bsHandle EXCEPT ![h] = SpawnedHandle("caller", room)]
    /\ bsPrinted' = [bsPrinted EXCEPT ![h] = Greeting]
    /\ UNCHANGED <<bsStart, bsRegistry, bsCounter>>
-----------------------------------------------------------------------------
\* f applied to the record of handle h.
Update(h, new) ==
    /\ bsHandle' = [bsHandle EXCEPT ![h] = new]
    /\ UNCHANGED <<bsStart, bsRegistry, bsCounter>>

\* send_request_raw_blocking, up to the wait.  The request is entered before
\* it is written: when stdin is gone or the write fails (which drops stdin)
\* the entry stays.
SendRequest(h, op) ==
    LET s == bsHandle[h] IN
    /\ s.owner = "caller" /\ s.wait = NoRef /\ s.next <= MaxRefs
    /\ Update(h, IF s.stdin /\ s.shim = "up"
                 THEN [s EXCEPT !.pending = @ \cup {s.next}, !.next = @ + 1, !.wait = s.next,
                                !.op = op, !.answer = NoEvent, !.in = Append(@, Line(op, s.next))]
                 ELSE [s EXCEPT !.pending = @ \cup {s.next}, !.next = @ + 1, !.stdin = FALSE])
    /\ UNCHANGED bsPrinted

\* What the caller makes of a reply: join_room parses it into a JoinResponse,
\* whose fields the shim prints in its room:joined event and not in the reply.
ResultOf(op, reply) ==
    CASE op = "join_room" -> "parse error"
      [] OTHER -> "ok"

\* The answer came in time.
RequestAnswered(h) ==
    LET s == bsHandle[h] IN
    /\ s.wait # NoRef /\ s.answer # NoEvent
    /\ Update(h, [s EXCEPT !.pending = @ \ {s.wait}, !.wait = NoRef,
                           !.told = @ \cup {<<s.wait, s.answer.ref, ResultOf(s.op, s.answer)>>}])
    /\ UNCHANGED bsPrinted

\* recv_timeout ran out: the entry is withdrawn.  A reply that the reader
\* took just before the withdrawal is lost.
RequestTimesOut(h) ==
    LET s == bsHandle[h] IN
    /\ s.wait # NoRef
    /\ Update(h, [s EXCEPT !.pending = @ \ {s.wait}, !.wait = NoRef])
    /\ UNCHANGED bsPrinted

\* recv_event: for a pump, the event is counted and broadcast.
RecvEvent(h) ==
    LET s == bsHandle[h] IN
    /\ s.owner # "none" /\ s.wait = NoRef /\ s.chan # <<>>
    /\ bsHandle' = [bsHandle EXCEPT ![h].chan = Tail(@),
                                    ![h].received = Append(@, Head(s.chan))]
    /\ bsCounter' = [t \in Starts |-> bsCounter[t] + (IF s.owner = t THEN 1 ELSE 0)]
    /\ UNCHANGED <<bsStart, bsRegistry, bsPrinted>>

\* shutdown (a caller drops its handle, a pump ends with its channel): stdin
\* is closed, the shim is waited for, killed and reaped.
ShutdownHandle(h) ==
    LET s == bsHandle[h] IN
    /\ s.owner # "none" /\ s.wait = NoRef /\ s.shim # "dropped"
    /\ s.owner = "caller" \/ (s.chan = <<>> /\ ~s.reader)
    /\ Update(h, [s EXCEPT !.stdin = FALSE, !.shim = "dropped", !.in = <<>>, !.owner = "gone"])
    /\ UNCHANGED bsPrinted
-----------------------------------------------------------------------------

\* The reader thread takes a line.  A phx_reply whose ref is outstanding goes
\* to its request, and is lost when that request has just timed out; any
\* other line is an event.
ReadLine(h) ==
    LET s == bsHandle[h]
        l == Head(s.lines)
        s1 == [s EXCEPT !.lines = Tail(@), !.observed = @ + 1]
    IN  /\ s.reader /\ s.held = NoEvent /\ s.lines # <<>>
        /\ Update(h, IF l.event = "phx_reply" /\ l.ref \in s.pending
                     THEN [s1 EXCEPT !.pending = @ \ {l.ref}, !.replies = @ + 1,
                                     !.answer = IF l.ref = s.wait THEN l ELSE @]
                     ELSE [s1 EXCEPT !.held = l, !.kept = Append(@, s.observed + 1)])
        /\ UNCHANGED bsPrinted

\* blocking_send: the thread waits while the channel is full.
PushEvent(h) ==
    LET s == bsHandle[h] IN
    /\ s.held # NoEvent
    /\ s.owner # "gone"
    /\ Len(s.chan) < EVENT_CAP
    /\ Update(h, [s EXCEPT !.held = NoEvent, !.chan = Append(@, s.held)])
    /\ UNCHANGED bsPrinted

\* The thread ends with the shim's output, or with the receiver.
ReaderEnds(h) ==
    LET s == bsHandle[h] IN
    /\ s.reader
    /\ \/ s.shim \in {"exited", "dropped"} /\ s.lines = <<>> /\ s.held = NoEvent
       \/ s.owner = "gone" /\ s.held # NoEvent
    /\ Update(h, [s EXCEPT !.reader = FALSE])
    /\ UNCHANGED bsPrinted
-----------------------------------------------------------------------------
\* A shim reads a command and prints its event and its reply; a ping or an
\* unknown command has no phx_reply.
ShimAnswer(cmd) ==
    CASE cmd.event = "post_message" -> <<Line("room:new_msg", cmd.ref), Line("phx_reply", cmd.ref)>>
      [] cmd.event = "join_room"    -> <<Line("room:joined", NoRef), Line("phx_reply", cmd.ref)>>
      [] cmd.event = "ping"         -> <<Line("pong", cmd.ref)>>
      [] OTHER                      -> <<Line("shim_error", cmd.ref)>>

ShimCommand(h) ==
    LET s == bsHandle[h] IN
    /\ s.shim = "up" /\ s.in # <<>>
    /\ Update(h, [s EXCEPT !.in = Tail(@), !.lines = @ \o ShimAnswer(Head(s.in))])
    /\ bsPrinted' = [bsPrinted EXCEPT ![h] = @ \o ShimAnswer(Head(s.in))]

\* The heartbeat thread of a shim.
Heartbeat(h) ==
    LET s == bsHandle[h] IN
    /\ s.shim = "up" /\ s.beats < MaxBeats
    /\ Update(h, [s EXCEPT !.beats = @ + 1, !.lines = Append(@, Line("heartbeat", NoRef))])
    /\ bsPrinted' = [bsPrinted EXCEPT ![h] = Append(@, Line("heartbeat", NoRef))]

\* A shim dies.
ShimExits(h) ==
    /\ bsHandle[h].shim = "up"
    /\ Update(h, [bsHandle[h] EXCEPT !.shim = "exited", !.in = <<>>])
    /\ UNCHANGED bsPrinted
-----------------------------------------------------------------------------
\* start_room: the fleet is spawned, or nothing is; its pumps are started.
StartRoom(t, room, o) ==
    /\ bsStart[t].at = "idle"
    /\ LET ok == o.configured /\ o.spawned = AGENTS IN
       IF ok
       THEN \E fleet \in SUBSET Fresh :
                /\ Cardinality(fleet) = AGENTS
                /\ bsHandle' = [h \in Handles |-> IF h \in fleet THEN SpawnedHandle(t, room)
                                                                 ELSE bsHandle[h]]
                /\ bsPrinted' = [h \in Handles |-> IF h \in fleet THEN Greeting ELSE bsPrinted[h]]
                /\ bsStart' = [bsStart EXCEPT ![t] = [at |-> "register", room |-> room, told |-> "none"]]
       ELSE /\ bsStart' = [bsStart EXCEPT ![t] = [at |-> "failed", room |-> room, told |-> "none"]]
            /\ UNCHANGED <<bsHandle, bsPrinted>>
    /\ UNCHANGED <<bsRegistry, bsCounter>>

\* The registry is replaced; the fleet it named goes on pumping.
Register(t) ==
    /\ bsStart[t].at = "register"
    /\ bsRegistry' = [room |-> bsStart[t].room, start |-> t, agents |-> AGENTS]
    /\ bsStart' = [bsStart EXCEPT ![t].at = "metrics"]
    /\ UNCHANGED <<bsHandle, bsCounter, bsPrinted>>

\* metrics, under the lock taken again: what the response carries.
StartMetrics(t) ==
    /\ bsStart[t].at = "metrics"
    /\ bsStart' = [bsStart EXCEPT ![t].at = "done", ![t].told = bsRegistry.room]
    /\ UNCHANGED <<bsHandle, bsRegistry, bsCounter, bsPrinted>>

bsNext ==
    \/ \E h \in Handles :
           \/ \E r \in RoomNames : SpawnOne(h, r)
           \/ \E op \in {"post_message", "join_room", "ping", "other"} : SendRequest(h, op)
           \/ RequestAnswered(h) \/ RequestTimesOut(h) \/ RecvEvent(h) \/ ShutdownHandle(h)
           \/ ReadLine(h) \/ PushEvent(h) \/ ReaderEnds(h)
           \/ ShimCommand(h) \/ Heartbeat(h) \/ ShimExits(h)
    \/ \E t \in Starts :
           \/ \E r \in RoomNames, o \in SpawnOutcomes(AGENTS) : StartRoom(t, r, o)
           \/ Register(t) \/ StartMetrics(t)

bsSpec == bsInit /\ [][bsNext]_bsVars
-----------------------------------------------------------------------------
\* A request is answered by the reply that carries its ref, although replies
\* to requests that timed out, and entries of requests that were never
\* written, are still about (socket.rs, the reader thread).
AnswerIsToItsRequest ==
    \A h \in Handles : \A t \in bsHandle[h].told : t[1] = t[2]

\* The events its owner has had from a handle, or is going to have.
Events(s) == (s.received \o s.chan) \o (IF s.held = NoEvent THEN <<>> ELSE <<s.held>>)

\* No event is lost between a shim and the owner of its handle, and none is
\* received twice or out of order, however full the channel is: what the
\* owner has and what waits for it are lines that were printed, in their
\* order, and of the lines the reader has taken only replies are not among
\* them, as many as were given to their requests; the others are unread.
NothingIsLost(s, printed) ==
    /\ Len(printed) = s.observed + Len(s.lines)
    /\ \A i \in DOMAIN s.lines : s.lines[i] = printed[s.observed + i]
    /\ Len(s.kept) = Len(Events(s)) /\ Len(s.kept) + s.replies = s.observed
    /\ \A i \in DOMAIN s.kept :
           /\ s.kept[i] \in 1 .. s.observed /\ Events(s)[i] = printed[s.kept[i]]
           /\ \A j \in 1 .. (i - 1) : s.kept[j] < s.kept[i]
    /\ \A k \in 1 .. s.observed :
           (\E i \in DOMAIN s.kept : s.kept[i] = k) \/ printed[k].event = "phx_reply"

NoEventIsLost == \A h \in Handles : NothingIsLost(bsHandle[h], bsPrinted[h])
=============================================================================
