----------------------------- MODULE LiveEvents -----------------------------
(* The WebSocket notifications of one API process: sockets that subscribe to *)
(* a ticket or to the dashboard, request handlers that broadcast an event to *)
(* both channels after their commit, and clients that stop reading or go     *)
(* away at any moment. Everything lives in one event loop, so a handler runs *)
(* undisturbed from one await to the next; the bodies under the manager's    *)
(* asyncio lock contain no await and are therefore single actions.           *)
CONSTANTS
  Sockets,      \* WebSocket connections; a client that returns has a new one
  Handlers,     \* HTTP requests that publish an event; each is made once
  Tickets,      \* tickets with a channel of their own
  Dashboard,    \* the channel of the agents' dashboard
  about         \* about[h]: the ticket h concerns

ASSUME ChannelAssumption == Dashboard \notin Tickets
ASSUME AboutAssumption == about \in [Handlers -> Tickets]

Channels == Tickets \cup {Dashboard}

VARIABLES
  channel,      \* channel[s]: the channel the URL of s names
  allowed,      \* allowed[s]: its token and the access check let s in
  pc,           \* pc[s]: how far the endpoint of s has come
  line,         \* line[s]: whether the client still takes in what it is sent
  connections,  \* the manager's dictionary: channel -> set of sockets
  heard,        \* heard[s]: the events that reached the client
  step,         \* step[h]: how far the request h has come
  waiting,      \* waiting[h]: sends of the current broadcast still under way
  stale,        \* stale[h]: sockets whose send failed
  due           \* history: the subscribers there were when h committed

sockets == <<channel, allowed, pc, line>>
handlers == <<step, waiting, stale, due>>
vars == <<sockets, connections, heard, handlers>>

Stages == {"new", "admitted", "accepted", "serving", "closed"}
Steps == {"idle", "changed", "to_ticket", "between", "to_dashboard", "done",
          "failed"}

TypeOK ==
  /\ channel \in [Sockets -> Channels]
  /\ allowed \in [Sockets -> BOOLEAN]
  /\ pc \in [Sockets -> Stages]
  /\ line \in [Sockets -> {"up", "stalled", "down"}]
  /\ DOMAIN connections \subseteq Channels
  /\ connections \in [DOMAIN connections -> SUBSET Sockets]
  /\ heard \in [Sockets -> SUBSET Handlers]
  /\ step \in [Handlers -> Steps]
  /\ waiting \in [Handlers -> SUBSET Sockets]
  /\ stale \in [Handlers -> SUBSET Sockets]
  /\ due \in [Handlers -> SUBSET Sockets]

(* self._connections.get(channel, ()) *)
Members(c) == IF c \in DOMAIN connections THEN connections[c] ELSE {}

(* The dictionary with the given members for one channel; no key for none.   *)
WithMembers(c, S) ==
  [x \in (DOMAIN connections \ {c}) \cup (IF S = {} THEN {} ELSE {c}) |->
     IF x = c THEN S ELSE connections[x]]

Init ==
  /\ channel \in [Sockets -> Channels]
  /\ allowed \in [Sockets -> BOOLEAN]
  /\ pc = [s \in Sockets |-> "new"]
  /\ line = [s \in Sockets |-> "up"]
  /\ connections = [c \in {} |-> {}]
  /\ heard = [s \in Sockets |-> {}]
  /\ step = [h \in Handlers |-> "idle"]
  /\ waiting = [h \in Handlers |-> {}]
  /\ stale = [h \in Handlers |-> {}]
  /\ due = [h \in Handlers |-> {}]

----------------------------------------------------------------------------
(* The endpoint of a socket.                                                 *)
Becomes(s, from, to) == pc[s] = from /\ pc' = [pc EXCEPT ![s] = to]

(* No usable token, no user, no such ticket, or one the user may not see:    *)
(* the handshake is closed with 1008.                                        *)
Refuse(s) ==
  /\ Becomes(s, "new", "closed")
  /\ ~allowed[s]
  /\ UNCHANGED <<channel, allowed, line, connections, heard, handlers>>

(* As Admit, had the access check been left out. *)
AdmitAnybody(s) ==
  /\ Becomes(s, "new", "admitted")
  /\ UNCHANGED <<channel, allowed, line, connections, heard, handlers>>

(* Token, user and access are checked, and the database session is closed. *)
Admit(s) ==
  /\ Becomes(s, "new", "admitted")
  /\ allowed[s]
  /\ UNCHANGED <<channel, allowed, line, connections, heard, handlers>>

(* websocket.accept(): the client is connected, the manager does not know it *)
(* yet. If the client has gone, accept raises before anything is registered. *)
Accept(s) ==
  /\ line[s] # "down"
  /\ Becomes(s, "admitted", "accepted")
  /\ UNCHANGED <<channel, allowed, line, connections, heard, handlers>>

AcceptFails(s) ==
  /\ line[s] = "down"
  /\ Becomes(s, "admitted", "closed")
  /\ UNCHANGED <<channel, allowed, line, connections, heard, handlers>>

(* The second half of connect: the socket joins the set of its channel. *)
Register(s) ==
  /\ Becomes(s, "accepted", "serving")
  /\ connections' = WithMembers(channel[s], Members(channel[s]) \cup {s})
  /\ UNCHANGED <<channel, allowed, line, heard, handlers>>

(* As Disconnect, had the empty set been kept as defaultdict would. *)
DisconnectKeepingChannel(s) ==
  /\ line[s] = "down"
  /\ Becomes(s, "serving", "closed")
  /\ connections' = [c \in DOMAIN connections |->
                       IF c = channel[s] THEN connections[c] \ {s}
                                         ELSE connections[c]]
  /\ UNCHANGED <<channel, allowed, line, heard, handlers>>

(* receive_text raises once the client is gone, and the finally clause runs  *)
(* disconnect; a broadcast may have removed the socket, or its channel,      *)
(* already.                                                                  *)
Disconnect(s) ==
  /\ line[s] = "down"
  /\ Becomes(s, "serving", "closed")
  /\ connections' = WithMembers(channel[s], Members(channel[s]) \ {s})
  /\ UNCHANGED <<channel, allowed, line, heard, handlers>>

Endpoint(s) ==
  \/ Refuse(s)
  \/ Admit(s)
  \/ Accept(s)
  \/ AcceptFails(s)
  \/ Register(s)
  \/ Disconnect(s)

----------------------------------------------------------------------------
(* The clients and the transport.                                            *)
LineBecomes(s, state) ==
  /\ line' = [line EXCEPT ![s] = state]
  /\ UNCHANGED <<channel, allowed, pc, connections, heard, handlers>>

(* The client closes, vanishes, or sends a frame receive_text cannot read.   *)
HangUp(s) == line[s] # "down" /\ LineBecomes(s, "down")

(* The client stops reading: sends to it wait for room in its buffer. Having *)
(* stopped before it is served makes no difference to anybody.               *)
Stall(s) == pc[s] = "serving" /\ line[s] = "up" /\ LineBecomes(s, "stalled")
Resume(s) == line[s] = "stalled" /\ LineBecomes(s, "up")

(* uvicorn closes a connection whose client answers no ping. *)
PingTimeout(s) == line[s] = "stalled" /\ LineBecomes(s, "down")

----------------------------------------------------------------------------
(* The handlers that publish: a status change or a new comment.              *)
Goes(h, from, to) == step[h] = from /\ step' = [step EXCEPT ![h] = to]

(* The change is committed and refreshed; whoever is registered now is owed  *)
(* the event.                                                                *)
Change(h) ==
  /\ Goes(h, "idle", "changed")
  /\ due' = [due EXCEPT ![h] = Members(about[h]) \cup Members(Dashboard)]
  /\ UNCHANGED <<sockets, connections, heard, waiting, stale>>

(* The request fails between its commit and its broadcast: a 500 and no      *)
(* event.                                                                    *)
FailAfterCommit(h) ==
  /\ Goes(h, "changed", "failed")
  /\ UNCHANGED <<sockets, connections, heard, waiting, stale, due>>

(* As Target, had the second call named the ticket's channel again. *)
TargetTwice(h) == about[h]

(* As Target, had the channel's name left out which ticket it is of. *)
TargetShared(h) ==
  IF step[h] \in {"changed", "to_ticket"} THEN CHOOSE t \in Tickets : TRUE
                                          ELSE Dashboard

(* broadcast is called twice: for the ticket's channel, then the dashboard.  *)
Target(h) == IF step[h] \in {"changed", "to_ticket"} THEN about[h] ELSE Dashboard

(* broadcast's copy of the membership, and its tasks, one per socket. *)
StartBroadcast(h) ==
  /\ Members(Target(h)) # {}
  /\ Goes(h, "changed", "to_ticket") \/ Goes(h, "between", "to_dashboard")
  /\ waiting' = [waiting EXCEPT ![h] = Members(Target(h))]
  /\ stale' = [stale EXCEPT ![h] = {}]
  /\ UNCHANGED <<sockets, connections, heard, due>>

BroadcastToNobody(h) ==
  /\ Members(Target(h)) = {}
  /\ Goes(h, "changed", "between") \/ Goes(h, "between", "done")
  /\ UNCHANGED <<sockets, connections, heard, waiting, stale, due>>

(* One send_json comes to its end: delivered, or failed because the client   *)
(* is gone. Sends to a client that has stopped reading wait.                 *)
Send(h, s) ==
  /\ s \in waiting[h]
  /\ line[s] = "up"
  /\ heard' = [heard EXCEPT ![s] = heard[s] \cup {h}]
  /\ waiting' = [waiting EXCEPT ![h] = waiting[h] \ {s}]
  /\ UNCHANGED <<sockets, connections, step, stale, due>>

(* As SendFails, had the pairs of zip been unpacked the wrong way round. *)
SendFailsSwapped(h, s) ==
  /\ s \in waiting[h]
  /\ line[s] = "down"
  /\ stale' = [stale EXCEPT ![h] = stale[h] \cup {"WebSocketDisconnect"}]
  /\ waiting' = [waiting EXCEPT ![h] = waiting[h] \ {s}]
  /\ UNCHANGED <<sockets, connections, heard, step, due>>

(* As SendFails, had a failed send been tried again until it succeeds. *)
SendRetried(h, s) ==
  /\ s \in waiting[h]
  /\ line[s] = "down"
  /\ UNCHANGED vars

SendFails(h, s) ==
  /\ s \in waiting[h]
  /\ line[s] = "down"
  /\ stale' = [stale EXCEPT ![h] = stale[h] \cup {s}]
  /\ waiting' = [waiting EXCEPT ![h] = waiting[h] \ {s}]
  /\ UNCHANGED <<sockets, connections, heard, step, due>>

(* As CleanUp, had the whole channel been dropped. *)
DropChannel(h) ==
  /\ waiting[h] = {}
  /\ Goes(h, "to_ticket", "between") \/ Goes(h, "to_dashboard", "done")
  /\ connections' = IF stale[h] = {} THEN connections
                     ELSE WithMembers(Target(h), {})
  /\ UNCHANGED <<sockets, heard, waiting, stale, due>>

(* gather has all results: under the lock, the sockets whose send failed are *)
(* taken out of what the channel's membership is by now.                     *)
CleanUp(h) ==
  /\ waiting[h] = {}
  /\ Goes(h, "to_ticket", "between") \/ Goes(h, "to_dashboard", "done")
  /\ connections' = WithMembers(Target(h), Members(Target(h)) \ stale[h])
  /\ UNCHANGED <<sockets, heard, waiting, stale, due>>

Publish(h) ==
  \/ StartBroadcast(h)
  \/ BroadcastToNobody(h)
  \/ \E s \in Sockets : Send(h, s) \/ SendFails(h, s)
  \/ CleanUp(h)

Next ==
  \/ \E s \in Sockets :
       Endpoint(s) \/ HangUp(s) \/ Stall(s) \/ Resume(s) \/ PingTimeout(s)
  \/ \E h \in Handlers : Change(h) \/ FailAfterCommit(h) \/ Publish(h)

Spec == Init /\ [][Next]_vars

(* The event loop runs what can run, and uvicorn's keepalive ends a stall    *)
(* that lasts. A client that keeps resuming empties its buffer, so that a    *)
(* send to it gets through one of those times: hence strong fairness.        *)
(* Clients need not come, leave or resume, and a request need not be made.   *)
FairSpec ==
  /\ Spec
  /\ \A s \in Sockets : WF_vars(PingTimeout(s))
  /\ \A h \in Handlers : SF_vars(Publish(h))

----------------------------------------------------------------------------
(* A socket that works and is being served is in its channel, whatever       *)
(* failed sends and departures of other sockets do to that channel.          *)
WorkingSocketsStayRegistered ==
  \A s \in Sockets : pc[s] = "serving" /\ line[s] # "down" =>
                       s \in Members(channel[s])

(* The dictionary holds no empty channel and no socket whose endpoint has    *)
(* ended: clean-up against a membership that changed during the sends does   *)
(* not bring anything back.                                                  *)
RegistryIsTidy ==
  \A c \in DOMAIN connections :
    /\ connections[c] # {}
    /\ \A s \in connections[c] : pc[s] = "serving" /\ channel[s] = c

(* Whoever was subscribed when a change committed has been sent its event by *)
(* the time the handler is done, unless the connection broke. Membership may *)
(* change as it likes in between, and other clients may fail or stall.       *)
EverySubscriberHears ==
  \A h \in Handlers : step[h] = "done" =>
    \A s \in due[h] : line[s] # "down" => h \in heard[s]

(* An event only reaches clients that passed the access check, of the ticket *)
(* it is about or of the dashboard.                                          *)
EventsStayInTheirChannels ==
  \A s \in Sockets : \A h \in heard[s] :
    allowed[s] /\ channel[s] \in {about[h], Dashboard}

(* Although an event is broadcast twice, and each broadcast works on a copy  *)
(* of a membership that changes under it, nobody is sent it a second time.   *)
NoEventTwice ==
  \A h \in Handlers : \A s \in waiting[h] : h \notin heard[s]

(* A request that publishes comes to an end, however slowly one of its       *)
(* subscribers reads and whatever happens to the channel meanwhile.          *)
HandlersFinish ==
  \A h \in Handlers : step[h] = "changed" ~> step[h] \in {"done", "failed"}

(* What the proofs need besides: where a broadcast stands with each of the   *)
(* subscribers it owes the event, and who can be waiting for a send at all.  *)
DueAreServed ==
  \A h \in Handlers : \A s \in due[h] :
    /\ channel[s] \in {about[h], Dashboard}
    /\ line[s] # "down" => pc[s] = "serving"

SentSoFar ==
  \A h \in Handlers : \A s \in due[h] :
    /\ line[s] # "down" /\ channel[s] = about[h] =>
         \/ step[h] \in {"changed", "failed"}
         \/ step[h] = "to_ticket" /\ s \in waiting[h]
         \/ h \in heard[s]
    /\ line[s] # "down" /\ channel[s] = Dashboard =>
         \/ step[h] \in {"changed", "failed", "to_ticket", "between"}
         \/ step[h] = "to_dashboard" /\ s \in waiting[h]
         \/ h \in heard[s]

(* Who can have the event already: nobody before the first broadcast, and    *)
(* only the ticket's subscribers before the second.                          *)
HeardSoFar ==
  \A s \in Sockets : \A h \in heard[s] :
    /\ step[h] \notin {"idle", "changed", "failed"}
    /\ step[h] \in {"to_ticket", "between"} => channel[s] = about[h]

BroadcastsAreSound ==
  \A h \in Handlers :
    /\ step[h] = "idle" => due[h] = {}
    /\ \A s \in waiting[h] :
         pc[s] \in {"serving", "closed"} /\ allowed[s] /\ channel[s] = Target(h)
    /\ waiting[h] # {} => step[h] \in {"to_ticket", "to_dashboard"}
    /\ \A s \in stale[h] : line[s] = "down"

ServedWereAllowed ==
  \A s \in Sockets :
    pc[s] \in {"admitted", "accepted", "serving"} => allowed[s]

InductiveInvariant ==
  /\ TypeOK
  /\ WorkingSocketsStayRegistered
  /\ RegistryIsTidy
  /\ DueAreServed
  /\ SentSoFar
  /\ HeardSoFar
  /\ NoEventTwice
  /\ BroadcastsAreSound
  /\ ServedWereAllowed
  /\ EventsStayInTheirChannels
=============================================================================
