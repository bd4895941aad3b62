-------------------------- MODULE LiveEventsProofs --------------------------
(* Proofs about LiveEvents for any sockets, handlers and tickets.            *)
EXTENDS LiveEvents, Naturals, TLAPS

(* Dropping the key of an empty channel cannot be seen through get(c, ()).   *)
LEMMA MembersAfterUpdate ==
  ASSUME NEW c, NEW S, NEW d, connections' = WithMembers(c, S)
  PROVE  Members(d)' = IF d = c THEN S ELSE Members(d)
  BY DEF Members, WithMembers

(* Updating one channel keeps the dictionary well typed and tidy.            *)
LEMMA UpdateKeepsTypes ==
  ASSUME DOMAIN connections \subseteq Channels,
         connections \in [DOMAIN connections -> SUBSET Sockets],
         NEW c \in Channels, NEW S \in SUBSET Sockets,
         connections' = WithMembers(c, S)
  PROVE  /\ DOMAIN connections' \subseteq Channels
         /\ connections' \in [DOMAIN connections' -> SUBSET Sockets]
  BY DEF WithMembers

(* ... and keeps it tidy, if the new members are served on that channel and  *)
(* nothing changes for the members of the others.                            *)
LEMMA UpdateKeepsTidy ==
  ASSUME RegistryIsTidy, NEW c, NEW S, connections' = WithMembers(c, S),
         \A s \in S : pc'[s] = "serving" /\ channel'[s] = c,
         \A s \in Sockets : pc[s] = "serving" /\ channel[s] # c =>
                             pc'[s] = pc[s] /\ channel'[s] = channel[s],
         connections \in [DOMAIN connections -> SUBSET Sockets]
  PROVE  RegistryIsTidy'
<1> SUFFICES ASSUME NEW d \in DOMAIN connections'
             PROVE  /\ connections'[d] # {}
                    /\ \A s \in connections'[d] : pc'[s] = "serving" /\ channel'[s] = d
  BY DEF RegistryIsTidy
<1>1. CASE d = c
  BY <1>1 DEF WithMembers
<1>2. CASE d # c
  <2>1. d \in DOMAIN connections /\ connections'[d] = connections[d]
    BY <1>2 DEF WithMembers
  <2> QED BY <1>2, <2>1 DEF RegistryIsTidy
<1> QED BY <1>1, <1>2

(* Members of a channel are sockets.                                         *)
LEMMA MembersAreSockets ==
  ASSUME TypeOK, NEW c
  PROVE  Members(c) \in SUBSET Sockets
  BY DEF TypeOK, Members

(* Members of a channel are being served on it. *)
LEMMA MembersAreServed ==
  ASSUME TypeOK, RegistryIsTidy, NEW c, NEW s \in Members(c)
  PROVE  s \in Sockets /\ pc[s] = "serving" /\ channel[s] = c
  BY DEF TypeOK, RegistryIsTidy, Members

(* The invariant holds when the process starts.                              *)
LEMMA InitSound == Init => InductiveInvariant
  BY DEF Init, InductiveInvariant, TypeOK, Stages, Steps, Channels,
     WorkingSocketsStayRegistered, RegistryIsTidy, DueAreServed, SentSoFar,
     HeardSoFar, NoEventTwice, BroadcastsAreSound, ServedWereAllowed,
     EventsStayInTheirChannels

(* Nothing is said to anybody while the handlers rest.                       *)
LEMMA SilenceKeeps ==
  ASSUME InductiveInvariant, UNCHANGED <<channel, heard, handlers>>
  PROVE  HeardSoFar' /\ NoEventTwice'
  BY DEF InductiveInvariant, HeardSoFar, NoEventTwice, handlers

(* The steps of an endpoint that leave the registry alone.                   *)
LEMMA HandshakeKeeps ==
  ASSUME InductiveInvariant, NEW s \in Sockets,
         Refuse(s) \/ Admit(s) \/ Accept(s) \/ AcceptFails(s)
  PROVE  InductiveInvariant'
<1> USE DEF Refuse, Admit, Accept, AcceptFails, Becomes, InductiveInvariant,
            TypeOK, Stages, handlers
<1>1. TypeOK'
  OBVIOUS
<1>2. /\ pc' \in [Sockets -> Stages] /\ pc[s] \notin {"serving", "closed"}
      /\ pc'[s] # "serving"
      /\ \A t \in Sockets \ {s} : pc'[t] = pc[t]
  OBVIOUS
<1>3. WorkingSocketsStayRegistered' /\ RegistryIsTidy'
  BY <1>2 DEF WorkingSocketsStayRegistered, RegistryIsTidy, Members
<1>4. DueAreServed' /\ SentSoFar'
  BY <1>2 DEF DueAreServed, SentSoFar
<1>5. BroadcastsAreSound'
  BY <1>2 DEF BroadcastsAreSound, Target
<1>6. ServedWereAllowed' /\ EventsStayInTheirChannels'
  BY <1>2 DEF ServedWereAllowed, EventsStayInTheirChannels
<1>7. HeardSoFar' /\ NoEventTwice'
  BY SilenceKeeps
<1> QED BY <1>1, <1>3, <1>4, <1>5, <1>6, <1>7

(* A socket that joins a channel was let in, and is owed nothing yet.        *)
LEMMA RegisterKeeps ==
  ASSUME InductiveInvariant, NEW s \in Sockets, Register(s)
  PROVE  InductiveInvariant'
<1> DEFINE new == Members(channel[s]) \cup {s}
<1> USE DEF Register, Becomes, InductiveInvariant, handlers
<1>1. /\ pc[s] = "accepted" /\ pc'[s] = "serving" /\ pc' \in [Sockets -> Stages]
      /\ \A t \in Sockets \ {s} : pc'[t] = pc[t]
      /\ channel[s] \in Channels
  BY DEF TypeOK, Stages
<1>2. \A c : Members(c)' = IF c = channel[s] THEN new ELSE Members(c)
  BY MembersAfterUpdate
<1>3. TypeOK'
  <2>1. new \in SUBSET Sockets
    BY MembersAreSockets
  <2>2. /\ DOMAIN connections' \subseteq Channels
        /\ connections' \in [DOMAIN connections' -> SUBSET Sockets]
    <3>1. connections' = WithMembers(channel[s], new)
      OBVIOUS
    <3> HIDE DEF new
    <3> QED BY <1>1, <2>1, <3>1, UpdateKeepsTypes DEF TypeOK
  <2> QED BY <1>1, <2>2 DEF TypeOK
<1>4. WorkingSocketsStayRegistered'
  BY <1>1, <1>2 DEF WorkingSocketsStayRegistered
<1>5. RegistryIsTidy'
  <2>1. \A t \in new : pc'[t] = "serving" /\ channel'[t] = channel[s]
    BY <1>1, MembersAreServed DEF TypeOK
  <2>2. \A t \in Sockets : pc[t] = "serving" /\ channel[t] # channel[s] =>
                            pc'[t] = pc[t] /\ channel'[t] = channel[t]
    BY <1>1
  <2>3. connections' = WithMembers(channel[s], new)
    OBVIOUS
  <2> QED BY <2>1, <2>2, <2>3, UpdateKeepsTidy DEF TypeOK
<1>6. DueAreServed' /\ SentSoFar'
  BY <1>1 DEF DueAreServed, SentSoFar, TypeOK
<1>7. BroadcastsAreSound'
  BY <1>1 DEF BroadcastsAreSound, Target, TypeOK
<1>8. ServedWereAllowed' /\ EventsStayInTheirChannels'
  BY <1>1 DEF ServedWereAllowed, EventsStayInTheirChannels
<1>9. HeardSoFar' /\ NoEventTwice'
  BY SilenceKeeps
<1> QED BY <1>3, <1>4, <1>5, <1>6, <1>7, <1>8, <1>9

(* An endpoint that ends takes out its own socket only.                      *)
LEMMA DisconnectKeeps ==
  ASSUME InductiveInvariant, NEW s \in Sockets, Disconnect(s)
  PROVE  InductiveInvariant'
<1> DEFINE new == Members(channel[s]) \ {s}
<1> USE DEF Disconnect, Becomes, InductiveInvariant, handlers
<1>1. /\ pc[s] = "serving" /\ pc'[s] = "closed" /\ pc' \in [Sockets -> Stages]
      /\ \A t \in Sockets \ {s} : pc'[t] = pc[t]
      /\ channel[s] \in Channels
      /\ line[s] = "down"
  BY DEF TypeOK, Stages
<1>2. \A c : Members(c)' = IF c = channel[s] THEN new ELSE Members(c)
  BY MembersAfterUpdate
<1>3. TypeOK'
  <2>1. new \in SUBSET Sockets
    BY MembersAreSockets
  <2>2. /\ DOMAIN connections' \subseteq Channels
        /\ connections' \in [DOMAIN connections' -> SUBSET Sockets]
    <3>1. connections' = WithMembers(channel[s], new)
      OBVIOUS
    <3> HIDE DEF new
    <3> QED BY <1>1, <2>1, <3>1, UpdateKeepsTypes DEF TypeOK
  <2> QED BY <1>1, <2>2 DEF TypeOK
<1>4. WorkingSocketsStayRegistered'
  BY <1>1, <1>2 DEF WorkingSocketsStayRegistered
<1>5. RegistryIsTidy'
  <2>1. \A t \in new : pc'[t] = "serving" /\ channel'[t] = channel[s]
    BY <1>1, MembersAreServed DEF TypeOK
  <2>2. \A t \in Sockets : pc[t] = "serving" /\ channel[t] # channel[s] =>
                            pc'[t] = pc[t] /\ channel'[t] = channel[t]
    BY <1>1
  <2>3. connections' = WithMembers(channel[s], new)
    OBVIOUS
  <2> QED BY <2>1, <2>2, <2>3, UpdateKeepsTidy DEF TypeOK
<1>6. DueAreServed' /\ SentSoFar'
  BY <1>1 DEF DueAreServed, SentSoFar, TypeOK
<1>7. BroadcastsAreSound'
  BY <1>1 DEF BroadcastsAreSound, Target, TypeOK
<1>8. ServedWereAllowed' /\ EventsStayInTheirChannels'
  BY <1>1 DEF ServedWereAllowed, EventsStayInTheirChannels
<1>9. HeardSoFar' /\ NoEventTwice'
  BY SilenceKeeps
<1> QED BY <1>3, <1>4, <1>5, <1>6, <1>7, <1>8, <1>9

(* Whatever a client does to its line, nothing is owed to more sockets.      *)
LEMMA LineKeeps ==
  ASSUME InductiveInvariant, NEW s \in Sockets,
         HangUp(s) \/ Stall(s) \/ Resume(s) \/ PingTimeout(s)
  PROVE  InductiveInvariant'
<1> USE DEF HangUp, Stall, Resume, PingTimeout, LineBecomes,
            InductiveInvariant, handlers
<1>1. TypeOK'
  BY DEF TypeOK
<1>2. /\ line[s] # "down"
      /\ \A t \in Sockets \ {s} : line'[t] = line[t]
  BY DEF TypeOK
<1>3. WorkingSocketsStayRegistered' /\ RegistryIsTidy'
  BY <1>2 DEF WorkingSocketsStayRegistered, RegistryIsTidy, Members
<1>4. DueAreServed' /\ SentSoFar'
  BY <1>2 DEF DueAreServed, SentSoFar, TypeOK
<1>5. BroadcastsAreSound'
  BY <1>2 DEF BroadcastsAreSound, Target, TypeOK
<1>6. ServedWereAllowed' /\ EventsStayInTheirChannels'
  BY DEF ServedWereAllowed, EventsStayInTheirChannels
<1>7. HeardSoFar' /\ NoEventTwice'
  BY SilenceKeeps
<1> QED BY <1>1, <1>3, <1>4, <1>5, <1>6, <1>7

(* A commit owes its event to who is subscribed just then.                   *)
LEMMA ChangeKeeps ==
  ASSUME InductiveInvariant, NEW h \in Handlers, Change(h)
  PROVE  InductiveInvariant'
<1> DEFINE all == Members(about[h]) \cup Members(Dashboard)
<1> USE DEF Change, Goes, InductiveInvariant, sockets
<1>1. /\ all \in SUBSET Sockets
      /\ \A s \in all : pc[s] = "serving" /\ channel[s] \in {about[h], Dashboard}
  BY MembersAreSockets, MembersAreServed
<1>2. /\ step[h] = "idle" /\ step'[h] = "changed" /\ due'[h] = all
      /\ \A g \in Handlers \ {h} : step'[g] = step[g] /\ due'[g] = due[g]
  BY DEF TypeOK
<1>3. TypeOK'
  BY <1>1 DEF TypeOK, Steps
<1>4. WorkingSocketsStayRegistered' /\ RegistryIsTidy'
  BY DEF WorkingSocketsStayRegistered, RegistryIsTidy, Members
<1>5. DueAreServed'
  BY <1>1, <1>2 DEF DueAreServed
<1>6. SentSoFar'
  BY <1>2 DEF SentSoFar
<1>7. BroadcastsAreSound'
  BY <1>2 DEF BroadcastsAreSound, Target
<1>8. ServedWereAllowed' /\ EventsStayInTheirChannels'
  BY DEF ServedWereAllowed, EventsStayInTheirChannels
<1>9. HeardSoFar' /\ NoEventTwice'
  BY <1>2 DEF HeardSoFar, NoEventTwice
<1> QED BY <1>3, <1>4, <1>5, <1>6, <1>7, <1>8, <1>9

(* Steps of a handler that leave the registry and the clients alone keep     *)
(* what is said of those.                                                    *)
LEMMA RegistryUntouched ==
  ASSUME InductiveInvariant, UNCHANGED <<sockets, connections>>
  PROVE  WorkingSocketsStayRegistered' /\ RegistryIsTidy' /\ ServedWereAllowed'
  BY DEF InductiveInvariant, WorkingSocketsStayRegistered, RegistryIsTidy,
         ServedWereAllowed, Members, sockets

(* A handler that fails before its broadcasts owes nothing.                  *)
LEMMA FailAfterCommitKeeps ==
  ASSUME InductiveInvariant, NEW h \in Handlers, FailAfterCommit(h)
  PROVE  InductiveInvariant'
<1> USE DEF FailAfterCommit, Goes, InductiveInvariant, sockets
<1>1. /\ step[h] = "changed" /\ step'[h] = "failed"
      /\ \A g \in Handlers \ {h} : step'[g] = step[g]
  BY DEF TypeOK
<1>2. TypeOK'
  BY DEF TypeOK, Steps
<1>3. DueAreServed' /\ EventsStayInTheirChannels'
  BY DEF DueAreServed, EventsStayInTheirChannels
<1>4. SentSoFar'
  BY <1>1 DEF SentSoFar
<1>5. BroadcastsAreSound'
  BY <1>1 DEF BroadcastsAreSound, Target
<1>6. HeardSoFar' /\ NoEventTwice'
  BY <1>1 DEF HeardSoFar, NoEventTwice
<1> QED BY <1>2, <1>3, <1>4, <1>5, RegistryUntouched, <1>6

(* What broadcast copies contains every subscriber it owes the event to.     *)
LEMMA DueAreMembers ==
  ASSUME InductiveInvariant, NEW h \in Handlers, NEW s \in due[h],
         line[s] # "down"
  PROVE  s \in Sockets /\ s \in Members(channel[s])
  BY DEF InductiveInvariant, TypeOK, DueAreServed, WorkingSocketsStayRegistered

(* A broadcast begins with everyone it owes the event to.                    *)
LEMMA StartBroadcastKeeps ==
  ASSUME InductiveInvariant, NEW h \in Handlers, StartBroadcast(h)
  PROVE  InductiveInvariant'
<1> DEFINE copy == Members(Target(h))
<1> USE DEF StartBroadcast, Goes, InductiveInvariant, sockets
<1>1. /\ \/ step[h] = "changed" /\ step'[h] = "to_ticket" /\ Target(h) = about[h]
         \/ step[h] = "between" /\ step'[h] = "to_dashboard" /\ Target(h) = Dashboard
      /\ \A g \in Handlers \ {h} : step'[g] = step[g]
  BY DEF TypeOK, Target
<1>2. \A s \in copy : s \in Sockets /\ pc[s] = "serving" /\ channel[s] = Target(h)
  BY MembersAreServed
<1>3. /\ waiting'[h] = copy /\ stale'[h] = {}
      /\ \A g \in Handlers \ {h} : waiting'[g] = waiting[g] /\ stale'[g] = stale[g]
  BY DEF TypeOK
<1>4. TypeOK'
  BY <1>2 DEF TypeOK, Steps
<1>5. DueAreServed' /\ EventsStayInTheirChannels'
  BY DEF DueAreServed, EventsStayInTheirChannels
<1>6. SentSoFar'
  <2>1. \A s \in due[h] : line[s] # "down" => s \in Members(channel[s])
    BY DueAreMembers
  <2> HIDE DEF InductiveInvariant
  <2> QED BY <1>1, <1>3, <2>1, ChannelAssumption, AboutAssumption
        DEF SentSoFar, InductiveInvariant, TypeOK
<1>7. BroadcastsAreSound'
  <2>1. \A s \in copy : allowed[s]
    BY <1>2 DEF ServedWereAllowed
  <2>2. Target(h)' = Target(h) /\ (\A g \in Handlers \ {h} : Target(g)' = Target(g))
    BY <1>1 DEF Target
  <2>3. copy = waiting'[h] /\ pc' = pc /\ channel' = channel /\ allowed' = allowed
    BY <1>3
  <2> HIDE DEF copy
  <2> QED BY <1>1, <1>2, <1>3, <2>1, <2>2, <2>3 DEF BroadcastsAreSound
<1>8. HeardSoFar' /\ NoEventTwice'
  <2>1. about[h] # Dashboard
    BY ChannelAssumption, AboutAssumption
  <2>2. HeardSoFar'
    BY <1>1, <1>3 DEF HeardSoFar, TypeOK
  <2>3. \A s \in copy : h \notin heard[s]
    BY <1>1, <1>2, <2>1 DEF HeardSoFar, TypeOK
  <2>4. \A g \in Handlers : \A s \in waiting'[g] : g \notin heard'[s]
    <3> HIDE DEF copy
    <3> QED BY <1>3, <2>3 DEF NoEventTwice
  <2> QED BY <2>2, <2>4 DEF NoEventTwice
<1> QED BY <1>4, <1>5, <1>6, <1>7, RegistryUntouched, <1>8

(* A broadcast to nobody owes the event to nobody.                           *)
LEMMA BroadcastToNobodyKeeps ==
  ASSUME InductiveInvariant, NEW h \in Handlers, BroadcastToNobody(h)
  PROVE  InductiveInvariant'
<1> USE DEF BroadcastToNobody, Goes, InductiveInvariant, sockets
<1>1. /\ \/ step[h] = "changed" /\ step'[h] = "between" /\ Target(h) = about[h]
         \/ step[h] = "between" /\ step'[h] = "done" /\ Target(h) = Dashboard
      /\ \A g \in Handlers \ {h} : step'[g] = step[g]
  BY DEF TypeOK, Target
<1>2. TypeOK'
  BY DEF TypeOK, Steps
<1>3. DueAreServed' /\ EventsStayInTheirChannels'
  BY DEF DueAreServed, EventsStayInTheirChannels
<1>4. SentSoFar'
  <2>1. \A s \in due[h] : line[s] # "down" => s \in Members(channel[s])
    BY DueAreMembers
  <2> HIDE DEF InductiveInvariant
  <2> QED BY <1>1, <2>1, ChannelAssumption, AboutAssumption
        DEF SentSoFar, InductiveInvariant, TypeOK
<1>5. BroadcastsAreSound'
  BY <1>1 DEF BroadcastsAreSound, Target
<1>6. HeardSoFar' /\ NoEventTwice'
  BY <1>1 DEF HeardSoFar, NoEventTwice, BroadcastsAreSound, TypeOK
<1> QED BY <1>2, <1>3, <1>4, <1>5, RegistryUntouched, <1>6

(* A send pays what was owed, or finds that the line is down.                *)
LEMMA SendKeeps ==
  ASSUME InductiveInvariant, NEW h \in Handlers, NEW s \in Sockets,
         Send(h, s) \/ SendFails(h, s)
  PROVE  InductiveInvariant'
<1> USE DEF Send, SendFails, InductiveInvariant, sockets
<1>1. /\ s \in waiting[h] /\ waiting'[h] = waiting[h] \ {s}
      /\ \A g \in Handlers \ {h} : waiting'[g] = waiting[g] /\ stale'[g] = stale[g]
      /\ \A t \in Sockets \ {s} : heard'[t] = heard[t]
      /\ \A t \in stale'[h] : t \in stale[h] \/ line[t] = "down"
      /\ line[s] # "down" => heard'[s] = heard[s] \cup {h}
      /\ heard'[s] \subseteq heard[s] \cup {h}
      /\ heard[s] \subseteq heard'[s]
  BY DEF TypeOK
<1>2. allowed[s] /\ channel[s] = Target(h) /\ Target(h) \in {about[h], Dashboard}
  BY <1>1 DEF BroadcastsAreSound, Target
<1>3. TypeOK'
  BY DEF TypeOK
<1>4. DueAreServed'
  BY DEF DueAreServed
<1>5. EventsStayInTheirChannels'
  BY <1>1, <1>2 DEF EventsStayInTheirChannels
<1>6. SentSoFar'
  BY <1>1 DEF SentSoFar, TypeOK
<1>7. BroadcastsAreSound'
  BY <1>1 DEF BroadcastsAreSound, Target
<1>8. HeardSoFar' /\ NoEventTwice'
  <2>1. /\ step[h] \in {"to_ticket", "to_dashboard"}
        /\ step[h] = "to_ticket" => channel[s] = about[h]
    BY <1>1, <1>2 DEF BroadcastsAreSound, Target
  <2>2. HeardSoFar'
    BY <1>1, <2>1 DEF HeardSoFar
  <2>3. NoEventTwice'
    BY <1>1 DEF NoEventTwice, TypeOK
  <2> QED BY <2>2, <2>3
<1> QED BY <1>3, <1>4, <1>5, <1>6, <1>7, RegistryUntouched, <1>8

(* Cleaning up takes out the sockets whose sends failed, all broken.         *)
LEMMA CleanUpKeeps ==
  ASSUME InductiveInvariant, NEW h \in Handlers, CleanUp(h)
  PROVE  InductiveInvariant'
<1> DEFINE new == Members(Target(h)) \ stale[h]
<1> USE DEF CleanUp, Goes, InductiveInvariant, sockets
<1>1. /\ \/ step[h] = "to_ticket" /\ step'[h] = "between" /\ Target(h) = about[h]
         \/ step[h] = "to_dashboard" /\ step'[h] = "done" /\ Target(h) = Dashboard
      /\ \A g \in Handlers \ {h} : step'[g] = step[g]
      /\ waiting[h] = {}
      /\ Target(h) \in Channels
  BY AboutAssumption DEF TypeOK, Target, Channels
<1>2. \A c : Members(c)' = IF c = Target(h) THEN new ELSE Members(c)
  BY MembersAfterUpdate
<1>3. TypeOK'
  <2>1. new \in SUBSET Sockets
    BY MembersAreSockets
  <2>2. /\ DOMAIN connections' \subseteq Channels
        /\ connections' \in [DOMAIN connections' -> SUBSET Sockets]
    <3>1. connections' = WithMembers(Target(h), new)
      OBVIOUS
    <3> HIDE DEF new
    <3> QED BY <1>1, <2>1, <3>1, UpdateKeepsTypes DEF TypeOK
  <2> QED BY <2>2 DEF TypeOK, Steps
<1>4. WorkingSocketsStayRegistered'
  <2>1. \A s \in stale[h] : line[s] = "down"
    BY DEF BroadcastsAreSound
  <2> QED BY <1>2, <2>1 DEF WorkingSocketsStayRegistered
<1>5. RegistryIsTidy'
  <2>1. \A t \in new : pc'[t] = "serving" /\ channel'[t] = Target(h)
    BY MembersAreServed
  <2>2. \A t \in Sockets : pc'[t] = pc[t] /\ channel'[t] = channel[t]
    OBVIOUS
  <2>3. connections' = WithMembers(Target(h), new)
    OBVIOUS
  <2> HIDE DEF new
  <2> QED BY <2>1, <2>2, <2>3, UpdateKeepsTidy DEF TypeOK
<1>6. DueAreServed' /\ EventsStayInTheirChannels' /\ ServedWereAllowed'
  BY DEF DueAreServed, EventsStayInTheirChannels, ServedWereAllowed
<1>7. SentSoFar'
  BY <1>1, ChannelAssumption, AboutAssumption DEF SentSoFar, TypeOK
<1>8. BroadcastsAreSound'
  BY <1>1 DEF BroadcastsAreSound, Target
<1>9. HeardSoFar' /\ NoEventTwice'
  BY <1>1 DEF HeardSoFar, NoEventTwice, TypeOK
<1> QED BY <1>3, <1>4, <1>5, <1>6, <1>7, <1>8, <1>9

(* Every step keeps the invariant.                                           *)
LEMMA StepKeeps ==
  ASSUME InductiveInvariant, [Next]_vars
  PROVE  InductiveInvariant'
<1>1. CASE UNCHANGED vars
  BY <1>1 DEF InductiveInvariant, vars, sockets, handlers, TypeOK, Members,
     WorkingSocketsStayRegistered, RegistryIsTidy, DueAreServed, SentSoFar,
     HeardSoFar, NoEventTwice, BroadcastsAreSound, Target, ServedWereAllowed, EventsStayInTheirChannels
<1>2. ASSUME NEW s \in Sockets, Endpoint(s)
      PROVE  InductiveInvariant'
  BY <1>2, HandshakeKeeps, RegisterKeeps, DisconnectKeeps DEF Endpoint
<1>3. ASSUME NEW s \in Sockets,
             HangUp(s) \/ Stall(s) \/ Resume(s) \/ PingTimeout(s)
      PROVE  InductiveInvariant'
  BY <1>3, LineKeeps
<1>4. ASSUME NEW h \in Handlers, Publish(h)
      PROVE  InductiveInvariant'
  BY <1>4, StartBroadcastKeeps, BroadcastToNobodyKeeps, SendKeeps, CleanUpKeeps
     DEF Publish
<1>5. ASSUME NEW h \in Handlers, Change(h) \/ FailAfterCommit(h)
      PROVE  InductiveInvariant'
  BY <1>5, ChangeKeeps, FailAfterCommitKeeps
<1> QED BY <1>1, <1>2, <1>3, <1>4, <1>5 DEF Next

----------------------------------------------------------------------------
(* The inductive invariant of the notifications, the one a run checks.       *)
THEOREM InductiveInvariantHolds == Spec => []InductiveInvariant
  BY InitSound, StepKeeps, PTL DEF Spec

(* The manager's dictionary and the handlers keep their types. *)
THEOREM TypeCorrect == Spec => []TypeOK
<1>1. InductiveInvariant => TypeOK
  BY DEF InductiveInvariant
<1> QED BY <1>1, InductiveInvariantHolds, PTL

(* No clean-up, of this or any other broadcast, and no departure of another  *)
(* client takes a working socket out of its channel.                         *)
THEOREM WorkingSocketsStayRegisteredHolds == Spec => []WorkingSocketsStayRegistered
<1>1. InductiveInvariant => WorkingSocketsStayRegistered
  BY DEF InductiveInvariant
<1> QED BY <1>1, InductiveInvariantHolds, PTL

(* Channels without members and sockets without endpoint leave no trace in   *)
(* the dictionary, so it cannot grow with the connections there have been.   *)
THEOREM RegistryIsTidyHolds == Spec => []RegistryIsTidy
<1>1. InductiveInvariant => RegistryIsTidy
  BY DEF InductiveInvariant
<1> QED BY <1>1, InductiveInvariantHolds, PTL

(* A client that was subscribed when a change committed, and whose           *)
(* connection holds, has been sent the event when the handler is done.       *)
THEOREM EverySubscriberHearsHolds == Spec => []EverySubscriberHears
<1>1. InductiveInvariant => EverySubscriberHears
  BY DEF InductiveInvariant, EverySubscriberHears, DueAreServed, SentSoFar, TypeOK
<1> QED BY <1>1, InductiveInvariantHolds, PTL

(* A client hears of a change once at most, whatever the two broadcasts of   *)
(* it overlap with.                                                          *)
THEOREM NoEventTwiceHolds == Spec => []NoEventTwice
<1>1. InductiveInvariant => NoEventTwice
  BY DEF InductiveInvariant
<1> QED BY <1>1, InductiveInvariantHolds, PTL

(* Only clients whose access was checked hear of a ticket. *)
THEOREM EventsStayInTheirChannelsHolds == Spec => []EventsStayInTheirChannels
<1>1. InductiveInvariant => EventsStayInTheirChannels
  BY DEF InductiveInvariant
<1> QED BY <1>1, InductiveInvariantHolds, PTL

----------------------------------------------------------------------------
(* A client hears something only while its endpoint serves it. A broadcast   *)
(* works on a copy of the membership, and may well send to a socket that was *)
(* closed meanwhile; but such a send fails. Nothing reaches a client that    *)
(* was refused, is not registered yet, or whose endpoint has ended.          *)
Hearing ==
  \A s \in Sockets : heard'[s] # heard[s] =>
    /\ pc[s] = "serving"
    /\ line[s] = "up"
    /\ \E h \in Handlers : step[h] \in {"to_ticket", "to_dashboard"}
                           /\ heard'[s] = heard[s] \cup {h} /\ h \notin heard[s]
OnlyTheServedHear == [][Hearing]_vars

(* An endpoint that let its client in ends only when the client has gone.    *)
ClosedAreGone ==
  \A s \in Sockets : pc[s] = "closed" => line[s] = "down" \/ ~allowed[s]

(* Every step keeps ClosedAreGone.                                           *)
LEMMA ClosedAreGoneKept ==
  ASSUME InductiveInvariant, ClosedAreGone, [Next]_vars
  PROVE  ClosedAreGone'
<1> USE DEF ClosedAreGone
<1>1. ASSUME UNCHANGED <<pc, line, allowed>> PROVE ClosedAreGone'
  BY <1>1
<1>2. CASE UNCHANGED vars
  BY <1>1, <1>2 DEF vars, sockets
<1>3. ASSUME NEW s \in Sockets, Endpoint(s) PROVE ClosedAreGone'
  <2>1. /\ line' = line /\ allowed' = allowed
        /\ \A t \in Sockets \ {s} : pc'[t] = pc[t]
        /\ pc'[s] = "closed" => line[s] = "down" \/ ~allowed[s]
    BY <1>3 DEF Endpoint, Refuse, Admit, Accept, AcceptFails, Register, Disconnect,
       Becomes, InductiveInvariant, TypeOK
  <2> QED BY <2>1
<1>4. ASSUME NEW s \in Sockets, HangUp(s) \/ Stall(s) \/ Resume(s) \/ PingTimeout(s)
      PROVE  ClosedAreGone'
  <2>1. /\ pc' = pc /\ allowed' = allowed /\ line[s] # "down"
        /\ \A t \in Sockets \ {s} : line'[t] = line[t]
    BY <1>4 DEF HangUp, Stall, Resume, PingTimeout, LineBecomes, InductiveInvariant, TypeOK
  <2> QED BY <2>1
<1>5. ASSUME NEW h \in Handlers, Change(h) \/ FailAfterCommit(h) \/ Publish(h)
      PROVE  ClosedAreGone'
  BY <1>1, <1>5 DEF Change, FailAfterCommit, Publish, StartBroadcast,
     BroadcastToNobody, Send, SendFails, CleanUp, sockets
<1> QED BY <1>2, <1>3, <1>4, <1>5 DEF Next

(* What is said reaches open connections only, one event at a time. *)
THEOREM OnlyTheServedHearHolds == Spec => OnlyTheServedHear
<1>1. Init => ClosedAreGone
  BY DEF Init, ClosedAreGone
<1>2. InductiveInvariant /\ ClosedAreGone /\ [Next]_vars => [Hearing]_vars
  <2> SUFFICES ASSUME InductiveInvariant, ClosedAreGone, Next PROVE Hearing
    OBVIOUS
  <2>1. ASSUME heard' = heard PROVE Hearing
    BY <2>1 DEF Hearing
  <2>2. ASSUME NEW h \in Handlers, NEW s \in Sockets, Send(h, s) PROVE Hearing
    <3>1. /\ line[s] = "up" /\ s \in waiting[h]
          /\ heard'[s] = heard[s] \cup {h}
          /\ \A t \in Sockets \ {s} : heard'[t] = heard[t]
      BY <2>2 DEF Send, InductiveInvariant, TypeOK
    <3>2. h \notin heard[s] /\ step[h] \in {"to_ticket", "to_dashboard"}
      BY <3>1 DEF InductiveInvariant, NoEventTwice, BroadcastsAreSound
    <3>3. pc[s] = "serving"
      BY <3>1 DEF InductiveInvariant, BroadcastsAreSound, ClosedAreGone
    <3> QED BY <3>1, <3>2, <3>3 DEF Hearing
  <2>3. ASSUME NEW s \in Sockets,
               Endpoint(s) \/ HangUp(s) \/ Stall(s) \/ Resume(s) \/ PingTimeout(s)
        PROVE  Hearing
    BY <2>1, <2>3 DEF Endpoint, Refuse, Admit, Accept, AcceptFails, Register, Disconnect,
       HangUp, Stall, Resume, PingTimeout, LineBecomes
  <2>4. ASSUME NEW h \in Handlers,
               \/ Change(h) \/ FailAfterCommit(h) \/ StartBroadcast(h)
               \/ BroadcastToNobody(h) \/ CleanUp(h)
               \/ \E s \in Sockets : SendFails(h, s)
        PROVE  Hearing
    BY <2>1, <2>4 DEF Change, FailAfterCommit, StartBroadcast, BroadcastToNobody,
       SendFails, CleanUp
  <2> QED BY <2>2, <2>3, <2>4 DEF Next, Publish
<1> QED
  BY <1>1, <1>2, ClosedAreGoneKept, InductiveInvariantHolds, PTL DEF Spec, OnlyTheServedHear

----------------------------------------------------------------------------
(* Broadcasting comes closer to its end with each of its steps, and nothing  *)
(* else takes it back: the handler moves on, or a send of those gather waits *)
(* for is over. A socket that joins the channel meanwhile does not prolong   *)
(* the broadcast, and one whose send failed is not tried again. What is left *)
(* for HandlersFinish is that the waiting for one send ends.                 *)
Leg ==
  [s \in Steps |-> CASE s = "idle"         -> 0
                     [] s = "changed"      -> 1
                     [] s = "to_ticket"    -> 2
                     [] s = "between"      -> 3
                     [] s = "to_dashboard" -> 4
                     [] s \in {"done", "failed"} -> 5]
Nearing ==
  \A h \in Handlers :
    \/ Leg[step[h]] < Leg[step'[h]]
    \/ step'[h] = step[h] /\ waiting'[h] \subseteq waiting[h]
HandlersOnlyAdvance == [][Nearing]_vars

(* The legs, one by one.                                                     *)
LEMMA LegValues ==
  /\ Leg["idle"] = 0
  /\ Leg["changed"] = 1
  /\ Leg["to_ticket"] = 2
  /\ Leg["between"] = 3
  /\ Leg["to_dashboard"] = 4
  /\ Leg["done"] = 5
  /\ Leg["failed"] = 5
  BY DEF Leg, Steps

(* Handlers only go forward, and what a broadcast waits for only shrinks.    *)
THEOREM HandlersOnlyAdvanceHolds == Spec => HandlersOnlyAdvance
<1>1. InductiveInvariant /\ [Next]_vars => [Nearing]_vars
  <2> SUFFICES ASSUME InductiveInvariant, Next PROVE Nearing
    OBVIOUS
  <2>1. ASSUME UNCHANGED <<step, waiting>> PROVE Nearing
    BY <2>1 DEF Nearing
  <2>2. ASSUME NEW h \in Handlers,
               \/ Change(h) \/ FailAfterCommit(h) \/ StartBroadcast(h)
               \/ BroadcastToNobody(h) \/ CleanUp(h)
        PROVE  Nearing
    <3>1. Leg[step[h]] < Leg[step'[h]]
      BY <2>2, LegValues DEF Change, FailAfterCommit, StartBroadcast,
         BroadcastToNobody, CleanUp, Goes, InductiveInvariant, TypeOK
    <3>2. \A g \in Handlers \ {h} : step'[g] = step[g] /\ waiting'[g] = waiting[g]
      BY <2>2 DEF Change, FailAfterCommit, StartBroadcast, BroadcastToNobody,
         CleanUp, Goes, InductiveInvariant, TypeOK
    <3> QED BY <3>1, <3>2 DEF Nearing
  <2>3. ASSUME NEW h \in Handlers, NEW s \in Sockets, Send(h, s) \/ SendFails(h, s)
        PROVE  Nearing
    <3>1. /\ step' = step /\ waiting'[h] = waiting[h] \ {s}
          /\ \A g \in Handlers \ {h} : waiting'[g] = waiting[g]
      BY <2>3 DEF Send, SendFails, InductiveInvariant, TypeOK
    <3> QED BY <3>1 DEF Nearing
  <2>4. ASSUME NEW s \in Sockets,
               Endpoint(s) \/ HangUp(s) \/ Stall(s) \/ Resume(s) \/ PingTimeout(s)
        PROVE  Nearing
    BY <2>1, <2>4 DEF Endpoint, Refuse, Admit, Accept, AcceptFails, Register, Disconnect,
       HangUp, Stall, Resume, PingTimeout, LineBecomes, handlers
  <2> QED BY <2>2, <2>3, <2>4 DEF Next, Publish
<1> QED
  BY <1>1, InductiveInvariantHolds, PTL DEF Spec, HandlersOnlyAdvance
=============================================================================
