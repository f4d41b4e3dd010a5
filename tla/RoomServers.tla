------------------------------ MODULE RoomServers -----------------------------
(***************************************************************************)
(* What happens to the create-room request of a full room: halls asks      *)
(* roommgr, roommgr picks a machine, the machine has a thread start the    *)
(* game server, the game server reports the address it listens on, and     *)
(* the answer goes back.  Later the game server reports GameOver and the   *)
(* machine kills it.  Sources: src/src/servers/roommgr, servers/machine,   *)
(* and the room of servers/halls from createRoomServer on.                 *)
(*                                                                         *)
(* Each server is a single-threaded loop, so a handler is one step; the    *)
(* pool thread that starts a process and the process itself take steps of  *)
(* their own.  A session is a pair of FIFO queues between roommgr and one  *)
(* peer (halls or a machine); both queues go when the connection breaks.   *)
(* A peer may send as soon as it has begun to connect, but roommgr knows   *)
(* it only after its Hello.  Time is counted in units common to all.       *)
(***************************************************************************)
EXTENDS Integers, Sequences, FiniteSets, Functions, SequencesExt

CONSTANTS
  RoomIds,     \* rooms that fill up, each once: identifiers are uuids
  Machines,    \* machine servers
  Halls,       \* the halls server
  GameTime,    \* gamemodeN:gameTime
  Grace,       \* the 60 seconds of isGameTimeout, setKillTime and Room::onTick
  MaxBreaks,   \* bounds the connections that break
  MaxCrashes,  \* bounds the crashes of roommgr and of machines
  Prompt,      \* BOOLEAN: messages and ticks take less than a unit of time
  NoRoom       \* a message that names no room

Peers  == Machines \cup {Halls}
MaxAge == GameTime + Grace + 1

ASSUME TimesAssumption == GameTime \in Nat /\ Grace \in Nat
ASSUME PeersAssumption == Halls \notin Machines /\ IsFiniteSet(Machines)
ASSUME RoomsAssumption == NoRoom \notin RoomIds /\ IsFiniteSet(RoomIds)
ASSUME BoundsAssumption == MaxBreaks \in Nat /\ MaxCrashes \in Nat /\ Prompt \in BOOLEAN

VARIABLES
  hallRoom,  \* the room in halls: not full yet, CreatingRoomServer, Playing or gone
  hallAge,   \* time since Room::roomCreateTime_
  link,      \* the session of a peer to roommgr, as the peer sees it
  known,     \* the peers in roommgr's srv_infos_
  load,      \* ServerInfo::load of the machines, in roommgr
  toMgr,     \* packets on their way from a peer to roommgr
  fromMgr,   \* packets on their way from roommgr to a peer
  deaf,      \* machines whose Session is stuck at a packet it does not know
  contexts,  \* createRoomContexts_ of each machine
  task,      \* the job of a pool thread that starts the game server
  host,      \* the machine whose pool has that job, or NoRoom
  proc,      \* the game server process of a room
  sent,      \* history: the answers the machine sent for a room
  late,      \* history: rooms whose game server reported after Grace
  breaks, crashes

hallVars    == <<hallRoom, hallAge>>
mgrVars     == <<known, load>>
netVars     == <<link, toMgr, fromMgr, deaf>>
machineVars == <<contexts, task, host, proc, sent, late>>
bounds      == <<breaks, crashes>>
vars == <<hallVars, mgrVars, netVars, machineVars, bounds>>

Messages == [kind : {"hello", "refused"}, room : {NoRoom}]
              \cup [kind : {"request", "ok", "fail", "over"}, room : RoomIds]
ContextStates ==
  {"WaitCreate", "Creating", "WaitReport", "Finished", "WaitGameOver", "WaitKillGameServer"}

\* errcode and port of createResult, whether its pid is known, and the time
\* since lastTime (since the GameOver report in WaitKillGameServer).
Contexts == [state : ContextStates, ok : BOOLEAN, port : BOOLEAN, pid : BOOLEAN, age : 0..MaxAge]

TypeOK ==
  /\ hallRoom \in [RoomIds -> {"filling", "creating", "playing", "gone"}]
  /\ hallAge \in [RoomIds -> 0..MaxAge]
  /\ link \in [Peers -> {"down", "connecting", "up"}]
  /\ known \subseteq Peers
  /\ load \in [Machines -> Int]
  /\ toMgr \in [Peers -> Seq(Messages)]
  /\ fromMgr \in [Peers -> Seq(Messages)]
  /\ deaf \subseteq Machines
  /\ DOMAIN contexts = Machines
  /\ \A m \in Machines :
       DOMAIN contexts[m] \subseteq RoomIds /\ contexts[m] \in [DOMAIN contexts[m] -> Contexts]
  /\ task \in [RoomIds -> {"none", "queued", "ok", "failed"}]
  /\ host \in [RoomIds -> Machines \cup {NoRoom}]
  /\ proc \in [RoomIds -> {"none", "up", "reported", "over", "killed", "dead"}]
  /\ sent \in [RoomIds -> SUBSET {"ok", "fail"}]
  /\ late \subseteq RoomIds
  /\ breaks \in 0..MaxBreaks /\ crashes \in 0..MaxCrashes

NoContext == [r \in {} |-> {}]

Init ==
  /\ hallRoom = [r \in RoomIds |-> "filling"]
  /\ hallAge = [r \in RoomIds |-> 0]
  /\ link = [p \in Peers |-> "down"]
  /\ known = {}
  /\ load = [m \in Machines |-> 0]
  /\ toMgr = [p \in Peers |-> <<>>]
  /\ fromMgr = [p \in Peers |-> <<>>]
  /\ deaf = {}
  /\ contexts = [m \in Machines |-> NoContext]
  /\ task = [r \in RoomIds |-> "none"]
  /\ host = [r \in RoomIds |-> NoRoom]
  /\ proc = [r \in RoomIds |-> "none"]
  /\ sent = [r \in RoomIds |-> {}]
  /\ late = {}
  /\ breaks = 0 /\ crashes = 0

Msg(kind, r) == [kind |-> kind, room |-> r]

-------------------------------------------------------------------------------
(* Sessions.                                                               *)

\* ServerMgr::onTick finds no roommgr: connectServer enters a placeholder that
\* findRoommgr gives from now on.
connectServer(p) ==
  /\ link[p] = "down"
  /\ link' = [link EXCEPT ![p] = "connecting"]
  /\ UNCHANGED <<hallVars, mgrVars, toMgr, fromMgr, deaf, machineVars, bounds>>

\* ServerMgr::onTick sends the Hello of a session that is connected.
SendHello(p) ==
  /\ link[p] = "connecting"
  /\ link' = [link EXCEPT ![p] = "up"]
  /\ toMgr' = [toMgr EXCEPT ![p] = Append(@, Msg("hello", NoRoom))]
  /\ UNCHANGED <<hallVars, mgrVars, fromMgr, deaf, machineVars, bounds>>

\* The sessions of the peers in P end: both sides forget them.
Disconnect(P) ==
  /\ link' = [p \in Peers |-> IF p \in P THEN "down" ELSE link[p]]
  /\ toMgr' = [p \in Peers |-> IF p \in P THEN <<>> ELSE toMgr[p]]
  /\ fromMgr' = [p \in Peers |-> IF p \in P THEN <<>> ELSE fromMgr[p]]
  /\ known' = known \ P
  /\ deaf' = deaf \ P
  /\ UNCHANGED load

ConnectionBreaks(p) ==
  /\ breaks < MaxBreaks
  /\ link[p] # "down"
  /\ Disconnect({p})
  /\ breaks' = breaks + 1
  /\ UNCHANGED <<hallVars, machineVars, crashes>>

\* A machine that is started again knows nothing of its game servers, which
\* go on; jobs its threads had not begun are gone.
MachineCrashes(m) ==
  /\ crashes < MaxCrashes
  /\ Disconnect({m})
  /\ contexts' = [contexts EXCEPT ![m] = NoContext]
  /\ task' = [r \in RoomIds |-> IF host[r] = m /\ task[r] = "queued" THEN "none" ELSE task[r]]
  /\ crashes' = crashes + 1
  /\ UNCHANGED <<hallVars, host, proc, sent, late, breaks>>

RoommgrCrashes ==
  /\ crashes < MaxCrashes
  /\ Disconnect(Peers)
  /\ crashes' = crashes + 1
  /\ UNCHANGED <<hallVars, machineVars, breaks>>

-------------------------------------------------------------------------------
(* The room in halls.                                                      *)

\* Mutant: the room does not note that it asked.
createRoomServer_keepsState(r) ==
  /\ hallRoom[r] = "filling" /\ link[Halls] # "down"
  /\ toMgr' = [toMgr EXCEPT ![Halls] = Append(@, Msg("request", r))]
  /\ UNCHANGED <<hallVars, mgrVars, link, fromMgr, deaf, machineVars, bounds>>

\* Room::createRoomServer of a room that filled up.
createRoomServer(r) ==
  /\ hallRoom[r] = "filling"
  /\ hallAge' = [hallAge EXCEPT ![r] = 0]
  /\ \/ /\ link[Halls] = "down"
        /\ hallRoom' = [hallRoom EXCEPT ![r] = "gone"]
        /\ UNCHANGED toMgr
     \/ /\ link[Halls] # "down"
        /\ hallRoom' = [hallRoom EXCEPT ![r] = "creating"]
        /\ toMgr' = [toMgr EXCEPT ![Halls] = Append(@, Msg("request", r))]
  /\ UNCHANGED <<mgrVars, link, fromMgr, deaf, machineVars, bounds>>

\* Mutant: an OK is taken by a room that was given up.
onCreateRoomServerCB_reopens ==
  /\ fromMgr[Halls] # <<>>
  /\ LET msg == Head(fromMgr[Halls])
         r   == msg.room
     IN \/ /\ msg.kind \in {"over", "refused", "fail"}
           /\ UNCHANGED hallVars
        \/ /\ msg.kind = "ok"
           /\ hallRoom' = [hallRoom EXCEPT ![r] = "playing"]
           /\ hallAge' = [hallAge EXCEPT ![r] = 0]
  /\ fromMgr' = [fromMgr EXCEPT ![Halls] = Tail(@)]
  /\ UNCHANGED <<mgrVars, link, toMgr, deaf, machineVars, bounds>>

\* onSessionRequestCreateRoomCB and Room::onCreateRoomServerCB; a GameOver
\* report changes scores, an answer without a room finds none.
onCreateRoomServerCB ==
  /\ fromMgr[Halls] # <<>>
  /\ LET msg == Head(fromMgr[Halls])
         r   == msg.room
     IN \/ /\ msg.kind \in {"over", "refused"}
           /\ UNCHANGED hallVars
        \/ /\ msg.kind \in {"ok", "fail"} /\ hallRoom[r] = "gone"
           /\ UNCHANGED hallVars
        \/ /\ msg.kind = "ok" /\ hallRoom[r] # "gone"
           /\ hallRoom' = [hallRoom EXCEPT ![r] = "playing"]
           /\ hallAge' = [hallAge EXCEPT ![r] = 0]
        \/ /\ msg.kind = "fail" /\ hallRoom[r] # "gone"
           /\ hallRoom' = [hallRoom EXCEPT ![r] = "gone"]
           /\ UNCHANGED hallAge
  /\ fromMgr' = [fromMgr EXCEPT ![Halls] = Tail(@)]
  /\ UNCHANGED <<mgrVars, link, toMgr, deaf, machineVars, bounds>>

\* Mutant: only a room that plays has a game time.
GameTimeout_playing(r) == hallRoom[r] = "playing" /\ hallAge[r] > GameTime + Grace

GameTimeout(r) == hallRoom[r] \in {"creating", "playing"} /\ hallAge[r] > GameTime + Grace

\* Room::onTick.
RoomTick(r) ==
  /\ GameTimeout(r)
  /\ hallRoom' = [hallRoom EXCEPT ![r] = "gone"]
  /\ UNCHANGED <<hallAge, mgrVars, netVars, machineVars, bounds>>

-------------------------------------------------------------------------------
(* roommgr.                                                                *)

Comes(p, kinds) == toMgr[p] # <<>> /\ Head(toMgr[p]).kind \in kinds
Take(p)         == toMgr' = [toMgr EXCEPT ![p] = Tail(@)]

onSessionHello(p) ==
  /\ Comes(p, {"hello"})
  /\ Take(p)
  /\ known' = known \cup {p}
  /\ load' = IF p \in Machines THEN [load EXCEPT ![p] = 0] ELSE load
  /\ UNCHANGED <<hallVars, link, fromMgr, deaf, machineVars, bounds>>

\* One of the least loaded machines.
findBestMachines == {m \in known \cap Machines : \A n \in known \cap Machines : load[m] <= load[n]}

\* Mutant: nothing is counted.
onSessionRequestCreateRoom_uncounted ==
  /\ Comes(Halls, {"request"})
  /\ Take(Halls)
  /\ LET r == Head(toMgr[Halls]).room IN
       \/ /\ findBestMachines = {}
          /\ fromMgr' = [fromMgr EXCEPT ![Halls] = Append(@, Msg("refused", NoRoom))]
       \/ \E m \in findBestMachines :
            fromMgr' = [fromMgr EXCEPT ![m] = Append(@, Msg("request", r))]
  /\ UNCHANGED <<hallVars, mgrVars, link, deaf, machineVars, bounds>>

onSessionRequestCreateRoom ==
  /\ Comes(Halls, {"request"})
  /\ Take(Halls)
  /\ LET r == Head(toMgr[Halls]).room IN
       \/ /\ findBestMachines = {}
          /\ fromMgr' = [fromMgr EXCEPT ![Halls] = Append(@, Msg("refused", NoRoom))]
          /\ UNCHANGED load
       \/ \E m \in findBestMachines :
            /\ load' = [load EXCEPT ![m] = @ + 1]
            /\ fromMgr' = [fromMgr EXCEPT ![m] = Append(@, Msg("request", r))]
  /\ UNCHANGED <<hallVars, known, link, deaf, machineVars, bounds>>

\* The answer of a machine goes to halls; when halls is gone, an answer that
\* only halls understands goes back to the machine.
onSessionRequestCreateRoomCB(m) ==
  /\ Comes(m, {"ok", "fail"})
  /\ Take(m)
  /\ fromMgr' = IF Halls \in known
                  THEN [fromMgr EXCEPT ![Halls] = Append(@, Head(toMgr[m]))]
                  ELSE [fromMgr EXCEPT ![m] = Append(@, Msg("refused", NoRoom))]
  /\ UNCHANGED <<hallVars, mgrVars, link, deaf, machineVars, bounds>>

\* A machine that is not known (its Hello comes behind the report) makes
\* roommgr use the NULL that findServer returns: it crashes.
onSessionRoomSrvGameOverReport(m) ==
  /\ Comes(m, {"over"})
  /\ \/ /\ m \in known
        /\ Take(m)
        /\ load' = [load EXCEPT ![m] = @ - 1]
        /\ fromMgr' = IF Halls \in known
                        THEN [fromMgr EXCEPT ![Halls] = Append(@, Head(toMgr[m]))]
                        ELSE fromMgr
        /\ UNCHANGED <<known, link, deaf>>
     \/ /\ m \notin known
        /\ Disconnect(Peers)
  /\ UNCHANGED <<hallVars, machineVars, bounds>>

-------------------------------------------------------------------------------
(* A machine.                                                              *)

NewContext == [state |-> "WaitCreate", ok |-> TRUE, port |-> FALSE, pid |-> FALSE, age |-> 0]

\* The next packet from roommgr.  One the machine's XSession does not know
\* leaves headerRcved_ set, so every later packet is read with its header.
\* RequestedOnce shows that addPendingCreateRoom never meets its assert(false).
onSessionPacket(m) ==
  /\ fromMgr[m] # <<>>
  /\ fromMgr' = [fromMgr EXCEPT ![m] = Tail(@)]
  /\ LET msg == Head(fromMgr[m]) IN
       \/ /\ m \in deaf
          /\ UNCHANGED <<deaf, contexts>>
       \/ /\ m \notin deaf /\ msg.kind = "refused"
          /\ deaf' = deaf \cup {m}
          /\ UNCHANGED contexts
       \/ /\ m \notin deaf /\ msg.kind = "request" /\ msg.room \notin DOMAIN contexts[m]
          /\ contexts' = [contexts EXCEPT ![m] =
               [r \in DOMAIN contexts[m] \cup {msg.room} |->
                  IF r = msg.room THEN NewContext ELSE contexts[m][r]]]
          /\ UNCHANGED deaf
  /\ UNCHANGED <<hallVars, mgrVars, link, toMgr, task, host, proc, sent, late, bounds>>

Ready(r)      == task[r] \in {"ok", "failed"}
CreateLate(c) == c.age > GameTime

\* A context that onTick gives up: its game server took too long to start or
\* to report.
CreateTimeout(c, r) ==
  CreateLate(c) /\ (c.state = "WaitReport" \/ (c.state = "Creating" /\ ~Ready(r)))
\* Mutant: the game time alone, counted from the request.
KillDue_noGrace(c) ==
  \/ c.state = "WaitKillGameServer" /\ c.age >= Grace
  \/ c.state = "WaitGameOver" /\ c.age > GameTime

\* Mutant: only a GameOver report ends a game server.
KillDue_reportOnly(c) == c.state = "WaitKillGameServer" /\ c.age >= Grace

\* A context whose game server is due to be killed.
KillDue(c) ==
  \/ c.state = "WaitKillGameServer" /\ c.age >= Grace
  \/ c.state = "WaitGameOver" /\ c.age > GameTime + Grace

\* Mutant: OK as soon as the process runs.
Answer_withoutPort(c, r) ==
  CASE CreateTimeout(c, r) -> {"fail"}
    [] c.state = "Creating" /\ task[r] = "failed" -> {"fail"}
    [] c.state = "WaitReport" /\ ~CreateLate(c) -> {"ok"}
    [] c.state = "Finished" -> IF c.ok THEN {"ok"} ELSE {"fail"}
    [] OTHER -> {}

\* Mutant: a timeout is not answered.
Answer_silentTimeout(c, r) ==
  CASE c.state = "Creating" /\ task[r] = "failed" -> {"fail"}
    [] c.state = "WaitReport" /\ ~CreateLate(c) /\ c.port -> {"ok"}
    [] c.state = "Finished" -> IF c.ok THEN {"ok"} ELSE {"fail"}
    [] OTHER -> {}

\* What onTick and onCreateRoomServerProcessFinished answer for a context.
Answer(c, r) ==
  CASE CreateTimeout(c, r) -> {"fail"}
    [] c.state = "Creating" /\ task[r] = "failed" -> {"fail"}
    [] c.state = "WaitReport" /\ ~CreateLate(c) /\ c.port -> {"ok"}
    [] c.state = "Finished" -> IF c.ok THEN {"ok"} ELSE {"fail"}
    [] OTHER -> {}

\* Mutant: the failure of the thread is noted as a timeout, which onTick has
\* passed already.
NextContext_timeout(c, r) ==
  CASE c.state = "WaitCreate" -> [c EXCEPT !.state = "Creating"]
    [] c.state = "Creating" /\ task[r] = "ok" -> [c EXCEPT !.state = "WaitReport", !.pid = TRUE]
    [] c.state = "Creating" /\ task[r] = "failed" -> [c EXCEPT !.state = "CreateTimeout"]
    [] c.state = "WaitReport" /\ c.port -> [c EXCEPT !.state = "WaitGameOver"]
    [] c.state = "Finished" -> [c EXCEPT !.state = "WaitGameOver"]
    [] OTHER -> c

\* Mutant: an answered context still waits for the report.
NextContext_staysWaitReport(c, r) ==
  CASE c.state = "WaitCreate" -> [c EXCEPT !.state = "Creating"]
    [] c.state = "Creating" /\ task[r] = "ok" -> [c EXCEPT !.state = "WaitReport", !.pid = TRUE]
    [] c.state = "Creating" /\ task[r] = "failed" -> [c EXCEPT !.state = "Finished", !.ok = FALSE]
    [] c.state = "Finished" -> [c EXCEPT !.state = "WaitGameOver"]
    [] OTHER -> c

\* Mutant: the pid of the thread's result is not kept.
NextContext_losesPid(c, r) ==
  CASE c.state = "WaitCreate" -> [c EXCEPT !.state = "Creating"]
    [] c.state = "Creating" /\ task[r] = "ok" -> [c EXCEPT !.state = "WaitReport", !.port = FALSE]
    [] c.state = "Creating" /\ task[r] = "failed" -> [c EXCEPT !.state = "Finished", !.ok = FALSE]
    [] c.state = "WaitReport" /\ c.port -> [c EXCEPT !.state = "WaitGameOver"]
    [] c.state = "Finished" -> [c EXCEPT !.state = "WaitGameOver"]
    [] OTHER -> c

\* What onTick makes of a context that it keeps.  The result of the thread
\* replaces createResult, a port reported before that included.
NextContext(c, r) ==
  CASE c.state = "WaitCreate" -> [c EXCEPT !.state = "Creating"]
    [] c.state = "Creating" /\ task[r] = "ok" ->
         [c EXCEPT !.state = "WaitReport", !.ok = TRUE, !.port = FALSE, !.pid = TRUE]
    [] c.state = "Creating" /\ task[r] = "failed" ->
         [c EXCEPT !.state = "Finished", !.ok = FALSE, !.port = FALSE, !.pid = FALSE]
    [] c.state = "WaitReport" /\ c.port -> [c EXCEPT !.state = "WaitGameOver"]
    [] c.state = "Finished" -> [c EXCEPT !.state = "WaitGameOver"]
    [] OTHER -> c

\* onTick of machine m, whose contexts and processes are cs and prs.
Tick(m, cs, prs) ==
  LET gone    == {r \in DOMAIN cs : CreateTimeout(cs[r], r) \/ KillDue(cs[r])}
      killed  == {r \in gone : cs[r].pid /\ KillDue(cs[r])}
      begun   == {r \in DOMAIN cs : cs[r].state = "WaitCreate"}
      answers == {msg \in [kind : {"ok", "fail"}, room : DOMAIN cs] :
                    msg.kind \in Answer(cs[msg.room], msg.room)}
  IN
  /\ contexts' = [contexts EXCEPT ![m] =
       [r \in DOMAIN cs \ gone |-> NextContext(cs[r], r)]]
  /\ task' = [r \in RoomIds |-> IF r \in begun THEN "queued" ELSE task[r]]
  /\ host' = [r \in RoomIds |-> IF r \in begun THEN m ELSE host[r]]
  /\ proc' = [r \in RoomIds |->
       IF r \in killed THEN IF prs[r] = "reported" THEN "killed" ELSE "dead" ELSE prs[r]]
  /\ \/ /\ link[m] = "down"
        /\ UNCHANGED <<toMgr, sent>>
     \/ /\ link[m] # "down"
        /\ \E s \in SetToSeqs(answers) : toMgr' = [toMgr EXCEPT ![m] = @ \o s]
        /\ sent' = [r \in RoomIds |-> sent[r] \cup {msg.kind : msg \in {a \in answers : a.room = r}}]

onTick(m) ==
  /\ DOMAIN contexts[m] # {}
  /\ Tick(m, contexts[m], proc)
  /\ UNCHANGED <<hallVars, mgrVars, link, fromMgr, deaf, late, bounds>>

\* startWindowsProcess, in a thread of the pool.
StartProcess(r) ==
  /\ task[r] = "queued"
  /\ \/ /\ task' = [task EXCEPT ![r] = "ok"]
        /\ proc' = [proc EXCEPT ![r] = "up"]
     \/ /\ task' = [task EXCEPT ![r] = "failed"]
        /\ UNCHANGED proc
  /\ UNCHANGED <<hallVars, mgrVars, netVars, contexts, host, sent, late, bounds>>

\* The game server reports where it listens; onTick follows in the handler.
onSessionRoomSrvReportAddr(m, r) ==
  /\ proc[r] = "up" /\ host[r] = m
  /\ LET prs == [proc EXCEPT ![r] = "reported"] IN
       \/ /\ r \notin DOMAIN contexts[m]
          /\ proc' = prs
          /\ UNCHANGED <<contexts, task, host, toMgr, sent, late>>
       \/ /\ r \in DOMAIN contexts[m]
          /\ Tick(m, [contexts[m] EXCEPT ![r].port = TRUE], prs)
          /\ late' = IF contexts[m][r].age > Grace THEN late \cup {r} ELSE late
  /\ UNCHANGED <<hallVars, mgrVars, link, fromMgr, deaf, bounds>>

\* The game server reports GameOver.  Without roommgr the handler returns
\* before it sets the time to kill.
ReportGameOver(m, r) ==
  /\ proc[r] = "reported" /\ host[r] = m
  /\ proc' = [proc EXCEPT ![r] = "over"]
  /\ \/ /\ link[m] = "down"
        /\ UNCHANGED <<contexts, toMgr>>
     \/ /\ link[m] # "down"
        /\ toMgr' = [toMgr EXCEPT ![m] = Append(@, Msg("over", r))]
        /\ contexts' = IF r \in DOMAIN contexts[m]
                         THEN [contexts EXCEPT ![m][r].state = "WaitKillGameServer", ![m][r].age = 0]
                         ELSE contexts
  /\ UNCHANGED <<hallVars, mgrVars, link, fromMgr, deaf, task, host, sent, late, bounds>>

\* A game server may exit at any time.
GameServerExits(r) ==
  /\ proc[r] \in {"up", "reported", "over"}
  /\ proc' = [proc EXCEPT ![r] = "dead"]
  /\ UNCHANGED <<hallVars, mgrVars, netVars, contexts, task, host, sent, late, bounds>>

-------------------------------------------------------------------------------
(* Time.                                                                   *)

Older(age) == IF age < MaxAge THEN age + 1 ELSE age

\* Nothing is left to do that takes no time.
Quiet ==
  /\ \A p \in Peers : toMgr[p] = <<>> /\ fromMgr[p] = <<>>
  /\ \A r \in RoomIds : ~GameTimeout(r)
  /\ \A m \in Machines : \A r \in DOMAIN contexts[m] :
       LET c == contexts[m][r] IN
         ~CreateTimeout(c, r) /\ ~KillDue(c) /\ NextContext(c, r) = c

Advance ==
  /\ Prompt => Quiet
  /\ hallAge' = [r \in RoomIds |->
       IF hallRoom[r] \in {"creating", "playing"} THEN Older(hallAge[r]) ELSE hallAge[r]]
  /\ contexts' = [m \in Machines |->
       [r \in DOMAIN contexts[m] |-> [contexts[m][r] EXCEPT !.age = Older(@)]]]
  /\ <<hallAge', contexts'>> # <<hallAge, contexts>>
  /\ UNCHANGED <<hallRoom, mgrVars, netVars, task, host, proc, sent, late, bounds>>

-------------------------------------------------------------------------------
Deliver(p) ==
  \/ p = Halls /\ (onCreateRoomServerCB \/ onSessionRequestCreateRoom)
  \/ p \in Machines /\ (onSessionPacket(p) \/ onSessionRequestCreateRoomCB(p)
                          \/ onSessionRoomSrvGameOverReport(p))
  \/ onSessionHello(p)

Next ==
  \/ \E p \in Peers : connectServer(p) \/ SendHello(p) \/ ConnectionBreaks(p) \/ Deliver(p)
  \/ \E m \in Machines : MachineCrashes(m) \/ onTick(m)
  \/ RoommgrCrashes
  \/ \E r \in RoomIds : createRoomServer(r) \/ RoomTick(r) \/ StartProcess(r) \/ GameServerExits(r)
  \/ \E m \in Machines, r \in RoomIds : onSessionRoomSrvReportAddr(m, r) \/ ReportGameOver(m, r)
  \/ Advance

Spec == Init /\ [][Next]_vars

\* Timers fire, packets of a connection that holds arrive, the threads of the
\* pool run and time goes on.  Nothing is assumed of a game server.
Fairness ==
  /\ \A p \in Peers : WF_vars(connectServer(p)) /\ WF_vars(SendHello(p)) /\ WF_vars(Deliver(p))
  /\ \A m \in Machines : WF_vars(onTick(m))
  /\ \A r \in RoomIds : WF_vars(RoomTick(r)) /\ WF_vars(StartProcess(r))
  /\ WF_vars(Advance)

FairSpec == Spec /\ Fairness
-------------------------------------------------------------------------------
(* Properties.                                                             *)

InFlight(queue, msgs) == \E i \in DOMAIN queue : queue[i] \in msgs
Answers(r) == {Msg("ok", r), Msg("fail", r)}

\* A room is asked for once: while a request is on its way no machine has a
\* context of that room and no other request is, so the assert(false) of
\* addPendingCreateRoom holds and one game server at most is started.
RequestedOnce ==
  \A r \in RoomIds :
    LET req == Msg("request", r)
        waiting == {p \in Peers : InFlight(toMgr[p], {req}) \/ InFlight(fromMgr[p], {req})}
        holding == {m \in Machines : r \in DOMAIN contexts[m]}
    IN  /\ \A x, y \in waiting \cup holding : x = y
        /\ waiting # {} => holding = {} /\ task[r] = "none" /\ proc[r] = "none"

\* The machine never says of one room that its server runs and that it failed.
AnswersAgree == \A r \in RoomIds : sent[r] # {"ok", "fail"}

\* Players are sent to a game server only if that server told where it listens:
\* an OK means that it reported, and that the machine knows the process to kill.
OkMeansListening ==
  \A r \in RoomIds : "ok" \in sent[r] =>
    /\ proc[r] \in {"reported", "over", "killed", "dead"}
    /\ \A m \in Machines : r \in DOMAIN contexts[m] => contexts[m][r].pid

\* No answer is on its way for a room that plays: it would start the time of
\* the game again or end the game.
NoAnswerWhilePlaying ==
  \A r \in RoomIds : hallRoom[r] = "playing" =>
    \A p \in Peers : ~InFlight(toMgr[p], Answers(r)) /\ ~InFlight(fromMgr[p], Answers(r))

\* A room that plays does so on an OK of its machine.
PlayingWasGranted == \A r \in RoomIds : hallRoom[r] = "playing" => sent[r] = {"ok"}

\* The rooms that machine m has been given and whose GameOver roommgr has not
\* seen, as far as their game server runs or may still be started.
Burden(m) ==
  {r \in RoomIds :
     \/ InFlight(fromMgr[m], {Msg("request", r)})
     \/ host[r] = m /\ (task[r] = "queued" \/ proc[r] \in {"up", "reported"})
     \/ r \in DOMAIN contexts[m] /\ contexts[m][r].state = "WaitCreate"}

\* roommgr never takes a machine for less busy than it is, as long as no
\* connection broke and nothing crashed: load counts at least the servers that
\* run or are to start.  (It may count too many: a request that fails stays.)
LoadCoversServers ==
  breaks = 0 /\ crashes = 0 => \A m \in Machines : load[m] >= Cardinality(Burden(m))

\* A game has its time: while players play within gameTime the machine does not
\* kill their server, unless the server took longer than Grace to report.  This
\* holds whatever breaks and crashes.
GameHasItsTime ==
  Prompt => \A r \in RoomIds :
    hallRoom[r] = "playing" /\ hallAge[r] <= GameTime /\ r \notin late => proc[r] # "killed"

\* A machine does not hold on to a room for ever.
ContextsGo ==
  \A m \in Machines, r \in RoomIds : (r \in DOMAIN contexts[m]) ~> (r \notin DOMAIN contexts[m])

\* A game server that players were sent to is killed or exits.
GameServersStop ==
  \A r \in RoomIds : ("ok" \in sent[r]) ~> (proc[r] \in {"killed", "dead"})

\* A room that a machine has taken is answered, if the machine keeps its session
\* and the game server does not end its game before its report is seen.
RequestsAreAnswered ==
  \A m \in Machines, r \in RoomIds :
    (r \in DOMAIN contexts[m] /\ contexts[m][r].state = "WaitCreate")
      ~> (sent[r] # {} \/ link[m] = "down" \/ proc[r] = "over")

\* A room whose server was asked for does not stay open in halls.
RoomsClose == \A r \in RoomIds : (hallRoom[r] \in {"creating", "playing"}) ~> (hallRoom[r] = "gone")
===============================================================================
