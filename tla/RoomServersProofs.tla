-------------------------- MODULE RoomServersProofs --------------------------
(* What holds of RoomServers for every number of rooms and machines, all     *)
(* times, and however many connections break and servers crash.              *)
EXTENDS RoomServersGrant, FiniteSetTheorems, SequenceTheorems, TLAPS

-------------------------------------------------------------------------------
(* Queues of packets.                                                        *)

\* Packet i of a queue is msg.
Carries(queue, msg, i) == i \in DOMAIN queue /\ queue[i] = msg

LEMMA NothingInEmpty ==
  ASSUME NEW msg, NEW i
  PROVE  ~Carries(<<>>, msg, i)
BY DEF Carries

\* Taking a packet: what is left was there, one place further on.
LEMMA TailFacts ==
  ASSUME NEW queue \in Seq(Messages), queue # <<>>
  PROVE  /\ Head(queue) \in Messages
         /\ Carries(queue, Head(queue), 1)
         /\ Tail(queue) \in Seq(Messages)
         /\ \A msg, i : Carries(Tail(queue), msg, i) =>
              i \in Nat \ {0} /\ Carries(queue, msg, i + 1)
<1>1. Len(queue) \in Nat \ {0} /\ DOMAIN queue = 1..Len(queue)
  BY EmptySeq, LenProperties
<1>2. Head(queue) = queue[1]
  OBVIOUS
<1>3. /\ Head(queue) \in Messages
      /\ Tail(queue) \in Seq(Messages)
      /\ Len(Tail(queue)) = Len(queue) - 1
      /\ \A i \in 1..Len(Tail(queue)) : Tail(queue)[i] = queue[i + 1]
  BY HeadTailProperties
<1>4. DOMAIN Tail(queue) = 1..(Len(queue) - 1)
  BY <1>3, LenProperties
<1> QED
  BY <1>1, <1>2, <1>3, <1>4 DEF Carries

\* Sending a sequence of packets: a packet was there or is one of them.
LEMMA ConcatFacts ==
  ASSUME NEW queue \in Seq(Messages), NEW s \in Seq(Messages)
  PROVE  /\ queue \o s \in Seq(Messages)
         /\ \A msg, i : Carries(queue \o s, msg, i) =>
              \/ Carries(queue, msg, i)
              \/ i - Len(queue) \in DOMAIN s /\ s[i - Len(queue)] = msg /\ i \in Int
<1>1. /\ Len(queue) \in Nat /\ DOMAIN queue = 1..Len(queue)
      /\ Len(s) \in Nat /\ DOMAIN s = 1..Len(s)
  BY LenProperties
<1>2. /\ queue \o s \in Seq(Messages)
      /\ Len(queue \o s) = Len(queue) + Len(s)
      /\ \A i \in 1..(Len(queue) + Len(s)) :
           (queue \o s)[i] = IF i <= Len(queue) THEN queue[i] ELSE s[i - Len(queue)]
  BY ConcatProperties
<1>3. DOMAIN (queue \o s) = 1..(Len(queue) + Len(s))
  BY <1>2, LenProperties
<1> QED
  BY <1>1, <1>2, <1>3 DEF Carries

\* Sending one packet.
LEMMA AppendFacts ==
  ASSUME NEW queue \in Seq(Messages), NEW x \in Messages
  PROVE  /\ Append(queue, x) \in Seq(Messages)
         /\ Len(queue) \in Nat
         /\ \A msg, i : Carries(Append(queue, x), msg, i) =>
              Carries(queue, msg, i) \/ (msg = x /\ i = Len(queue) + 1)
<1>1. Len(queue) \in Nat /\ DOMAIN queue = 1..Len(queue)
  BY LenProperties
<1>2. /\ Append(queue, x) \in Seq(Messages)
      /\ Len(Append(queue, x)) = Len(queue) + 1
      /\ \A i \in 1..Len(queue) : Append(queue, x)[i] = queue[i]
      /\ Append(queue, x)[Len(queue) + 1] = x
  BY <1>1
<1>3. DOMAIN Append(queue, x) = 1..(Len(queue) + 1)
  BY <1>2, LenProperties
<1> QED
  BY <1>1, <1>2, <1>3 DEF Carries

\* The packets that carry the answers of a tick: each once.
LEMMA AnswersAreSent ==
  ASSUME NEW answers \in SUBSET Messages, IsFiniteSet(answers), NEW s \in SetToSeqs(answers)
  PROVE  /\ s \in Seq(Messages)
         /\ \A i \in DOMAIN s : s[i] \in answers
         /\ \A i, j \in DOMAIN s : s[i] = s[j] => i = j
<1>1. Cardinality(answers) \in Nat
  BY FS_CardinalityType
<1>2. /\ s \in [1..Cardinality(answers) -> answers]
      /\ \A i, j \in 1..Cardinality(answers) : i # j => s[i] # s[j]
  BY DEF SetToSeqs
<1>3. s \in Seq(answers)
  BY <1>1, <1>2
<1> QED
  BY <1>2, <1>3, SeqMonotonic

-------------------------------------------------------------------------------
(* Type correctness.                                                         *)

MapTyped(cs) == DOMAIN cs \subseteq RoomIds /\ cs \in [DOMAIN cs -> Contexts]

LEMMA TimesAreTyped ==
  /\ MaxAge \in Nat /\ 0 \in 0..MaxAge
  /\ \A age \in 0..MaxAge : Older(age) \in 0..MaxAge
BY TimesAssumption DEF MaxAge, Older

LEMMA NextContextTyped ==
  ASSUME NEW c \in Contexts, NEW r
  PROVE  NextContext(c, r) \in Contexts
<1> DEFINE n == NextContext(c, r)
<1>1. c = [state |-> c.state, ok |-> c.ok, port |-> c.port, pid |-> c.pid, age |-> c.age]
  BY DEF Contexts
<1>2. /\ c.state \in ContextStates /\ c.ok \in BOOLEAN /\ c.port \in BOOLEAN
      /\ c.pid \in BOOLEAN /\ c.age \in 0..MaxAge
  BY DEF Contexts
<1>3. CASE c.state = "WaitCreate"
  BY <1>1, <1>2, <1>3 DEF NextContext, Contexts, ContextStates
<1>4. CASE c.state = "Creating"
  BY <1>1, <1>2, <1>4 DEF NextContext, Contexts, ContextStates
<1>5. CASE c.state = "WaitReport"
  BY <1>1, <1>2, <1>5 DEF NextContext, Contexts, ContextStates
<1>6. CASE c.state = "Finished"
  BY <1>1, <1>2, <1>6 DEF NextContext, Contexts, ContextStates
<1>7. CASE c.state \in {"WaitGameOver", "WaitKillGameServer"}
  BY <1>7 DEF NextContext
<1> QED
  BY <1>2, <1>3, <1>4, <1>5, <1>6, <1>7 DEF ContextStates

\* The queues when connections end.
LEMMA DisconnectTyped ==
  ASSUME TypeOK, NEW P \in SUBSET Peers, Disconnect(P)
  PROVE  /\ link' \in [Peers -> {"down", "connecting", "up"}]
         /\ known' \subseteq Peers
         /\ load' \in [Machines -> Int]
         /\ toMgr' \in [Peers -> Seq(Messages)]
         /\ fromMgr' \in [Peers -> Seq(Messages)]
         /\ deaf' \subseteq Machines
<1>1. <<>> \in Seq(Messages)
  BY EmptySeq
<1> QED
  BY <1>1 DEF TypeOK, Disconnect

\* The queue of one peer gets other packets.
LEMMA QueueTyped ==
  ASSUME NEW queues \in [Peers -> Seq(Messages)], NEW p, NEW s \in Seq(Messages)
  PROVE  [queues EXCEPT ![p] = s] \in [Peers -> Seq(Messages)]
OBVIOUS

\* One packet more in the queue of one peer.
LEMMA SendTyped ==
  ASSUME NEW queues \in [Peers -> Seq(Messages)], NEW p \in Peers, NEW x \in Messages
  PROVE  [queues EXCEPT ![p] = Append(@, x)] \in [Peers -> Seq(Messages)]
<1>1. Append(queues[p], x) \in Seq(Messages)
  BY AppendFacts
<1> QED
  BY <1>1

\* What reports do to a context.
LEMMA ReportedTyped ==
  ASSUME NEW cs, MapTyped(cs), NEW r \in DOMAIN cs
  PROVE  /\ MapTyped([cs EXCEPT ![r].port = TRUE])
         /\ MapTyped([cs EXCEPT ![r].state = "WaitKillGameServer", ![r].age = 0])
<1>1. cs[r] \in Contexts
  BY DEF MapTyped
<1>2. [cs[r] EXCEPT !.port = TRUE] \in Contexts
  BY <1>1 DEF Contexts
<1>3. [cs[r] EXCEPT !.state = "WaitKillGameServer", !.age = 0] \in Contexts
  BY <1>1, TimesAreTyped DEF Contexts, ContextStates
<1> QED
  BY <1>2, <1>3 DEF MapTyped

\* The answers of a tick are a finite set of packets.
LEMMA AnswersTyped ==
  ASSUME NEW D \in SUBSET RoomIds,
         NEW answers \in SUBSET [kind : {"ok", "fail"}, room : D]
  PROVE  answers \in SUBSET Messages /\ IsFiniteSet(answers)
<1> DEFINE pairs == {"ok", "fail"} \X RoomIds
           f     == [t \in pairs |-> [kind |-> t[1], room |-> t[2]]]
           all   == [kind : {"ok", "fail"}, room : RoomIds]
<1>1. IsFiniteSet({"ok", "fail"})
  <2>1. IsFiniteSet({"ok"}) /\ {"ok", "fail"} = {"ok"} \cup {"fail"}
    BY FS_Singleton
  <2> QED
    BY <2>1, FS_AddElement
<1>2. IsFiniteSet(pairs)
  BY <1>1, RoomsAssumption, FS_Product
<1>3. f \in Surjection(pairs, all)
  <2>1. f \in [pairs -> all]
    OBVIOUS
  <2>2. ASSUME NEW msg \in all PROVE \E t \in pairs : f[t] = msg
    <3>1. <<msg.kind, msg.room>> \in pairs /\ msg = [kind |-> msg.kind, room |-> msg.room]
      OBVIOUS
    <3> QED
      BY <3>1
  <2> QED
    BY <2>1, <2>2 DEF Surjection
<1>4. IsFiniteSet(all)
  BY <1>2, <1>3, FS_Surjection
<1>5. answers \in SUBSET all
  OBVIOUS
<1>6. answers \in SUBSET Messages
  BY DEF Messages
<1> QED
  BY <1>4, <1>5, <1>6, FS_Subset

\* A tick of machine m: cs and prs are its contexts and the processes.
LEMMA TickTyped ==
  ASSUME TypeOK, NEW m \in Machines, NEW cs, MapTyped(cs), NEW prs,
         prs \in [RoomIds -> {"none", "up", "reported", "over", "killed", "dead"}],
         Tick(m, cs, prs)
  PROVE  /\ DOMAIN contexts' = Machines
         /\ \A n \in Machines : MapTyped(contexts'[n])
         /\ task' \in [RoomIds -> {"none", "queued", "ok", "failed"}]
         /\ host' \in [RoomIds -> Machines \cup {NoRoom}]
         /\ proc' \in [RoomIds -> {"none", "up", "reported", "over", "killed", "dead"}]
         /\ toMgr' \in [Peers -> Seq(Messages)]
         /\ sent' \in [RoomIds -> SUBSET {"ok", "fail"}]
<1> DEFINE gone    == {r \in DOMAIN cs : CreateTimeout(cs[r], r) \/ KillDue(cs[r])}
           killed  == {r \in gone : cs[r].pid /\ KillDue(cs[r])}
           begun   == {r \in DOMAIN cs : cs[r].state = "WaitCreate"}
           answers == {msg \in [kind : {"ok", "fail"}, room : DOMAIN cs] :
                         msg.kind \in Answer(cs[msg.room], msg.room)}
           next    == [r \in DOMAIN cs \ gone |-> NextContext(cs[r], r)]
<1>1. /\ contexts' = [contexts EXCEPT ![m] = next]
      /\ task' = [r \in RoomIds |-> IF r \in begun THEN "queued" ELSE task[r]]
      /\ host' = [r \in RoomIds |-> IF r \in begun THEN m ELSE host[r]]
      /\ proc' = [r \in RoomIds |->
           IF r \in killed THEN IF prs[r] = "reported" THEN "killed" ELSE "dead" ELSE prs[r]]
      /\ \/ link[m] = "down" /\ UNCHANGED <<toMgr, sent>>
         \/ /\ link[m] # "down"
            /\ \E s \in SetToSeqs(answers) : toMgr' = [toMgr EXCEPT ![m] = @ \o s]
            /\ sent' = [r \in RoomIds |->
                 sent[r] \cup {msg.kind : msg \in {a \in answers : a.room = r}}]
  BY DEF Tick
<1>2. MapTyped(next)
  BY NextContextTyped DEF MapTyped
<1>3. /\ DOMAIN contexts' = Machines
      /\ \A n \in Machines : MapTyped(contexts'[n])
  BY <1>1, <1>2 DEF TypeOK, MapTyped
<1>4. answers \in SUBSET Messages /\ IsFiniteSet(answers)
  BY AnswersTyped DEF MapTyped
<1> HIDE DEF answers, next, gone, killed, begun
<1>5. task' \in [RoomIds -> {"none", "queued", "ok", "failed"}]
  BY <1>1 DEF TypeOK
<1>6. host' \in [RoomIds -> Machines \cup {NoRoom}]
  BY <1>1 DEF TypeOK
<1>7. proc' \in [RoomIds -> {"none", "up", "reported", "over", "killed", "dead"}]
  BY <1>1
<1>8. toMgr' \in [Peers -> Seq(Messages)]
  <2>1. CASE UNCHANGED toMgr
    BY <2>1 DEF TypeOK
  <2>2. ASSUME NEW s \in SetToSeqs(answers), toMgr' = [toMgr EXCEPT ![m] = @ \o s]
        PROVE  toMgr' \in [Peers -> Seq(Messages)]
    <3>1. s \in Seq(Messages) /\ toMgr[m] \in Seq(Messages)
      BY <1>4, AnswersAreSent DEF TypeOK, Peers
    <3>2. toMgr[m] \o s \in Seq(Messages)
      BY <3>1, ConcatFacts
    <3> QED
      BY <2>2, <3>2 DEF TypeOK
  <2> QED
    BY <1>1, <2>1, <2>2
<1>9. sent' \in [RoomIds -> SUBSET {"ok", "fail"}]
  <2>1. \A r \in RoomIds : {msg.kind : msg \in {a \in answers : a.room = r}} \subseteq {"ok", "fail"}
    BY DEF answers
  <2>2. sent \in [RoomIds -> SUBSET {"ok", "fail"}]
    BY DEF TypeOK
  <2> QED
    BY <1>1, <2>1, <2>2
<1> QED
  BY <1>3, <1>5, <1>6, <1>7, <1>8, <1>9

\* A packet leaves a queue.
LEMMA TakeTyped ==
  ASSUME TypeOK, NEW p \in Peers
  PROVE  /\ toMgr[p] # <<>> => toMgr[p][1] \in Messages
         /\ fromMgr[p] # <<>> => Head(fromMgr[p]) \in Messages
         /\ toMgr[p] # <<>> => Head(toMgr[p]) \in Messages /\ Tail(toMgr[p]) \in Seq(Messages)
         /\ fromMgr[p] # <<>> => Tail(fromMgr[p]) \in Seq(Messages)
<1>1. toMgr[p] \in Seq(Messages) /\ fromMgr[p] \in Seq(Messages)
  BY DEF TypeOK
<1> QED
  BY <1>1, TailFacts, EmptySeq, ElementOfSeq, LenProperties

\* What each server does with its connection to roommgr.
LEMMA SessionsTyped ==
  ASSUME TypeOK, NEW p \in Peers,
         connectServer(p) \/ SendHello(p) \/ ConnectionBreaks(p) \/ onSessionHello(p)
  PROVE  TypeOK'
<1>1. CASE connectServer(p)
  BY <1>1 DEF connectServer, TypeOK, hallVars, mgrVars, machineVars, bounds
<1>2. CASE SendHello(p)
  <2>1. Msg("hello", NoRoom) \in Messages
    BY DEF Msg, Messages
  <2>2. Append(toMgr[p], Msg("hello", NoRoom)) \in Seq(Messages)
    BY <2>1, AppendFacts DEF TypeOK
  <2> QED
    BY <1>2, <2>2, QueueTyped DEF SendHello, TypeOK, hallVars, mgrVars, machineVars, bounds
<1>3. CASE ConnectionBreaks(p)
  <2>1. /\ link' \in [Peers -> {"down", "connecting", "up"}]
        /\ known' \subseteq Peers
        /\ load' \in [Machines -> Int]
        /\ toMgr' \in [Peers -> Seq(Messages)]
        /\ fromMgr' \in [Peers -> Seq(Messages)]
        /\ deaf' \subseteq Machines
    BY <1>3, DisconnectTyped DEF ConnectionBreaks
  <2>2. breaks' \in 0..MaxBreaks
    BY <1>3, BoundsAssumption DEF ConnectionBreaks, TypeOK
  <2> QED
    BY <1>3, <2>1, <2>2 DEF ConnectionBreaks, TypeOK, hallVars, machineVars
<1>4. CASE onSessionHello(p)
  <2>1. Tail(toMgr[p]) \in Seq(Messages)
    BY <1>4, TakeTyped DEF onSessionHello, Comes
  <2>2. toMgr' \in [Peers -> Seq(Messages)]
    BY <1>4, <2>1, QueueTyped DEF onSessionHello, Take, TypeOK
  <2>3. load' \in [Machines -> Int]
    BY <1>4 DEF onSessionHello, TypeOK
  <2> QED
    BY <1>4, <2>2, <2>3 DEF onSessionHello, TypeOK, hallVars, machineVars, bounds
<1> QED
  BY <1>1, <1>2, <1>3, <1>4

LEMMA CrashesTyped ==
  ASSUME TypeOK, RoommgrCrashes \/ \E m \in Machines : MachineCrashes(m)
  PROVE  TypeOK'
<1>1. CASE RoommgrCrashes
  <2>1. /\ link' \in [Peers -> {"down", "connecting", "up"}]
        /\ known' \subseteq Peers
        /\ load' \in [Machines -> Int]
        /\ toMgr' \in [Peers -> Seq(Messages)]
        /\ fromMgr' \in [Peers -> Seq(Messages)]
        /\ deaf' \subseteq Machines
    BY <1>1, DisconnectTyped DEF RoommgrCrashes
  <2>2. crashes' \in 0..MaxCrashes
    BY <1>1, BoundsAssumption DEF RoommgrCrashes, TypeOK
  <2> QED
    BY <1>1, <2>1, <2>2 DEF RoommgrCrashes, TypeOK, hallVars, machineVars
<1>2. ASSUME NEW m \in Machines, MachineCrashes(m) PROVE TypeOK'
  <2>1. {m} \in SUBSET Peers /\ Disconnect({m})
    BY <1>2 DEF MachineCrashes, Peers
  <2>2. /\ link' \in [Peers -> {"down", "connecting", "up"}]
        /\ known' \subseteq Peers
        /\ load' \in [Machines -> Int]
        /\ toMgr' \in [Peers -> Seq(Messages)]
        /\ fromMgr' \in [Peers -> Seq(Messages)]
        /\ deaf' \subseteq Machines
    BY <2>1, DisconnectTyped
  <2>3. crashes' \in 0..MaxCrashes
    BY <1>2, BoundsAssumption DEF MachineCrashes, TypeOK
  <2>4. task' \in [RoomIds -> {"none", "queued", "ok", "failed"}]
    BY <1>2 DEF MachineCrashes, TypeOK
  <2>5. /\ DOMAIN contexts' = Machines
        /\ \A n \in Machines : DOMAIN contexts'[n] \subseteq RoomIds
             /\ contexts'[n] \in [DOMAIN contexts'[n] -> Contexts]
    BY <1>2 DEF MachineCrashes, TypeOK, NoContext
  <2> QED
    BY <1>2, <2>2, <2>3, <2>4, <2>5 DEF MachineCrashes, TypeOK, hallVars
<1> QED
  BY <1>1, <1>2

\* The room in halls.
LEMMA HallsTyped ==
  ASSUME TypeOK, onCreateRoomServerCB \/ \E r \in RoomIds : createRoomServer(r) \/ RoomTick(r)
  PROVE  TypeOK'
<1>1. ASSUME NEW r \in RoomIds, createRoomServer(r) PROVE TypeOK'
  <2>1. Append(toMgr[Halls], Msg("request", r)) \in Seq(Messages)
    BY AppendFacts DEF TypeOK, Msg, Messages, Peers
  <2>2. toMgr' \in [Peers -> Seq(Messages)]
    <3>1. toMgr \in [Peers -> Seq(Messages)]
      BY DEF TypeOK
    <3>2. toMgr' = toMgr \/ toMgr' = [toMgr EXCEPT ![Halls] = Append(@, Msg("request", r))]
      BY <1>1 DEF createRoomServer
    <3> QED
      BY <2>1, <3>1, <3>2
  <2>3. hallRoom' \in [RoomIds -> {"filling", "creating", "playing", "gone"}]
    BY <1>1 DEF createRoomServer, TypeOK
  <2>4. hallAge' \in [RoomIds -> 0..MaxAge]
    BY <1>1, TimesAreTyped DEF createRoomServer, TypeOK
  <2> QED
    BY <1>1, <2>2, <2>3, <2>4 DEF createRoomServer, TypeOK, mgrVars, machineVars, bounds
<1>2. ASSUME NEW r \in RoomIds, RoomTick(r) PROVE TypeOK'
  BY <1>2 DEF RoomTick, TypeOK, mgrVars, netVars, machineVars, bounds
<1>3. CASE onCreateRoomServerCB
  <2>1. Tail(fromMgr[Halls]) \in Seq(Messages)
    BY <1>3, TakeTyped DEF onCreateRoomServerCB, Peers
  <2>2. fromMgr' \in [Peers -> Seq(Messages)]
    BY <1>3, <2>1, QueueTyped DEF onCreateRoomServerCB, TypeOK
  <2>3. hallRoom' \in [RoomIds -> {"filling", "creating", "playing", "gone"}]
    BY <1>3 DEF onCreateRoomServerCB, TypeOK, hallVars
  <2>4. hallAge' \in [RoomIds -> 0..MaxAge]
    BY <1>3, TimesAreTyped, ZenonT(60) DEF onCreateRoomServerCB, TypeOK, hallVars
  <2> QED
    BY <1>3, <2>2, <2>3, <2>4 DEF onCreateRoomServerCB, TypeOK, mgrVars, machineVars, bounds
<1> QED
  BY <1>1, <1>2, <1>3

\* roommgr.
LEMMA RoommgrTyped ==
  ASSUME TypeOK,
         \/ onSessionRequestCreateRoom
         \/ \E m \in Machines : onSessionRequestCreateRoomCB(m) \/ onSessionRoomSrvGameOverReport(m)
  PROVE  TypeOK'
<1>1. /\ toMgr \in [Peers -> Seq(Messages)] /\ fromMgr \in [Peers -> Seq(Messages)]
      /\ load \in [Machines -> Int] /\ Halls \in Peers /\ Machines \subseteq Peers
  BY DEF TypeOK, Peers
<1>2. Msg("refused", NoRoom) \in Messages
  BY DEF Msg, Messages
<1>3. CASE onSessionRequestCreateRoom
  <2>1. Tail(toMgr[Halls]) \in Seq(Messages) /\ Head(toMgr[Halls]) \in Messages
    BY <1>1, <1>3, TakeTyped DEF onSessionRequestCreateRoom, Comes
  <2>2. toMgr' \in [Peers -> Seq(Messages)]
    BY <1>1, <1>3, <2>1 DEF onSessionRequestCreateRoom, Take
  <2>3. CASE /\ fromMgr' = [fromMgr EXCEPT ![Halls] = Append(@, Msg("refused", NoRoom))]
             /\ UNCHANGED load
    <3>1. fromMgr' \in [Peers -> Seq(Messages)]
      BY <1>1, <1>2, <2>3, AppendFacts
    <3> QED
      BY <1>3, <2>2, <2>3, <3>1
         DEF onSessionRequestCreateRoom, TypeOK, hallVars, machineVars, bounds
  <2>4. ASSUME NEW m \in findBestMachines,
               load' = [load EXCEPT ![m] = @ + 1],
               fromMgr' = [fromMgr EXCEPT ![m] = Append(@, Msg("request", Head(toMgr[Halls]).room))]
        PROVE  TypeOK'
    <3>1. m \in Machines
      BY DEF findBestMachines
    <3>2. Msg("request", Head(toMgr[Halls]).room) \in Messages
      BY <1>3, <2>1 DEF onSessionRequestCreateRoom, Comes, Msg, Messages
    <3>3. fromMgr' \in [Peers -> Seq(Messages)] /\ load' \in [Machines -> Int]
      BY <1>1, <2>4, <3>1, <3>2, AppendFacts
    <3> QED
      BY <1>3, <2>2, <3>3 DEF onSessionRequestCreateRoom, TypeOK, hallVars, machineVars, bounds
  <2> QED
    BY <1>3, <2>3, <2>4 DEF onSessionRequestCreateRoom
<1>4. ASSUME NEW m \in Machines, onSessionRequestCreateRoomCB(m) PROVE TypeOK'
  <2>1. Tail(toMgr[m]) \in Seq(Messages) /\ Head(toMgr[m]) \in Messages
    BY <1>1, <1>4, TakeTyped DEF onSessionRequestCreateRoomCB, Comes
  <2>2. toMgr' \in [Peers -> Seq(Messages)]
    BY <1>1, <1>4, <2>1 DEF onSessionRequestCreateRoomCB, Take
  <2>3. fromMgr' \in [Peers -> Seq(Messages)]
    BY <1>1, <1>2, <1>4, <2>1, AppendFacts DEF onSessionRequestCreateRoomCB
  <2> QED
    BY <1>4, <2>2, <2>3
       DEF onSessionRequestCreateRoomCB, TypeOK, hallVars, mgrVars, machineVars, bounds
<1>5. ASSUME NEW m \in Machines, onSessionRoomSrvGameOverReport(m) PROVE TypeOK'
  <2>1. Tail(toMgr[m]) \in Seq(Messages) /\ Head(toMgr[m]) \in Messages
    BY <1>1, <1>5, TakeTyped DEF onSessionRoomSrvGameOverReport, Comes
  <2>2. CASE m \in known
    <3>1. /\ toMgr' = [toMgr EXCEPT ![m] = Tail(@)]
          /\ load' = [load EXCEPT ![m] = @ - 1]
          /\ \/ fromMgr' = [fromMgr EXCEPT ![Halls] = Append(@, Head(toMgr[m]))]
             \/ fromMgr' = fromMgr
          /\ UNCHANGED <<known, link, deaf>>
      BY <1>5, <2>2 DEF onSessionRoomSrvGameOverReport, Take
    <3>2. toMgr' \in [Peers -> Seq(Messages)] /\ load' \in [Machines -> Int]
      BY <1>1, <2>1, <3>1, QueueTyped
    <3>3. fromMgr' \in [Peers -> Seq(Messages)]
      <4>1. [fromMgr EXCEPT ![Halls] = Append(@, Head(toMgr[m]))] \in [Peers -> Seq(Messages)]
        BY <1>1, <2>1, SendTyped
      <4> QED
        BY <1>1, <3>1, <4>1
    <3> QED
      BY <1>5, <3>1, <3>2, <3>3
         DEF onSessionRoomSrvGameOverReport, TypeOK, hallVars, machineVars, bounds
  <2>3. CASE m \notin known
    <3>1. /\ link' \in [Peers -> {"down", "connecting", "up"}]
          /\ known' \subseteq Peers
          /\ load' \in [Machines -> Int]
          /\ toMgr' \in [Peers -> Seq(Messages)]
          /\ fromMgr' \in [Peers -> Seq(Messages)]
          /\ deaf' \subseteq Machines
      BY <1>5, <2>3, DisconnectTyped DEF onSessionRoomSrvGameOverReport
    <3> QED
      BY <1>5, <3>1 DEF onSessionRoomSrvGameOverReport, TypeOK, hallVars, machineVars, bounds
  <2> QED
    BY <2>2, <2>3
<1> QED
  BY <1>3, <1>4, <1>5

\* A machine and its game servers.
LEMMA MachineTyped ==
  ASSUME TypeOK, NEW m \in Machines,
         \/ onSessionPacket(m) \/ onTick(m)
         \/ \E r \in RoomIds : onSessionRoomSrvReportAddr(m, r) \/ ReportGameOver(m, r)
  PROVE  TypeOK'
<1>1. /\ toMgr \in [Peers -> Seq(Messages)] /\ fromMgr \in [Peers -> Seq(Messages)]
      /\ m \in Peers /\ DOMAIN contexts = Machines
      /\ \A n \in Machines : MapTyped(contexts[n])
      /\ proc \in [RoomIds -> {"none", "up", "reported", "over", "killed", "dead"}]
  BY DEF TypeOK, Peers, MapTyped
<1>2. CASE onSessionPacket(m)
  <2>1. Tail(fromMgr[m]) \in Seq(Messages) /\ Head(fromMgr[m]) \in Messages
    BY <1>1, <1>2, TakeTyped DEF onSessionPacket
  <2>2. fromMgr' \in [Peers -> Seq(Messages)]
    BY <1>1, <1>2, <2>1 DEF onSessionPacket
  <2>3. DOMAIN contexts' = Machines /\ \A n \in Machines : MapTyped(contexts'[n])
    <3>1. CASE UNCHANGED contexts
      BY <1>1, <3>1
    <3>2. ASSUME NEW r \in RoomIds,
                 contexts' = [contexts EXCEPT ![m] =
                   [x \in DOMAIN contexts[m] \cup {r} |->
                      IF x = r THEN NewContext ELSE contexts[m][x]]]
          PROVE  DOMAIN contexts' = Machines /\ \A n \in Machines : MapTyped(contexts'[n])
      <4>1. NewContext \in Contexts
        BY TimesAreTyped DEF NewContext, Contexts, ContextStates
      <4> QED
        BY <1>1, <3>2, <4>1 DEF MapTyped
    <3> QED
      BY <1>2, <2>1, <3>1, <3>2 DEF onSessionPacket, Messages
  <2>4. deaf' \subseteq Machines
    BY <1>2 DEF onSessionPacket, TypeOK
  <2> QED
    BY <1>2, <2>2, <2>3, <2>4
       DEF onSessionPacket, TypeOK, MapTyped, hallVars, mgrVars, bounds
<1>3. CASE onTick(m)
  <2>1. Tick(m, contexts[m], proc)
    BY <1>3 DEF onTick
  <2> QED
    BY <1>1, <1>3, <2>1, TickTyped DEF onTick, TypeOK, MapTyped, hallVars, mgrVars, bounds
<1>4. ASSUME NEW r \in RoomIds, onSessionRoomSrvReportAddr(m, r) PROVE TypeOK'
  <2> DEFINE prs == [proc EXCEPT ![r] = "reported"]
             cs  == [contexts[m] EXCEPT ![r].port = TRUE]
  <2>1. prs \in [RoomIds -> {"none", "up", "reported", "over", "killed", "dead"}]
    BY <1>1
  <2>2. CASE r \notin DOMAIN contexts[m]
    <3>1. proc' = prs /\ UNCHANGED <<contexts, task, host, toMgr, sent, late>>
      BY <1>4, <2>2 DEF onSessionRoomSrvReportAddr
    <3> QED
      BY <1>4, <2>1, <3>1 DEF onSessionRoomSrvReportAddr, TypeOK, hallVars, mgrVars, bounds
  <2>3. CASE r \in DOMAIN contexts[m]
    <3>1. Tick(m, cs, prs) /\ late' = IF contexts[m][r].age > Grace THEN late \cup {r} ELSE late
      BY <1>4, <2>3 DEF onSessionRoomSrvReportAddr
    <3>2. MapTyped(cs)
      BY <1>1, <2>3, ReportedTyped
    <3>3. late' \subseteq RoomIds
      BY <3>1 DEF TypeOK
    <3> HIDE DEF cs, prs
    <3> QED
      BY <1>4, <2>1, <3>1, <3>2, <3>3, TickTyped
         DEF onSessionRoomSrvReportAddr, TypeOK, MapTyped, hallVars, mgrVars, bounds
  <2> QED
    BY <2>2, <2>3
<1>5. ASSUME NEW r \in RoomIds, ReportGameOver(m, r) PROVE TypeOK'
  <2>1. Msg("over", r) \in Messages
    BY DEF Msg, Messages
  <2>2. toMgr' \in [Peers -> Seq(Messages)]
    <3>1. [toMgr EXCEPT ![m] = Append(@, Msg("over", r))] \in [Peers -> Seq(Messages)]
      BY <1>1, <2>1, SendTyped
    <3>2. toMgr' = toMgr \/ toMgr' = [toMgr EXCEPT ![m] = Append(@, Msg("over", r))]
      BY <1>5 DEF ReportGameOver
    <3> QED
      BY <1>1, <3>1, <3>2
  <2>3. DOMAIN contexts' = Machines /\ \A n \in Machines : MapTyped(contexts'[n])
    <3>1. CASE UNCHANGED contexts
      BY <1>1, <3>1
    <3>2. CASE /\ r \in DOMAIN contexts[m]
               /\ contexts' = [contexts EXCEPT ![m][r].state = "WaitKillGameServer", ![m][r].age = 0]
      <4>1. contexts'[m] = [contexts[m] EXCEPT ![r].state = "WaitKillGameServer", ![r].age = 0]
        BY <1>1, <3>2
      <4>2. MapTyped(contexts'[m])
        BY <1>1, <3>2, <4>1, ReportedTyped
      <4> QED
        BY <1>1, <3>2, <4>2
    <3> QED
      BY <1>5, <3>1, <3>2 DEF ReportGameOver
  <2>4. proc' \in [RoomIds -> {"none", "up", "reported", "over", "killed", "dead"}]
    BY <1>1, <1>5 DEF ReportGameOver
  <2> QED
    BY <1>5, <2>2, <2>3, <2>4 DEF ReportGameOver, TypeOK, MapTyped, hallVars, mgrVars, bounds
<1> QED
  BY <1>2, <1>3, <1>4, <1>5

\* Every step keeps the types.
LEMMA NextTyped == TypeOK /\ [Next]_vars => TypeOK'
<1> SUFFICES ASSUME TypeOK, [Next]_vars PROVE TypeOK'
  OBVIOUS
<1>1. ASSUME NEW p \in Peers, Deliver(p) PROVE TypeOK'
  BY <1>1, SessionsTyped, HallsTyped, RoommgrTyped, MachineTyped DEF Deliver
<1>2. ASSUME NEW r \in RoomIds, StartProcess(r) \/ GameServerExits(r) PROVE TypeOK'
  <2>1. CASE StartProcess(r)
    BY <2>1 DEF StartProcess, TypeOK, hallVars, mgrVars, netVars, bounds
  <2>2. CASE GameServerExits(r)
    BY <2>2 DEF GameServerExits, TypeOK, hallVars, mgrVars, netVars, bounds
  <2> QED
    BY <1>2, <2>1, <2>2
<1>3. CASE Advance
  <2>1. hallAge' \in [RoomIds -> 0..MaxAge]
    BY <1>3, TimesAreTyped DEF Advance, TypeOK
  <2>2. /\ DOMAIN contexts' = Machines
        /\ \A m \in Machines : MapTyped(contexts'[m])
    <3>1. contexts' = [m \in Machines |->
            [r \in DOMAIN contexts[m] |-> [contexts[m][r] EXCEPT !.age = Older(@)]]]
      BY <1>3 DEF Advance
    <3>2. ASSUME NEW c \in Contexts PROVE [c EXCEPT !.age = Older(@)] \in Contexts
      BY TimesAreTyped DEF Contexts
    <3>3. \A m \in Machines : MapTyped(contexts[m])
      BY DEF TypeOK, MapTyped
    <3>4. ASSUME NEW m \in Machines PROVE MapTyped(contexts'[m])
      <4>1. contexts'[m] = [r \in DOMAIN contexts[m] |-> [contexts[m][r] EXCEPT !.age = Older(@)]]
        BY <3>1
      <4>2. MapTyped(contexts[m])
        BY <3>3
      <4>3. \A r \in DOMAIN contexts[m] : contexts[m][r] \in Contexts
        BY <4>2 DEF MapTyped
      <4>4. \A r \in DOMAIN contexts[m] : contexts'[m][r] \in Contexts
        BY <3>2, <4>1, <4>3
      <4> QED
        BY <4>1, <4>2, <4>4 DEF MapTyped
    <3> QED
      BY <3>1, <3>4
  <2> QED
    BY <1>3, <2>1, <2>2 DEF Advance, TypeOK, MapTyped, mgrVars, netVars, bounds
<1>4. CASE UNCHANGED vars
  BY <1>4 DEF vars, TypeOK, hallVars, mgrVars, netVars, machineVars, bounds
<1> QED
  BY <1>1, <1>2, <1>3, <1>4, SessionsTyped, CrashesTyped, HallsTyped, MachineTyped DEF Next

LEMMA InitTyped == Init => TypeOK
<1> SUFFICES ASSUME Init PROVE TypeOK
  OBVIOUS
<1>1. <<>> \in Seq(Messages)
  BY EmptySeq
<1>2. DOMAIN NoContext = {} /\ NoContext \in [DOMAIN NoContext -> Contexts]
  BY DEF NoContext
<1> QED
  BY <1>1, <1>2, TimesAreTyped, BoundsAssumption DEF Init, TypeOK

\* Every variable keeps its type, whatever breaks.
THEOREM RoomServersTypeCorrect == Spec => []TypeOK
<1> QED
  BY InitTyped, NextTyped, PTL DEF Spec

-------------------------------------------------------------------------------
(* The inductive invariant.  A request is one token: it is in one queue or a *)
(* context was made of it, and until then nothing of its room is there       *)
(* (Asked).  A context says as much as the machine may act on (Agrees), so   *)
(* it sends one verdict (Started).  An OK is a token too, and halls uses it  *)
(* up when the room begins to play (Answered).                               *)

ToMgr(msg, p, i)   == p \in Peers /\ Carries(toMgr[p], msg, i)
FromMgr(msg, p, i) == p \in Peers /\ Carries(fromMgr[p], msg, i)

\* msg is on its way.
InAir(msg) == \E p, i : ToMgr(msg, p, i) \/ FromMgr(msg, p, i)

\* msg is on its way once at most.
Once(msg) ==
  /\ \A p, q, i, j : ToMgr(msg, p, i) /\ ToMgr(msg, q, j) => p = q /\ i = j
  /\ \A p, q, i, j : FromMgr(msg, p, i) /\ FromMgr(msg, q, j) => p = q /\ i = j
  /\ \A p, q, i, j : ~(ToMgr(msg, p, i) /\ FromMgr(msg, q, j))

\* No machine knows of the room.
Idle(r) ==
  /\ \A m \in Machines : r \notin DOMAIN contexts[m]
  /\ task[r] = "none" /\ proc[r] = "none" /\ sent[r] = {}

Asked(r) ==
  /\ Once(Msg("request", r))
  /\ InAir(Msg("request", r)) => Idle(r) /\ hallRoom[r] # "filling"
  /\ hallRoom[r] = "filling" => Idle(r)
  /\ \A m, n \in Machines : r \in DOMAIN contexts[m] /\ r \in DOMAIN contexts[n] => m = n

Told == {"reported", "over", "killed", "dead"}

\* A context c and the job, the process and the answers of its room.
Agrees(c, job, process, answers) ==
  /\ c.state = "WaitCreate" =>
       job = "none" /\ process = "none" /\ answers = {} /\ ~c.pid /\ ~c.port
  /\ c.pid => job # "queued"
  /\ c.port => process \in Told
  /\ c.state = "WaitReport" => c.pid
  /\ c.state = "Finished" => ~c.ok
  /\ "ok" \in answers => c.pid /\ c.state \in {"WaitGameOver", "WaitKillGameServer"}
  /\ "fail" \in answers => c.state \in {"Finished", "WaitGameOver", "WaitKillGameServer"}

Sound(job, process, answers) ==
  /\ job = "queued" => process = "none"
  /\ "ok" \in answers => process \in Told
  /\ ~({"ok", "fail"} \subseteq answers)

Started(r) ==
  /\ Sound(task[r], proc[r], sent[r])
  /\ \A m \in Machines : r \in DOMAIN contexts[m] =>
       Agrees(contexts[m][r], task[r], proc[r], sent[r])

Answered(r) ==
  /\ Once(Msg("ok", r))
  /\ InAir(Msg("ok", r)) => "ok" \in sent[r] /\ hallRoom[r] # "playing"
  /\ InAir(Msg("fail", r)) => "fail" \in sent[r]
  /\ hallRoom[r] = "playing" => sent[r] = {"ok"}

Inv == \A r \in RoomIds : Asked(r) /\ Started(r) /\ Answered(r)

-------------------------------------------------------------------------------
(* What is on its way after a step.                                          *)

\* Nothing is put into a queue: some are cleared, or nothing changes.
LEMMA ClearedTransit ==
  ASSUME NEW msg,
         \A p \in Peers : toMgr'[p] = toMgr[p] \/ toMgr'[p] = <<>>,
         \A p \in Peers : fromMgr'[p] = fromMgr[p] \/ fromMgr'[p] = <<>>
  PROVE  /\ InAir(msg)' => InAir(msg)
         /\ Once(msg) => Once(msg)'
<1>1. \A p, i : ToMgr(msg, p, i)' => ToMgr(msg, p, i)
  BY NothingInEmpty DEF ToMgr, Carries
<1>2. \A p, i : FromMgr(msg, p, i)' => FromMgr(msg, p, i)
  BY NothingInEmpty DEF FromMgr, Carries
<1> QED
  BY <1>1, <1>2 DEF InAir, Once

\* Packets s are sent to roommgr by peer q: each once, and none that is there.
LEMMA SentTransit ==
  ASSUME TypeOK, NEW q \in Peers, NEW s \in Seq(Messages),
         \A i, j \in DOMAIN s : s[i] = s[j] => i = j,
         toMgr' = [toMgr EXCEPT ![q] = @ \o s], UNCHANGED fromMgr,
         NEW msg
  PROVE  /\ InAir(msg)' => InAir(msg) \/ \E k \in DOMAIN s : s[k] = msg
         /\ Once(msg) /\ (InAir(msg) => \A k \in DOMAIN s : s[k] # msg) => Once(msg)'
<1>1. toMgr \in [Peers -> Seq(Messages)]
  BY DEF TypeOK
<1>2. Len(toMgr[q]) \in Nat
  BY <1>1, LenProperties
<1>3. toMgr'[q] = toMgr[q] \o s /\ \A p \in Peers \ {q} : toMgr'[p] = toMgr[p]
  BY <1>1
<1>4. \A i : Carries(toMgr'[q], msg, i) =>
        \/ Carries(toMgr[q], msg, i)
        \/ i - Len(toMgr[q]) \in DOMAIN s /\ s[i - Len(toMgr[q])] = msg /\ i \in Int
  BY <1>1, <1>3, ConcatFacts
<1>5. \A p, i : ToMgr(msg, p, i)' =>
        \/ ToMgr(msg, p, i)
        \/ /\ p = q /\ i \in Int
           /\ i - Len(toMgr[q]) \in DOMAIN s /\ s[i - Len(toMgr[q])] = msg
  BY <1>3, <1>4 DEF ToMgr
<1>6. \A p, i : FromMgr(msg, p, i)' <=> FromMgr(msg, p, i)
  BY DEF FromMgr
<1>7. InAir(msg)' => InAir(msg) \/ \E k \in DOMAIN s : s[k] = msg
  BY <1>5, <1>6 DEF InAir
<1>8. ASSUME Once(msg), InAir(msg), \A k \in DOMAIN s : s[k] # msg PROVE Once(msg)'
  BY <1>5, <1>6, <1>8 DEF Once
<1>9. ASSUME ~InAir(msg) PROVE Once(msg)'
  <2>1. \A p, i : ~FromMgr(msg, p, i)'
    BY <1>6, <1>9 DEF InAir
  <2>2. \A p, i : ToMgr(msg, p, i)' =>
          /\ p = q /\ i \in Int
          /\ i - Len(toMgr[q]) \in DOMAIN s /\ s[i - Len(toMgr[q])] = msg
    BY <1>5, <1>9 DEF InAir
  <2>3. \A p, o, i, j : ToMgr(msg, p, i)' /\ ToMgr(msg, o, j)' => p = o /\ i = j
    BY <1>2, <2>2
  <2> QED
    BY <2>1, <2>3 DEF Once
<1> QED
  BY <1>7, <1>8, <1>9

\* roommgr takes a packet of peer p, and may send packet y to peer q.
LEMMA ForwardedTransit ==
  ASSUME TypeOK, NEW p \in Peers, toMgr[p] # <<>>, Take(p), NEW q \in Peers, NEW y \in Messages,
         fromMgr' = fromMgr \/ fromMgr' = [fromMgr EXCEPT ![q] = Append(@, y)],
         NEW msg
  PROVE  /\ InAir(Head(toMgr[p]))
         /\ InAir(msg)' => InAir(msg) \/ msg = y
         /\ Once(msg) /\ (InAir(msg) /\ msg = y => y = Head(toMgr[p])) => Once(msg)'
         /\ Once(msg) /\ msg = Head(toMgr[p]) /\ msg # y => ~InAir(msg)'
<1> DEFINE head == Head(toMgr[p])
<1>1. toMgr \in [Peers -> Seq(Messages)] /\ fromMgr \in [Peers -> Seq(Messages)]
  BY DEF TypeOK
<1>2. /\ ToMgr(head, p, 1)
      /\ \A i : Carries(Tail(toMgr[p]), msg, i) => i \in Nat \ {0} /\ ToMgr(msg, p, i + 1)
  BY <1>1, TailFacts DEF ToMgr
<1>3. toMgr'[p] = Tail(toMgr[p]) /\ \A o \in Peers \ {p} : toMgr'[o] = toMgr[o]
  BY <1>1 DEF Take
<1>4. \A o, i : ToMgr(msg, o, i)' =>
        \/ o # p /\ ToMgr(msg, o, i)
        \/ o = p /\ i \in Nat \ {0} /\ ToMgr(msg, p, i + 1)
  BY <1>2, <1>3 DEF ToMgr
<1>5. \A o, i : FromMgr(msg, o, i)' =>
        FromMgr(msg, o, i) \/ (msg = y /\ o = q /\ i = Len(fromMgr[q]) + 1)
  <2>1. CASE fromMgr' = fromMgr
    BY <2>1 DEF FromMgr
  <2>2. CASE fromMgr' = [fromMgr EXCEPT ![q] = Append(@, y)]
    <3>1. fromMgr'[q] = Append(fromMgr[q], y) /\ \A o \in Peers \ {q} : fromMgr'[o] = fromMgr[o]
      BY <1>1, <2>2
    <3>2. \A i : Carries(fromMgr'[q], msg, i) =>
            Carries(fromMgr[q], msg, i) \/ (msg = y /\ i = Len(fromMgr[q]) + 1)
      BY <1>1, <3>1, AppendFacts
    <3> QED
      BY <3>1, <3>2 DEF FromMgr
  <2> QED
    BY <2>1, <2>2
<1>6. InAir(head)
  BY <1>2 DEF InAir
<1>7. InAir(msg)' => InAir(msg) \/ msg = y
  BY <1>4, <1>5 DEF InAir
<1>8. ASSUME Once(msg), msg = head
      PROVE  (\A o, i : ~ToMgr(msg, o, i)') /\ (\A o, i : ~FromMgr(msg, o, i))
  <2>1. ToMgr(msg, p, 1)
    BY <1>2, <1>8
  <2>2. \A o, i : ToMgr(msg, o, i) => o = p /\ i = 1
    BY <1>8, <2>1 DEF Once
  <2>3. \A o, i : ~ToMgr(msg, o, i)'
    BY <1>4, <2>2
  <2>4. \A o, i : ~FromMgr(msg, o, i)
    BY <1>8, <2>1 DEF Once
  <2> QED
    BY <2>3, <2>4
<1>9. ASSUME Once(msg), msg # y PROVE Once(msg)'
  <2>1. \A o, i : FromMgr(msg, o, i)' => FromMgr(msg, o, i)
    BY <1>5, <1>9
  <2>2. \A o, k, i, j : ToMgr(msg, o, i)' /\ ToMgr(msg, k, j)' => o = k /\ i = j
    <3>1. SUFFICES ASSUME NEW o, NEW k, NEW i, NEW j, ToMgr(msg, o, i)', ToMgr(msg, k, j)'
                   PROVE  o = k /\ i = j
      OBVIOUS
    <3>2. CASE o = p /\ k = p
      BY <1>4, <1>9, <3>1, <3>2 DEF Once
    <3>3. CASE o # p \/ k # p
      BY <1>4, <1>9, <3>1, <3>3 DEF Once
    <3> QED
      BY <3>2, <3>3
  <2>3. \A o, k, i, j : ~(ToMgr(msg, o, i)' /\ FromMgr(msg, k, j)')
    BY <1>4, <1>9, <2>1 DEF Once
  <2> QED
    BY <1>9, <2>1, <2>2, <2>3 DEF Once
<1>10. ASSUME ~InAir(msg), msg = y PROVE Once(msg)'
  <2>1. \A o, i : ~ToMgr(msg, o, i)'
    BY <1>4, <1>10 DEF InAir
  <2>2. \A o, i : FromMgr(msg, o, i)' => o = q /\ i = Len(fromMgr[q]) + 1
    BY <1>5, <1>10 DEF InAir
  <2> QED
    BY <2>1, <2>2 DEF Once
<1>11. ASSUME Once(msg), msg = y, y = head PROVE Once(msg)'
  <2>1. \A o, i : ~ToMgr(msg, o, i)'
    BY <1>8, <1>11
  <2>2. \A o, i : FromMgr(msg, o, i)' => o = q /\ i = Len(fromMgr[q]) + 1
    BY <1>5, <1>8, <1>11
  <2> QED
    BY <2>1, <2>2 DEF Once
<1>12. Once(msg) /\ msg = head /\ msg # y => ~InAir(msg)'
  BY <1>5, <1>8 DEF InAir
<1> QED
  BY <1>6, <1>7, <1>9, <1>10, <1>11, <1>12

\* Peer p takes a packet from roommgr.
LEMMA ReceivedTransit ==
  ASSUME TypeOK, NEW p \in Peers, fromMgr[p] # <<>>,
         fromMgr' = [fromMgr EXCEPT ![p] = Tail(@)], UNCHANGED toMgr, NEW msg
  PROVE  /\ InAir(Head(fromMgr[p]))
         /\ InAir(msg)' => InAir(msg)
         /\ Once(msg) => Once(msg)'
         /\ Once(msg) /\ msg = Head(fromMgr[p]) => ~InAir(msg)'
<1> DEFINE head == Head(fromMgr[p])
<1>1. fromMgr \in [Peers -> Seq(Messages)]
  BY DEF TypeOK
<1>2. /\ FromMgr(head, p, 1)
      /\ \A i : Carries(Tail(fromMgr[p]), msg, i) => i \in Nat \ {0} /\ FromMgr(msg, p, i + 1)
  BY <1>1, TailFacts DEF FromMgr
<1>3. fromMgr'[p] = Tail(fromMgr[p]) /\ \A o \in Peers \ {p} : fromMgr'[o] = fromMgr[o]
  BY <1>1
<1>4. \A o, i : FromMgr(msg, o, i)' =>
        \/ o # p /\ FromMgr(msg, o, i)
        \/ o = p /\ i \in Nat \ {0} /\ FromMgr(msg, p, i + 1)
  BY <1>2, <1>3 DEF FromMgr
<1>5. \A o, i : ToMgr(msg, o, i)' <=> ToMgr(msg, o, i)
  BY DEF ToMgr
<1>6. InAir(head)
  BY <1>2 DEF InAir
<1>7. InAir(msg)' => InAir(msg)
  BY <1>4, <1>5 DEF InAir
<1>8. ASSUME Once(msg) PROVE Once(msg)'
  <2>1. \A o, k, i, j : FromMgr(msg, o, i)' /\ FromMgr(msg, k, j)' => o = k /\ i = j
    <3>1. SUFFICES ASSUME NEW o, NEW k, NEW i, NEW j, FromMgr(msg, o, i)', FromMgr(msg, k, j)'
                   PROVE  o = k /\ i = j
      OBVIOUS
    <3>2. CASE o = p /\ k = p
      BY <1>4, <1>8, <3>1, <3>2 DEF Once
    <3>3. CASE o # p \/ k # p
      BY <1>4, <1>8, <3>1, <3>3 DEF Once
    <3> QED
      BY <3>2, <3>3
  <2>2. \A o, k, i, j : ~(ToMgr(msg, o, i)' /\ FromMgr(msg, k, j)')
    BY <1>4, <1>5, <1>8 DEF Once
  <2> QED
    BY <1>5, <1>8, <2>1, <2>2 DEF Once
<1>9. ASSUME Once(msg), msg = head PROVE ~InAir(msg)'
  <2>1. FromMgr(msg, p, 1)
    BY <1>2, <1>9
  <2>2. \A o, i : FromMgr(msg, o, i) => o = p /\ i = 1
    BY <1>9, <2>1 DEF Once
  <2>3. \A o, i : ~FromMgr(msg, o, i)'
    BY <1>4, <2>2
  <2>4. \A o, i : ~ToMgr(msg, o, i)'
    BY <1>5, <1>9, <2>1 DEF Once
  <2> QED
    BY <2>3, <2>4 DEF InAir
<1> QED
  BY <1>6, <1>7, <1>8, <1>9

-------------------------------------------------------------------------------
(* The invariant is kept.                                                    *)

\* A step puts no copy of msg on its way.
Calm(msg) == (InAir(msg)' => InAir(msg)) /\ (Once(msg) => Once(msg)')

Tracked(r) == {Msg("request", r), Msg("ok", r), Msg("fail", r)}

\* Packets move or are lost, and nothing else changes.
LEMMA MovesKeepInv ==
  ASSUME Inv, UNCHANGED <<hallRoom, contexts, task, proc, sent>>,
         \A r \in RoomIds : \A msg \in Tracked(r) : Calm(msg)
  PROVE  Inv'
<1> SUFFICES ASSUME NEW r \in RoomIds PROVE Asked(r)' /\ Started(r)' /\ Answered(r)'
  BY DEF Inv
<1>1. Asked(r) /\ Started(r) /\ Answered(r)
  BY DEF Inv
<1>2. Calm(Msg("request", r)) /\ Calm(Msg("ok", r)) /\ Calm(Msg("fail", r))
  BY DEF Tracked
<1>3. Asked(r)'
  BY <1>1, <1>2 DEF Asked, Idle, Calm
<1>4. Started(r)'
  BY <1>1 DEF Started
<1>5. Answered(r)'
  BY <1>1, <1>2 DEF Answered, Calm
<1> QED
  BY <1>3, <1>4, <1>5

\* Sending one packet that is not of the tracked kinds, or not on its way.
LEMMA OneSent ==
  ASSUME TypeOK, NEW q \in Peers, NEW x \in Messages,
         toMgr' = [toMgr EXCEPT ![q] = Append(@, x)], UNCHANGED fromMgr,
         NEW msg
  PROVE  /\ InAir(msg)' => InAir(msg) \/ msg = x
         /\ Once(msg) /\ (InAir(msg) => msg # x) => Once(msg)'
<1>1. toMgr[q] \in Seq(Messages)
  BY DEF TypeOK
<1>2. <<x>> \in Seq(Messages) /\ DOMAIN <<x>> = 1..1 /\ <<x>>[1] = x
  OBVIOUS
<1>3. Append(toMgr[q], x) = toMgr[q] \o <<x>>
  BY <1>1
<1>4. toMgr' = [toMgr EXCEPT ![q] = @ \o <<x>>]
  BY <1>3
<1>5. \A i, j \in DOMAIN <<x>> : <<x>>[i] = <<x>>[j] => i = j
  BY <1>2
<1>6. \A k \in DOMAIN <<x>> : <<x>>[k] = x
  BY <1>2
<1> DEFINE s == <<x>>
<1>7. s \in Seq(Messages) /\ toMgr' = [toMgr EXCEPT ![q] = @ \o s]
      /\ (\A i, j \in DOMAIN s : s[i] = s[j] => i = j) /\ (\A k \in DOMAIN s : s[k] = x)
  BY <1>2, <1>4, <1>5, <1>6
<1> HIDE DEF s
<1> QED
  BY <1>7, SentTransit

\* The kinds of tracked packets, and that records with these fields are they.
LEMMA TrackedFacts ==
  ASSUME NEW r, NEW msg \in Tracked(r)
  PROVE  msg.kind \in {"request", "ok", "fail"} /\ msg.room = r
BY DEF Tracked, Msg

LEMMA MsgIsRecord ==
  ASSUME NEW msg \in Messages
  PROVE  msg = Msg(msg.kind, msg.room)
BY DEF Messages, Msg

\* Connections come and go: only a Hello is put on its way.
LEMMA SessionsCalm ==
  ASSUME TypeOK, NEW p \in Peers,
         connectServer(p) \/ SendHello(p) \/ ConnectionBreaks(p) \/ onSessionHello(p),
         NEW msg, msg.kind # "hello"
  PROVE  Calm(msg)
<1>2. CASE connectServer(p)
  BY <1>2, ClearedTransit DEF connectServer, Calm
<1>3. CASE SendHello(p)
  <2> DEFINE x == Msg("hello", NoRoom)
  <2>1. x \in Messages /\ x.kind = "hello"
    BY DEF Msg, Messages
  <2>2. toMgr' = [toMgr EXCEPT ![p] = Append(@, x)] /\ UNCHANGED fromMgr
    BY <1>3 DEF SendHello
  <2>3. msg # x
    BY <2>1
  <2> HIDE DEF x
  <2> QED
    BY <2>1, <2>2, <2>3, OneSent DEF Calm
<1>4. CASE ConnectionBreaks(p)
  <2>1. \A o \in Peers : /\ toMgr'[o] = toMgr[o] \/ toMgr'[o] = <<>>
                         /\ fromMgr'[o] = fromMgr[o] \/ fromMgr'[o] = <<>>
    BY <1>4 DEF ConnectionBreaks, Disconnect
  <2> QED
    BY <2>1, ClearedTransit DEF Calm
<1>5. CASE onSessionHello(p)
  <2>1. toMgr[p] # <<>> /\ Take(p) /\ fromMgr' = fromMgr
    BY <1>5 DEF onSessionHello, Comes
  <2> DEFINE y == Msg("hello", NoRoom)
  <2>2. y \in Messages /\ msg # y
    BY DEF Msg, Messages
  <2> HIDE DEF y
  <2> QED
    BY <2>1, <2>2, ForwardedTransit DEF Calm
<1> QED
  BY <1>2, <1>3, <1>4, <1>5

LEMMA SessionsKeepInv ==
  ASSUME TypeOK, Inv, NEW p \in Peers,
         connectServer(p) \/ SendHello(p) \/ ConnectionBreaks(p) \/ onSessionHello(p)
  PROVE  Inv'
<1>1. UNCHANGED <<hallRoom, contexts, task, proc, sent>>
  BY DEF connectServer, SendHello, ConnectionBreaks, onSessionHello, hallVars, machineVars
<1>2. \A r \in RoomIds : \A msg \in Tracked(r) : Calm(msg)
  BY SessionsCalm, TrackedFacts
<1> QED
  BY <1>1, <1>2, MovesKeepInv

\* roommgr forwards packets as they came, and says `refused' itself.
LEMMA RoommgrCalm ==
  ASSUME TypeOK,
         \/ onSessionRequestCreateRoom \/ RoommgrCrashes
         \/ \E m \in Machines : onSessionRequestCreateRoomCB(m) \/ onSessionRoomSrvGameOverReport(m),
         NEW msg, msg.kind # "refused"
  PROVE  Calm(msg)
<1>2. Halls \in Peers /\ Machines \subseteq Peers
  BY DEF Peers
<1>3. Msg("refused", NoRoom) \in Messages
  BY DEF Msg, Messages
<1>4. msg # Msg("refused", NoRoom)
  BY DEF Msg
<1>5. ASSUME Disconnect(Peers) PROVE Calm(msg)
  BY <1>5, ClearedTransit DEF Disconnect, Calm
\* A packet that is forwarded as it came, or answered with `refused'.
<1>6. ASSUME NEW p \in Peers, toMgr[p] # <<>>, Take(p), NEW q \in Peers,
             \/ fromMgr' = fromMgr
             \/ fromMgr' = [fromMgr EXCEPT ![q] = Append(@, Head(toMgr[p]))]
             \/ fromMgr' = [fromMgr EXCEPT ![q] = Append(@, Msg("refused", NoRoom))]
      PROVE  Calm(msg)
  <2>1. Head(toMgr[p]) \in Messages
    BY <1>6, TakeTyped
  <2>2. CASE fromMgr' = fromMgr \/ fromMgr' = [fromMgr EXCEPT ![q] = Append(@, Head(toMgr[p]))]
    <3>1. /\ InAir(Head(toMgr[p]))
          /\ InAir(msg)' => InAir(msg) \/ msg = Head(toMgr[p])
          /\ Once(msg) => Once(msg)'
      BY <1>6, <2>1, <2>2, ForwardedTransit
    <3> QED
      BY <3>1 DEF Calm
  <2>3. CASE fromMgr' = [fromMgr EXCEPT ![q] = Append(@, Msg("refused", NoRoom))]
    <3>1. /\ InAir(msg)' => InAir(msg) \/ msg = Msg("refused", NoRoom)
          /\ Once(msg) /\ (InAir(msg) /\ msg = Msg("refused", NoRoom)
                             => Msg("refused", NoRoom) = Head(toMgr[p])) => Once(msg)'
      BY <1>3, <1>6, <2>3, ForwardedTransit
    <3> QED
      BY <1>4, <3>1 DEF Calm
  <2> QED
    BY <1>6, <2>2, <2>3
<1>7. CASE RoommgrCrashes
  BY <1>5, <1>7 DEF RoommgrCrashes
<1>8. CASE onSessionRequestCreateRoom
  <2> DEFINE head == Head(toMgr[Halls])
  <2>1. toMgr[Halls] # <<>> /\ head.kind = "request" /\ Take(Halls)
    BY <1>8 DEF onSessionRequestCreateRoom, Comes
  <2>2. head = Msg("request", head.room)
    BY <1>2, <2>1, TakeTyped, MsgIsRecord
  <2>3. \/ fromMgr' = [fromMgr EXCEPT ![Halls] = Append(@, Msg("refused", NoRoom))]
        \/ \E m \in Machines : fromMgr' = [fromMgr EXCEPT ![m] = Append(@, head)]
    BY <1>8, <2>2 DEF onSessionRequestCreateRoom, findBestMachines
  <2> HIDE DEF head
  <2> QED
    BY <1>2, <1>6, <2>1, <2>3 DEF head
<1>9. ASSUME NEW m \in Machines, onSessionRequestCreateRoomCB(m) PROVE Calm(msg)
  BY <1>2, <1>6, <1>9 DEF onSessionRequestCreateRoomCB, Comes
<1>10. ASSUME NEW m \in Machines, onSessionRoomSrvGameOverReport(m) PROVE Calm(msg)
  BY <1>2, <1>5, <1>6, <1>10 DEF onSessionRoomSrvGameOverReport, Comes
<1> QED
  BY <1>7, <1>8, <1>9, <1>10

LEMMA RoommgrKeepsInv ==
  ASSUME TypeOK, Inv,
         \/ onSessionRequestCreateRoom \/ RoommgrCrashes
         \/ \E m \in Machines : onSessionRequestCreateRoomCB(m) \/ onSessionRoomSrvGameOverReport(m)
  PROVE  Inv'
<1>1. UNCHANGED <<hallRoom, contexts, task, proc, sent>>
  BY DEF onSessionRequestCreateRoom, RoommgrCrashes, onSessionRequestCreateRoomCB,
         onSessionRoomSrvGameOverReport, hallVars, machineVars
<1>2. \A r \in RoomIds : \A msg \in Tracked(r) : Calm(msg)
  BY RoommgrCalm, TrackedFacts
<1> QED
  BY <1>1, <1>2, MovesKeepInv

LEMMA MsgsDiffer ==
  ASSUME NEW k, NEW l, NEW r, NEW q, Msg(k, r) = Msg(l, q)
  PROVE  k = l /\ r = q
BY DEF Msg

\* Asking takes the room out of "filling", the only state it asks in.
LEMMA CreateKeepsInv ==
  ASSUME TypeOK, Inv, NEW q \in RoomIds, createRoomServer(q)
  PROVE  Inv'
<1>1. /\ UNCHANGED <<contexts, task, proc, sent, fromMgr>>
      /\ hallRoom[q] = "filling"
      /\ \/ hallRoom' = [hallRoom EXCEPT ![q] = "gone"] /\ toMgr' = toMgr
         \/ /\ hallRoom' = [hallRoom EXCEPT ![q] = "creating"]
            /\ toMgr' = [toMgr EXCEPT ![Halls] = Append(@, Msg("request", q))]
  BY DEF createRoomServer, machineVars
<1>2. Asked(q) /\ ~InAir(Msg("request", q)) /\ Idle(q)
  BY <1>1 DEF Inv, Asked
<1>3. Msg("request", q) \in Messages /\ Halls \in Peers
  BY DEF Msg, Messages, Peers
<1>4. \A msg : /\ InAir(msg)' => InAir(msg) \/ msg = Msg("request", q)
               /\ Once(msg) => Once(msg)'
  <2> SUFFICES ASSUME NEW msg
               PROVE  /\ InAir(msg)' => InAir(msg) \/ msg = Msg("request", q)
                      /\ Once(msg) => Once(msg)'
    OBVIOUS
  <2>1. CASE toMgr' = toMgr
    BY <1>1, <2>1, ClearedTransit
  <2>2. CASE toMgr' = [toMgr EXCEPT ![Halls] = Append(@, Msg("request", q))]
    BY <1>1, <1>2, <1>3, <2>2, OneSent
  <2> QED
    BY <1>1, <2>1, <2>2
<1> SUFFICES ASSUME NEW r \in RoomIds PROVE Asked(r)' /\ Started(r)' /\ Answered(r)'
  BY DEF Inv
<1>5. Asked(r) /\ Started(r) /\ Answered(r)
  BY DEF Inv
<1>6. hallRoom'[r] = hallRoom[r] \/ (r = q /\ hallRoom'[r] \in {"gone", "creating"})
  BY <1>1 DEF TypeOK
<1>7. Asked(r)'
  <2>1. Once(Msg("request", r))'
    BY <1>4, <1>5 DEF Asked
  <2>2. InAir(Msg("request", r))' => InAir(Msg("request", r)) \/ r = q
    BY <1>4, MsgsDiffer
  <2>3. InAir(Msg("request", r))' => Idle(r)' /\ hallRoom'[r] # "filling"
    <3>1. CASE r = q
      <4>1. hallRoom'[r] \in {"gone", "creating"}
        BY <1>1, <3>1 DEF TypeOK
      <4> QED
        BY <1>1, <1>2, <3>1, <4>1 DEF Idle
    <3>2. CASE r # q
      BY <1>1, <1>5, <1>6, <2>2, <3>2 DEF Asked, Idle
    <3> QED
      BY <3>1, <3>2
  <2> QED
    BY <1>1, <1>5, <1>6, <2>1, <2>3 DEF Asked, Idle
<1>8. Started(r)'
  BY <1>1, <1>5 DEF Started
<1>9. Answered(r)'
  <2>1. /\ InAir(Msg("ok", r))' => InAir(Msg("ok", r))
        /\ InAir(Msg("fail", r))' => InAir(Msg("fail", r))
    BY <1>4, MsgsDiffer
  <2> QED
    BY <1>1, <1>4, <1>5, <1>6, <2>1 DEF Answered
<1> QED
  BY <1>7, <1>8, <1>9

\* The OK that makes a room play is used up: no other is on its way.
LEMMA AnswerKeepsInv ==
  ASSUME TypeOK, Inv, onCreateRoomServerCB
  PROVE  Inv'
<1> DEFINE head == Head(fromMgr[Halls])
<1>1. /\ fromMgr[Halls] # <<>> /\ fromMgr' = [fromMgr EXCEPT ![Halls] = Tail(@)]
      /\ UNCHANGED <<toMgr, contexts, task, proc, sent>> /\ Halls \in Peers
  BY DEF onCreateRoomServerCB, machineVars, Peers
<1>2. head \in Messages /\ head = Msg(head.kind, head.room)
  BY <1>1, TakeTyped, MsgIsRecord
<1>3. InAir(head)
  BY <1>1, ReceivedTransit
<1>4. \A msg : /\ InAir(msg)' => InAir(msg)
               /\ Once(msg) => Once(msg)'
               /\ Once(msg) /\ msg = head => ~InAir(msg)'
  BY <1>1, ReceivedTransit
<1>5. \/ hallRoom' = hallRoom
      \/ /\ head.kind = "ok" /\ hallRoom[head.room] # "gone"
         /\ hallRoom' = [hallRoom EXCEPT ![head.room] = "playing"]
      \/ /\ head.kind = "fail" /\ hallRoom[head.room] # "gone"
         /\ hallRoom' = [hallRoom EXCEPT ![head.room] = "gone"]
  BY DEF onCreateRoomServerCB, hallVars
<1> SUFFICES ASSUME NEW r \in RoomIds PROVE Asked(r)' /\ Started(r)' /\ Answered(r)'
  BY DEF Inv
<1>6. Asked(r) /\ Started(r) /\ Answered(r)
  BY DEF Inv
<1>7. \/ hallRoom'[r] = hallRoom[r]
      \/ head = Msg("ok", r) /\ hallRoom'[r] = "playing"
      \/ hallRoom'[r] = "gone"
  <2> HIDE DEF head
  <2> QED
    BY <1>2, <1>5 DEF TypeOK
<1>8. Asked(r)'
  <2>1. hallRoom'[r] = "filling" => hallRoom[r] = "filling"
    BY <1>7
  <2>2. hallRoom'[r] = "filling" => Idle(r)'
    BY <1>1, <1>6, <2>1 DEF Asked, Idle
  <2>3. InAir(Msg("request", r))' => Idle(r)' /\ hallRoom'[r] # "filling"
    BY <1>1, <1>4, <1>6, <2>1 DEF Asked, Idle
  <2> QED
    BY <1>1, <1>4, <1>6, <2>2, <2>3 DEF Asked
<1>9. Started(r)'
  BY <1>1, <1>6 DEF Started
<1>10. Answered(r)'
  <2>1. CASE head = Msg("ok", r) /\ hallRoom'[r] = "playing"
    <3>1. "ok" \in sent[r] /\ ~InAir(Msg("ok", r))'
      BY <1>3, <1>4, <1>6, <2>1 DEF Answered
    <3>2. sent[r] = {"ok"}
      BY <1>6, <3>1 DEF Started, Sound, TypeOK
    <3> QED
      BY <1>1, <1>4, <1>6, <3>1, <3>2 DEF Answered
  <2>2. CASE hallRoom'[r] = "gone" \/ hallRoom'[r] = hallRoom[r]
    BY <1>1, <1>4, <1>6, <2>2 DEF Answered
  <2> QED
    BY <1>7, <2>1, <2>2
<1> QED
  BY <1>8, <1>9, <1>10

LEMMA RoomTickKeepsInv ==
  ASSUME TypeOK, Inv, NEW q \in RoomIds, RoomTick(q)
  PROVE  Inv'
<1>1. /\ UNCHANGED <<toMgr, fromMgr, contexts, task, proc, sent>>
      /\ hallRoom[q] # "filling" /\ hallRoom' = [hallRoom EXCEPT ![q] = "gone"]
  BY DEF RoomTick, GameTimeout, machineVars, netVars
<1> SUFFICES ASSUME NEW r \in RoomIds PROVE Asked(r)' /\ Started(r)' /\ Answered(r)'
  BY DEF Inv
<1>2. Asked(r) /\ Started(r) /\ Answered(r)
  BY DEF Inv
<1>3. hallRoom'[r] = hallRoom[r] \/ hallRoom'[r] = "gone"
  BY <1>1 DEF TypeOK
<1>4. \A msg : (InAir(msg)' => InAir(msg)) /\ (Once(msg) => Once(msg)')
  BY <1>1, ClearedTransit
<1>5. Asked(r)'
  BY <1>1, <1>2, <1>3, <1>4 DEF Asked, Idle
<1>6. Started(r)'
  BY <1>1, <1>2 DEF Started
<1>7. Answered(r)'
  BY <1>1, <1>2, <1>3, <1>4 DEF Answered
<1> QED
  BY <1>5, <1>6, <1>7

\* onTick erases the context.
Dropped(c, r) == CreateTimeout(c, r) \/ KillDue(c)

\* One context under a tick: what is answered and what becomes of it.
LEMMA TickedContext ==
  ASSUME NEW c \in Contexts, NEW r, NEW process, NEW answers \in SUBSET {"ok", "fail"},
         Agrees(c, task[r], process, answers), Sound(task[r], process, answers),
         NEW job, job = IF c.state = "WaitCreate" THEN "queued" ELSE task[r],
         NEW next, next = IF c.pid /\ KillDue(c)
                            THEN IF process = "reported" THEN "killed" ELSE "dead"
                            ELSE process,
         NEW said, said = answers \/ said = answers \cup Answer(c, r)
  PROVE  /\ Sound(job, next, said)
         /\ ~Dropped(c, r) => Agrees(NextContext(c, r), job, next, said)
         /\ "ok" \in answers => Answer(c, r) = {}
<1>1. /\ c = [state |-> c.state, ok |-> c.ok, port |-> c.port, pid |-> c.pid, age |-> c.age]
      /\ c.state \in ContextStates /\ c.ok \in BOOLEAN /\ c.port \in BOOLEAN /\ c.pid \in BOOLEAN
  BY DEF Contexts
<1>2. CASE c.state = "WaitCreate"
  <2>1. /\ Answer(c, r) = {} /\ NextContext(c, r) = [c EXCEPT !.state = "Creating"]
        /\ ~Dropped(c, r) /\ job = "queued" /\ next = process /\ said = answers
    BY <1>2 DEF Answer, NextContext, CreateTimeout, KillDue, Dropped
  <2>2. process = "none" /\ answers = {} /\ ~c.pid /\ ~c.port
    BY <1>2 DEF Agrees
  <2>3. Sound(job, next, said)
    BY <2>1, <2>2 DEF Sound
  <2>4. Agrees(NextContext(c, r), job, next, said)
    BY <1>1, <2>1, <2>2 DEF Agrees
  <2> QED
    BY <2>1, <2>3, <2>4
<1>3. CASE c.state = "Creating"
  <2>1. /\ answers = {} /\ ~KillDue(c) /\ job = task[r] /\ next = process
        /\ "ok" \notin Answer(c, r)
    BY <1>3 DEF Agrees, KillDue, Answer, CreateTimeout
  <2>2. Sound(job, next, said)
    BY <2>1 DEF Sound
  <2>3. ASSUME ~Dropped(c, r) PROVE Agrees(NextContext(c, r), job, next, said)
    <3>1. CASE task[r] = "ok"
      <4>1. /\ NextContext(c, r) =
                 [c EXCEPT !.state = "WaitReport", !.ok = TRUE, !.port = FALSE, !.pid = TRUE]
            /\ Answer(c, r) = {}
        BY <1>3, <2>3, <3>1 DEF NextContext, Answer, Dropped
      <4> QED
        BY <1>1, <2>1, <3>1, <4>1 DEF Agrees
    <3>2. CASE task[r] = "failed"
      <4>1. NextContext(c, r) =
              [c EXCEPT !.state = "Finished", !.ok = FALSE, !.port = FALSE, !.pid = FALSE]
        BY <1>3, <3>2 DEF NextContext
      <4> QED
        BY <1>1, <2>1, <4>1 DEF Agrees
    <3>3. CASE task[r] \notin {"ok", "failed"}
      <4>1. NextContext(c, r) = c /\ Answer(c, r) = {}
        BY <1>3, <2>3, <3>3 DEF NextContext, Answer, Dropped
      <4> QED
        BY <2>1, <4>1 DEF Agrees
    <3> QED
      BY <3>1, <3>2, <3>3
  <2> QED
    BY <2>1, <2>2, <2>3
<1>4. CASE c.state = "WaitReport"
  <2>1. /\ answers = {} /\ c.pid /\ ~KillDue(c) /\ job = task[r] /\ next = process
    BY <1>4 DEF Agrees, KillDue
  <2>2. CASE Dropped(c, r)
    <3>1. CreateTimeout(c, r)
      BY <2>1, <2>2 DEF Dropped
    <3>2. Answer(c, r) = {"fail"}
      BY <1>4, <3>1 DEF Answer, CreateTimeout
    <3> QED
      BY <2>1, <2>2, <3>2 DEF Sound
  <2>3. CASE ~Dropped(c, r) /\ c.port
    <3>1. Answer(c, r) = {"ok"} /\ NextContext(c, r) = [c EXCEPT !.state = "WaitGameOver"]
      BY <1>4, <2>3 DEF Answer, NextContext, CreateTimeout, Dropped
    <3>2. process \in Told
      BY <2>3 DEF Agrees
    <3>3. Sound(job, next, said)
      BY <2>1, <3>1, <3>2 DEF Sound
    <3>4. Agrees(NextContext(c, r), job, next, said)
      BY <1>1, <2>1, <3>1, <3>2 DEF Agrees
    <3> QED
      BY <2>1, <3>3, <3>4
  <2>4. CASE ~Dropped(c, r) /\ ~c.port
    <3>1. Answer(c, r) = {} /\ NextContext(c, r) = c
      BY <1>4, <2>4 DEF Answer, NextContext, Dropped
    <3> QED
      BY <2>1, <3>1
  <2> QED
    BY <2>2, <2>3, <2>4
<1>5. CASE c.state = "Finished"
  <2>1. /\ "ok" \notin answers /\ Answer(c, r) = {"fail"} /\ ~Dropped(c, r)
        /\ NextContext(c, r) = [c EXCEPT !.state = "WaitGameOver"]
        /\ job = task[r] /\ next = process
    BY <1>5 DEF Agrees, Answer, NextContext, CreateTimeout, KillDue, Dropped
  <2>2. Sound(job, next, said)
    BY <2>1 DEF Sound
  <2>3. Agrees(NextContext(c, r), job, next, said)
    BY <1>1, <1>5, <2>1 DEF Agrees
  <2> QED
    BY <2>1, <2>2, <2>3
<1>6. CASE c.state \in {"WaitGameOver", "WaitKillGameServer"}
  <2>1. /\ Answer(c, r) = {} /\ NextContext(c, r) = c /\ job = task[r] /\ said = answers
    BY <1>6 DEF Answer, NextContext, CreateTimeout
  <2>2. CASE next = process
    BY <2>1, <2>2
  <2>3. CASE c.pid /\ next \in {"killed", "dead"}
    <3>1. job # "queued"
      BY <2>1, <2>3 DEF Agrees
    <3> QED
      BY <2>1, <2>3, <3>1 DEF Sound, Told, Dropped
  <2> QED
    BY <2>2, <2>3
<1> QED
  BY <1>1, <1>2, <1>3, <1>4, <1>5, <1>6 DEF ContextStates

\* A tick of machine m, whose contexts and processes are cs and prs.
LEMMA TickKeepsInv ==
  ASSUME TypeOK, Inv, NEW m \in Machines, NEW cs, MapTyped(cs), NEW prs,
         DOMAIN cs = DOMAIN contexts[m],
         \A r \in RoomIds \ DOMAIN cs : prs[r] = proc[r],
         \A r \in RoomIds : Sound(task[r], prs[r], sent[r]),
         \A r \in DOMAIN cs : Agrees(cs[r], task[r], prs[r], sent[r]),
         Tick(m, cs, prs), UNCHANGED <<hallRoom, fromMgr>>
  PROVE  Inv'
<1> DEFINE gone    == {r \in DOMAIN cs : CreateTimeout(cs[r], r) \/ KillDue(cs[r])}
           killed  == {r \in gone : cs[r].pid /\ KillDue(cs[r])}
           begun   == {r \in DOMAIN cs : cs[r].state = "WaitCreate"}
           answers == {msg \in [kind : {"ok", "fail"}, room : DOMAIN cs] :
                         msg.kind \in Answer(cs[msg.room], msg.room)}
           next    == [r \in DOMAIN cs \ gone |-> NextContext(cs[r], r)]
           said(r) == {msg.kind : msg \in {a \in answers : a.room = r}}
<1>1. /\ contexts' = [contexts EXCEPT ![m] = next]
      /\ task' = [r \in RoomIds |-> IF r \in begun THEN "queued" ELSE task[r]]
      /\ proc' = [r \in RoomIds |->
           IF r \in killed THEN IF prs[r] = "reported" THEN "killed" ELSE "dead" ELSE prs[r]]
      /\ \/ link[m] = "down" /\ UNCHANGED <<toMgr, sent>>
         \/ /\ link[m] # "down"
            /\ \E s \in SetToSeqs(answers) : toMgr' = [toMgr EXCEPT ![m] = @ \o s]
            /\ sent' = [r \in RoomIds |-> sent[r] \cup said(r)]
  BY DEF Tick
<1>2. /\ contexts'[m] = next
      /\ \A n \in Machines \ {m} : contexts'[n] = contexts[n]
      /\ DOMAIN next = DOMAIN cs \ gone
      /\ \A r \in DOMAIN cs \ gone : next[r] = NextContext(cs[r], r)
  BY <1>1 DEF TypeOK
<1>3. answers \in SUBSET Messages /\ IsFiniteSet(answers)
  BY AnswersTyped DEF MapTyped
<1>4. /\ \A msg \in answers : msg = Msg(msg.kind, msg.room)
      /\ \A r : Msg("request", r) \notin answers
      /\ \A r, k : Msg(k, r) \in answers => r \in DOMAIN cs /\ k \in Answer(cs[r], r)
  BY DEF Msg
<1>5. \A r : r \notin DOMAIN cs => said(r) = {}
  OBVIOUS
<1>6. \A r \in DOMAIN cs : said(r) = Answer(cs[r], r)
  <2> SUFFICES ASSUME NEW r \in DOMAIN cs PROVE said(r) = Answer(cs[r], r)
    OBVIOUS
  <2>1. Answer(cs[r], r) \subseteq {"ok", "fail"}
    BY DEF Answer
  <2>2. ASSUME NEW k \in Answer(cs[r], r) PROVE k \in said(r)
    <3>1. Msg(k, r) \in answers /\ Msg(k, r).room = r /\ Msg(k, r).kind = k
      BY <2>1 DEF Msg
    <3> QED
      BY <3>1
  <2>3. ASSUME NEW k \in said(r) PROVE k \in Answer(cs[r], r)
    OBVIOUS
  <2> QED
    BY <2>2, <2>3
<1>7. \A msg : /\ InAir(msg)' => InAir(msg) \/ (msg \in answers /\ link[m] # "down")
               /\ Once(msg) /\ (InAir(msg) => msg \notin answers) => Once(msg)'
  <2> SUFFICES ASSUME NEW msg
               PROVE  /\ InAir(msg)' => InAir(msg) \/ (msg \in answers /\ link[m] # "down")
                      /\ Once(msg) /\ (InAir(msg) => msg \notin answers) => Once(msg)'
    OBVIOUS
  <2>1. CASE link[m] = "down"
    BY <1>1, <2>1, ClearedTransit
  <2>2. CASE link[m] # "down"
    <3>1. PICK s \in SetToSeqs(answers) : toMgr' = [toMgr EXCEPT ![m] = @ \o s]
      BY <1>1, <2>2
    <3>2. /\ s \in Seq(Messages) /\ \A i \in DOMAIN s : s[i] \in answers
          /\ \A i, j \in DOMAIN s : s[i] = s[j] => i = j
      BY <1>3, AnswersAreSent
    <3>3. m \in Peers
      BY DEF Peers
    <3> HIDE DEF answers
    <3>4. /\ InAir(msg)' => InAir(msg) \/ \E k \in DOMAIN s : s[k] = msg
          /\ Once(msg) /\ (InAir(msg) => \A k \in DOMAIN s : s[k] # msg) => Once(msg)'
      BY <3>1, <3>2, <3>3, SentTransit
    <3> QED
      BY <2>2, <3>2, <3>4
  <2> QED
    BY <2>1, <2>2
<1> SUFFICES ASSUME NEW r \in RoomIds PROVE Asked(r)' /\ Started(r)' /\ Answered(r)'
  BY DEF Inv
<1>8. Asked(r) /\ Started(r) /\ Answered(r)
  BY DEF Inv
<1>9. \A n \in Machines : r \in DOMAIN contexts'[n] => r \in DOMAIN contexts[n]
  BY <1>2
\* Rooms that are not of this machine.
<1>10. ASSUME r \notin DOMAIN cs
       PROVE  /\ task'[r] = task[r] /\ proc'[r] = proc[r] /\ sent'[r] = sent[r]
              /\ \A n \in Machines : r \in DOMAIN contexts'[n] => contexts'[n][r] = contexts[n][r]
              /\ \A k : InAir(Msg(k, r))' => InAir(Msg(k, r))
              /\ \A k : Once(Msg(k, r)) => Once(Msg(k, r))'
  <2>1. task'[r] = task[r] /\ proc'[r] = proc[r]
    BY <1>1, <1>10
  <2>2. sent'[r] = sent[r]
    <3>1. said(r) = {} /\ sent[r] \cup {} = sent[r]
      BY <1>5, <1>10
    <3> HIDE DEF said
    <3> QED
      BY <1>1, <3>1
  <2>3. \A n \in Machines : r \in DOMAIN contexts'[n] => contexts'[n][r] = contexts[n][r]
    BY <1>2, <1>10
  <2>4. \A k : Msg(k, r) \notin answers
    BY <1>4, <1>10
  <2> HIDE DEF answers
  <2> QED
    BY <1>7, <2>1, <2>2, <2>3, <2>4
<1>11. CASE r \notin DOMAIN cs
  <2>1. Asked(r)'
    BY <1>8, <1>9, <1>10, <1>11 DEF Asked, Idle
  <2>2. Started(r)'
    BY <1>8, <1>9, <1>10, <1>11 DEF Started
  <2>3. Answered(r)'
    BY <1>8, <1>10, <1>11 DEF Answered
  <2> QED
    BY <2>1, <2>2, <2>3
\* Rooms of this machine.
<1>12. CASE r \in DOMAIN cs
  <2>1. /\ cs[r] \in Contexts /\ sent[r] \in SUBSET {"ok", "fail"}
        /\ r \in gone <=> Dropped(cs[r], r)
    BY <1>12 DEF MapTyped, TypeOK, Dropped
  <2>2. /\ task'[r] = IF cs[r].state = "WaitCreate" THEN "queued" ELSE task[r]
        /\ proc'[r] = IF cs[r].pid /\ KillDue(cs[r])
                        THEN IF prs[r] = "reported" THEN "killed" ELSE "dead"
                        ELSE prs[r]
    BY <1>1, <1>12
  <2>3. /\ sent'[r] = sent[r] \/ sent'[r] = sent[r] \cup Answer(cs[r], r)
        /\ link[m] # "down" => sent'[r] = sent[r] \cup Answer(cs[r], r)
    <3> HIDE DEF said
    <3> QED
      BY <1>1, <1>6, <1>12 DEF TypeOK
  <2>4. /\ Sound(task'[r], proc'[r], sent'[r])
        /\ ~Dropped(cs[r], r) => Agrees(NextContext(cs[r], r), task'[r], proc'[r], sent'[r])
        /\ "ok" \in sent[r] => Answer(cs[r], r) = {}
    <3> HIDE DEF gone, killed, begun, answers, next, said
    <3>1. Agrees(cs[r], task[r], prs[r], sent[r]) /\ Sound(task[r], prs[r], sent[r])
      BY <1>12
    <3>2. ASSUME NEW job, job = IF cs[r].state = "WaitCreate" THEN "queued" ELSE task[r],
                 NEW process, process = IF cs[r].pid /\ KillDue(cs[r])
                                          THEN IF prs[r] = "reported" THEN "killed" ELSE "dead"
                                          ELSE prs[r],
                 NEW words, words = sent[r] \/ words = sent[r] \cup Answer(cs[r], r)
          PROVE  /\ Sound(job, process, words)
                 /\ ~Dropped(cs[r], r) => Agrees(NextContext(cs[r], r), job, process, words)
                 /\ "ok" \in sent[r] => Answer(cs[r], r) = {}
      <4> DEFINE c == cs[r]
                 before == prs[r]
                 told == sent[r]
      <4>1. c \in Contexts /\ told \in SUBSET {"ok", "fail"}
        BY <2>1
      <4>2. Agrees(c, task[r], before, told) /\ Sound(task[r], before, told)
        BY <3>1
      <4>3. /\ job = IF c.state = "WaitCreate" THEN "queued" ELSE task[r]
            /\ process = IF c.pid /\ KillDue(c)
                           THEN IF before = "reported" THEN "killed" ELSE "dead"
                           ELSE before
            /\ words = told \/ words = told \cup Answer(c, r)
        BY <3>2
      <4>4. /\ Sound(job, process, words)
            /\ ~Dropped(c, r) => Agrees(NextContext(c, r), job, process, words)
            /\ "ok" \in told => Answer(c, r) = {}
        <5> HIDE DEF c, before, told
        <5> QED
          BY <4>1, <4>2, <4>3, TickedContext
      <4> QED
        BY <4>4
    <3> QED
      BY <2>2, <2>3, <3>2
  <2>5. /\ \A k \in {"ok", "fail"} : InAir(Msg(k, r))' => InAir(Msg(k, r)) \/ k \in sent'[r]
        /\ InAir(Msg("ok", r))' => InAir(Msg("ok", r)) \/ "ok" \notin sent[r]
        /\ InAir(Msg("request", r))' => InAir(Msg("request", r))
        /\ Once(Msg("request", r)) => Once(Msg("request", r))'
        /\ Once(Msg("ok", r)) /\ (InAir(Msg("ok", r)) => "ok" \in sent[r]) => Once(Msg("ok", r))'
    <3> HIDE DEF answers
    <3> QED
      BY <1>4, <1>7, <2>3, <2>4
  <2>6. Asked(r)'
    <3>1. ~InAir(Msg("request", r)) /\ hallRoom[r] # "filling"
      BY <1>8, <1>12 DEF Asked, Idle
    <3> QED
      BY <1>8, <1>9, <2>5, <3>1 DEF Asked
  <2>7. Started(r)'
    <3>1. ASSUME NEW n \in Machines, r \in DOMAIN contexts'[n]
          PROVE  Agrees(contexts'[n][r], task'[r], proc'[r], sent'[r])
      <4>1. n = m
        BY <1>8, <1>9, <1>12, <3>1 DEF Asked
      <4>2. r \notin gone /\ contexts'[n][r] = NextContext(cs[r], r)
        BY <1>2, <3>1, <4>1
      <4> QED
        BY <2>1, <2>4, <4>2
    <3> QED
      BY <2>4, <3>1 DEF Started
  <2>8. Answered(r)'
    <3>1. "ok" \in sent[r] => sent'[r] = sent[r]
      BY <2>3, <2>4
    <3>2. sent[r] \subseteq sent'[r]
      BY <2>3
    <3> QED
      BY <1>8, <2>5, <3>1, <3>2 DEF Answered
  <2> QED
    BY <2>6, <2>7, <2>8
<1> QED
  BY <1>11, <1>12

LEMMA OnTickKeepsInv ==
  ASSUME TypeOK, Inv, NEW m \in Machines, onTick(m)
  PROVE  Inv'
<1> DEFINE cs == contexts[m]
<1>1. Tick(m, cs, proc) /\ UNCHANGED <<hallRoom, fromMgr>>
  BY DEF onTick, hallVars
<1>2. MapTyped(cs)
  BY DEF TypeOK, MapTyped
<1>3. \A r \in RoomIds : Sound(task[r], proc[r], sent[r])
  BY DEF Inv, Started
<1>4. \A r \in DOMAIN cs : Agrees(cs[r], task[r], proc[r], sent[r])
  BY <1>2 DEF Inv, Started, MapTyped
<1>5. DOMAIN cs = DOMAIN contexts[m]
  OBVIOUS
<1> HIDE DEF cs
<1> QED
  BY <1>1, <1>2, <1>3, <1>4, <1>5, TickKeepsInv

\* Contexts and processes change, and no answer is given.
LEMMA SilentKeepsInv ==
  ASSUME Inv, UNCHANGED <<hallRoom, sent>>,
         \A r \in RoomIds : \A msg \in Tracked(r) : Calm(msg),
         \A n \in Machines : DOMAIN contexts'[n] \subseteq DOMAIN contexts[n],
         \A r \in RoomIds : /\ Idle(r) => task'[r] = "none" /\ proc'[r] = "none"
                            /\ Started(r)'
  PROVE  Inv'
<1> SUFFICES ASSUME NEW r \in RoomIds PROVE Asked(r)' /\ Answered(r)'
  BY DEF Inv
<1>1. Asked(r) /\ Answered(r) /\ (Idle(r) => Idle(r)')
  BY DEF Inv, Idle
<1>2. Calm(Msg("request", r)) /\ Calm(Msg("ok", r)) /\ Calm(Msg("fail", r))
  BY DEF Tracked
<1>3. \A n \in Machines : r \in DOMAIN contexts'[n] => r \in DOMAIN contexts[n]
  OBVIOUS
<1>4. Asked(r)'
  BY <1>1, <1>2, <1>3 DEF Asked, Calm
<1>5. Answered(r)'
  BY <1>1, <1>2 DEF Answered, Calm
<1> QED
  BY <1>4, <1>5

LEMMA ProcessKeepsInv ==
  ASSUME TypeOK, Inv, NEW q \in RoomIds, StartProcess(q) \/ GameServerExits(q)
  PROVE  Inv'
<1>1. UNCHANGED <<hallRoom, sent, contexts, toMgr, fromMgr>>
  BY DEF StartProcess, GameServerExits, hallVars, netVars
<1>2. \A msg : Calm(msg)
  BY <1>1, ClearedTransit DEF Calm
<1> SUFFICES ASSUME NEW r \in RoomIds
             PROVE  (Idle(r) => task'[r] = "none" /\ proc'[r] = "none") /\ Started(r)'
  BY <1>1, <1>2, SilentKeepsInv
<1>3. Started(r)
  BY DEF Inv
<1>4. CASE task'[r] = task[r] /\ proc'[r] = proc[r]
  BY <1>1, <1>3, <1>4 DEF Idle, Started
<1>5. CASE StartProcess(q) /\ r = q
  <2>1. /\ task[r] = "queued"
        /\ \/ task'[r] = "ok" /\ proc'[r] = "up"
           \/ task'[r] = "failed" /\ proc'[r] = proc[r]
    BY <1>5 DEF StartProcess, TypeOK
  <2>2. proc[r] = "none"
    BY <1>3, <2>1 DEF Started, Sound
  <2>3. Sound(task'[r], proc'[r], sent[r])
    BY <1>3, <2>1, <2>2 DEF Started, Sound, Told
  <2>4. ASSUME NEW c, Agrees(c, task[r], proc[r], sent[r])
        PROVE  Agrees(c, task'[r], proc'[r], sent[r])
    BY <2>1, <2>2, <2>4 DEF Agrees, Told
  <2> QED
    BY <1>1, <1>3, <2>1, <2>3, <2>4 DEF Idle, Started
<1>6. CASE GameServerExits(q) /\ r = q
  <2>1. task'[r] = task[r] /\ proc[r] \in {"up", "reported", "over"} /\ proc'[r] = "dead"
    BY <1>6 DEF GameServerExits, TypeOK
  <2>2. Sound(task'[r], proc'[r], sent[r])
    BY <1>3, <2>1 DEF Started, Sound, Told
  <2>3. ASSUME NEW c, Agrees(c, task[r], proc[r], sent[r])
        PROVE  Agrees(c, task'[r], proc'[r], sent[r])
    BY <2>1, <2>3 DEF Agrees, Told
  <2> QED
    BY <1>1, <1>3, <2>1, <2>2, <2>3 DEF Idle, Started
<1>7. r # q => task'[r] = task[r] /\ proc'[r] = proc[r]
  BY DEF StartProcess, GameServerExits, TypeOK
<1> QED
  BY <1>4, <1>5, <1>6, <1>7

LEMMA AdvanceKeepsInv ==
  ASSUME TypeOK, Inv, Advance
  PROVE  Inv'
<1>1. /\ UNCHANGED <<hallRoom, sent, task, proc, toMgr, fromMgr>>
      /\ contexts' = [m \in Machines |->
           [r \in DOMAIN contexts[m] |-> [contexts[m][r] EXCEPT !.age = Older(@)]]]
  BY DEF Advance, netVars
<1>2. \A msg : Calm(msg)
  BY <1>1, ClearedTransit DEF Calm
<1>3. \A n \in Machines :
        /\ DOMAIN contexts'[n] = DOMAIN contexts[n]
        /\ \A r \in DOMAIN contexts[n] :
             contexts'[n][r] = [contexts[n][r] EXCEPT !.age = Older(@)]
  BY <1>1
<1> SUFFICES ASSUME NEW r \in RoomIds
             PROVE  (Idle(r) => task'[r] = "none" /\ proc'[r] = "none") /\ Started(r)'
  BY <1>1, <1>2, <1>3, SilentKeepsInv
<1>4. Started(r)
  BY DEF Inv
<1>5. ASSUME NEW n \in Machines, r \in DOMAIN contexts'[n]
      PROVE  Agrees(contexts'[n][r], task[r], proc[r], sent[r])
  <2> DEFINE c == contexts[n][r]
             d == [c EXCEPT !.age = Older(@)]
  <2>1. r \in DOMAIN contexts[n] /\ contexts'[n][r] = d
    BY <1>3, <1>5
  <2>2. c \in Contexts /\ Agrees(c, task[r], proc[r], sent[r])
    BY <1>4, <2>1 DEF Started, TypeOK
  <2>3. d.state = c.state /\ d.ok = c.ok /\ d.port = c.port /\ d.pid = c.pid
    BY <2>2 DEF Contexts
  <2> HIDE DEF c, d
  <2> QED
    BY <2>1, <2>2, <2>3 DEF Agrees
<1> QED
  BY <1>1, <1>4, <1>5 DEF Idle, Started

\* What the machine knew goes; what it started, and said, stays.
LEMMA MachineCrashKeepsInv ==
  ASSUME TypeOK, Inv, NEW m \in Machines, MachineCrashes(m)
  PROVE  Inv'
<1>1. /\ UNCHANGED <<hallRoom, sent, proc>>
      /\ contexts' = [contexts EXCEPT ![m] = NoContext]
      /\ \A r \in RoomIds : task'[r] = task[r] \/ (task[r] = "queued" /\ task'[r] = "none")
  BY DEF MachineCrashes, hallVars
<1>2. \A o \in Peers : /\ toMgr'[o] = toMgr[o] \/ toMgr'[o] = <<>>
                       /\ fromMgr'[o] = fromMgr[o] \/ fromMgr'[o] = <<>>
  BY DEF MachineCrashes, Disconnect
<1>3. \A msg : Calm(msg)
  BY <1>2, ClearedTransit DEF Calm
<1>4. DOMAIN NoContext = {}
  BY DEF NoContext
<1>5. \A n \in Machines : contexts'[n] = contexts[n] \/ DOMAIN contexts'[n] = {}
  BY <1>1, <1>4 DEF TypeOK
<1> SUFFICES ASSUME NEW r \in RoomIds
             PROVE  (Idle(r) => task'[r] = "none" /\ proc'[r] = "none") /\ Started(r)'
  BY <1>1, <1>3, <1>5, SilentKeepsInv
<1>6. Started(r)
  BY DEF Inv
<1>7. Sound(task'[r], proc[r], sent[r])
  BY <1>1, <1>6 DEF Started, Sound
<1>8. ASSUME NEW c, Agrees(c, task[r], proc[r], sent[r])
      PROVE  Agrees(c, task'[r], proc[r], sent[r])
  BY <1>1, <1>8 DEF Agrees
<1>9. \A n \in Machines : r \in DOMAIN contexts'[n] =>
        Agrees(contexts'[n][r], task'[r], proc[r], sent[r])
  BY <1>5, <1>6, <1>8 DEF Started
<1> QED
  BY <1>1, <1>7, <1>9 DEF Idle, Started

\* The game server is there, so its machine may say OK from now on.
LEMMA ReportAddrKeepsInv ==
  ASSUME TypeOK, Inv, NEW m \in Machines, NEW q \in RoomIds, onSessionRoomSrvReportAddr(m, q)
  PROVE  Inv'
<1> DEFINE prs == [proc EXCEPT ![q] = "reported"]
           cs  == [contexts[m] EXCEPT ![q].port = TRUE]
<1>1. proc[q] = "up" /\ UNCHANGED <<hallRoom, fromMgr>>
  BY DEF onSessionRoomSrvReportAddr, hallVars
<1>2. prs[q] = "reported" /\ \A r \in RoomIds \ {q} : prs[r] = proc[r]
  BY DEF TypeOK
<1>3. \A r \in RoomIds : Started(r)
  BY DEF Inv
<1>4. \A r \in RoomIds : Sound(task[r], prs[r], sent[r])
  <2> SUFFICES ASSUME NEW r \in RoomIds PROVE Sound(task[r], prs[r], sent[r])
    OBVIOUS
  <2>1. Sound(task[r], proc[r], sent[r])
    BY <1>3 DEF Started
  <2>2. CASE r = q
    BY <1>1, <1>2, <2>1, <2>2 DEF Sound, Told
  <2> HIDE DEF prs
  <2> QED
    BY <1>2, <2>1, <2>2
<1>5. ASSUME NEW r \in RoomIds, NEW c, Agrees(c, task[r], proc[r], sent[r])
      PROVE  Agrees(c, task[r], prs[r], sent[r])
  <2>1. CASE r = q
    BY <1>1, <1>2, <1>5, <2>1 DEF Agrees, Told
  <2> HIDE DEF prs
  <2> QED
    BY <1>2, <1>5, <2>1
<1>6. CASE q \notin DOMAIN contexts[m]
  <2>1. proc' = prs /\ UNCHANGED <<contexts, task, toMgr, sent>>
    BY <1>6 DEF onSessionRoomSrvReportAddr
  <2>2. \A msg : Calm(msg)
    BY <1>1, <2>1, ClearedTransit DEF Calm
  <2> HIDE DEF prs
  <2>3. \A r \in RoomIds : Started(r)'
    BY <1>3, <1>4, <1>5, <2>1 DEF Started
  <2>4. \A r \in RoomIds : Idle(r) => task'[r] = "none" /\ proc'[r] = "none"
    BY <1>1, <1>2, <2>1 DEF Idle
  <2> QED
    BY <1>1, <2>1, <2>2, <2>3, <2>4, SilentKeepsInv
<1>7. CASE q \in DOMAIN contexts[m]
  <2>1. Tick(m, cs, prs)
    BY <1>7 DEF onSessionRoomSrvReportAddr
  <2>2. MapTyped(contexts[m])
    BY DEF TypeOK, MapTyped
  <2>3. MapTyped(cs) /\ DOMAIN cs = DOMAIN contexts[m]
    BY <1>7, <2>2, ReportedTyped
  <2>4. \A r \in RoomIds \ DOMAIN cs : prs[r] = proc[r]
    BY <1>2, <1>7, <2>3
  <2>5. ASSUME NEW r \in DOMAIN cs PROVE Agrees(cs[r], task[r], prs[r], sent[r])
    <3>1. r \in RoomIds /\ r \in DOMAIN contexts[m] /\ contexts[m][r] \in Contexts
      BY <2>2, <2>3, <2>5 DEF MapTyped
    <3>2. Agrees(contexts[m][r], task[r], prs[r], sent[r])
      BY <1>3, <1>5, <3>1 DEF Started
    <3>3. CASE r # q
      <4>1. cs[r] = contexts[m][r]
        BY <3>1, <3>3
      <4> HIDE DEF cs, prs
      <4> QED
        BY <3>2, <4>1
    <3>4. CASE r = q
      <4> DEFINE c == contexts[m][q]
                 d == [c EXCEPT !.port = TRUE]
      <4>1. cs[r] = d /\ c \in Contexts
        BY <3>1, <3>4
      <4>2. d.state = c.state /\ d.ok = c.ok /\ d.pid = c.pid
        BY <4>1 DEF Contexts
      <4>3. Agrees(c, task[r], prs[r], sent[r]) /\ prs[r] = "reported"
        BY <1>2, <3>2, <3>4
      <4> HIDE DEF c, d, cs, prs
      <4> QED
        BY <4>1, <4>2, <4>3 DEF Agrees, Told
    <3> QED
      BY <3>3, <3>4
  <2> HIDE DEF cs, prs
  <2> QED
    BY <1>1, <1>4, <2>1, <2>3, <2>4, <2>5, TickKeepsInv
<1> QED
  BY <1>6, <1>7

LEMMA ReportGameOverKeepsInv ==
  ASSUME TypeOK, Inv, NEW m \in Machines, NEW q \in RoomIds, ReportGameOver(m, q)
  PROVE  Inv'
<1>1. /\ proc[q] = "reported" /\ proc' = [proc EXCEPT ![q] = "over"]
      /\ UNCHANGED <<hallRoom, sent, task, fromMgr>>
      /\ \/ UNCHANGED <<contexts, toMgr>>
         \/ /\ toMgr' = [toMgr EXCEPT ![m] = Append(@, Msg("over", q))]
            /\ \/ contexts' = contexts
               \/ /\ q \in DOMAIN contexts[m]
                  /\ contexts' =
                       [contexts EXCEPT ![m][q].state = "WaitKillGameServer", ![m][q].age = 0]
  BY DEF ReportGameOver, hallVars
<1>2. ASSUME NEW r \in RoomIds, NEW msg \in Tracked(r) PROVE Calm(msg)
  <2>1. CASE toMgr' = toMgr
    BY <1>1, <2>1, ClearedTransit DEF Calm
  <2>2. CASE toMgr' = [toMgr EXCEPT ![m] = Append(@, Msg("over", q))]
    <3>1. m \in Peers /\ Msg("over", q) \in Messages /\ msg # Msg("over", q)
      BY <1>2, TrackedFacts DEF Peers, Messages, Msg
    <3> QED
      BY <1>1, <2>2, <3>1, OneSent DEF Calm
  <2> QED
    BY <1>1, <2>1, <2>2
<1>3. \A n \in Machines :
        /\ DOMAIN contexts'[n] = DOMAIN contexts[n]
        /\ \A r \in DOMAIN contexts[n] :
             \/ contexts'[n][r] = contexts[n][r]
             \/ /\ r = q
                /\ contexts'[n][r] =
                     [contexts[n][r] EXCEPT !.state = "WaitKillGameServer", !.age = 0]
  <2> DEFINE ended == [contexts EXCEPT ![m][q].state = "WaitKillGameServer", ![m][q].age = 0]
  <2>1. CASE contexts' = contexts
    BY <2>1
  <2>2. CASE q \in DOMAIN contexts[m] /\ contexts' = ended
    <3>1. DOMAIN contexts = Machines
      BY DEF TypeOK
    <3>2. /\ contexts'[m] = [contexts[m] EXCEPT ![q].state = "WaitKillGameServer", ![q].age = 0]
          /\ \A n \in Machines \ {m} : contexts'[n] = contexts[n]
      BY <2>2, <3>1
    <3>3. /\ DOMAIN contexts'[m] = DOMAIN contexts[m]
          /\ contexts'[m][q] =
               [contexts[m][q] EXCEPT !.state = "WaitKillGameServer", !.age = 0]
          /\ \A r \in DOMAIN contexts[m] \ {q} : contexts'[m][r] = contexts[m][r]
      <4> DEFINE cs == contexts[m]
      <4>1. cs \in [DOMAIN cs -> Contexts] /\ q \in DOMAIN cs
        BY <2>2 DEF TypeOK
      <4>2. cs[q] \in Contexts
        BY <4>1
      <4>3. contexts'[m] = [cs EXCEPT ![q] = [cs[q] EXCEPT !.state = "WaitKillGameServer", !.age = 0]]
        BY <3>2, <4>1, <4>2
      <4> QED
        BY <4>1, <4>3
    <3> HIDE DEF ended
    <3> QED
      BY <3>2, <3>3
  <2> QED
    BY <1>1, <2>1, <2>2
<1> SUFFICES ASSUME NEW r \in RoomIds
             PROVE  (Idle(r) => task'[r] = "none" /\ proc'[r] = "none") /\ Started(r)'
  BY <1>1, <1>2, <1>3, SilentKeepsInv
<1>4. Started(r)
  BY DEF Inv
<1>5. proc'[r] = proc[r] \/ (proc[r] = "reported" /\ proc'[r] = "over")
  BY <1>1 DEF TypeOK
<1>6. Sound(task[r], proc'[r], sent[r])
  BY <1>4, <1>5 DEF Started, Sound, Told
<1>7. ASSUME NEW n \in Machines, r \in DOMAIN contexts'[n]
      PROVE  Agrees(contexts'[n][r], task[r], proc'[r], sent[r])
  <2> DEFINE c == contexts[n][r]
  <2>1. r \in DOMAIN contexts[n] /\ c \in Contexts /\ Agrees(c, task[r], proc[r], sent[r])
    <3>1. r \in DOMAIN contexts[n]
      BY <1>3, <1>7
    <3> QED
      BY <1>4, <3>1 DEF Started, TypeOK
  <2>2. Agrees(c, task[r], proc'[r], sent[r])
    <3> HIDE DEF c
    <3> QED
      BY <1>5, <2>1 DEF Agrees, Told
  <2>3. CASE contexts'[n][r] = c
    BY <2>2, <2>3
  <2>4. CASE r = q /\ contexts'[n][r] = [c EXCEPT !.state = "WaitKillGameServer", !.age = 0]
    <3> DEFINE d == [c EXCEPT !.state = "WaitKillGameServer", !.age = 0]
    <3>1. d.state = "WaitKillGameServer" /\ d.ok = c.ok /\ d.port = c.port /\ d.pid = c.pid
      BY <2>1 DEF Contexts
    <3>2. contexts'[n][r] = d
      BY <2>4
    <3> HIDE DEF c, d
    <3> QED
      BY <2>2, <3>1, <3>2 DEF Agrees
  <2> QED
    BY <1>3, <2>1, <2>3, <2>4
<1>8. proc'[r] = proc[r] \/ ~Idle(r)
  BY <1>5 DEF Idle
<1> QED
  BY <1>1, <1>4, <1>6, <1>7, <1>8 DEF Idle, Started

\* The request is used up when the context is made of it.
LEMMA PacketKeepsInv ==
  ASSUME TypeOK, Inv, NEW m \in Machines, onSessionPacket(m)
  PROVE  Inv'
<1> DEFINE msg == Head(fromMgr[m])
<1>1. /\ fromMgr[m] # <<>> /\ fromMgr' = [fromMgr EXCEPT ![m] = Tail(@)] /\ m \in Peers
      /\ UNCHANGED <<hallRoom, toMgr, task, proc, sent>>
  BY DEF onSessionPacket, hallVars, Peers
<1>2. InAir(msg) /\ \A x : /\ InAir(x)' => InAir(x)
                           /\ Once(x) => Once(x)'
                           /\ Once(x) /\ x = msg => ~InAir(x)'
  BY <1>1, ReceivedTransit
<1>3. CASE contexts' = contexts
  BY <1>1, <1>2, <1>3, MovesKeepInv DEF Calm
<1>4. CASE contexts' # contexts
  <2> PICK q : q = msg.room
    OBVIOUS
  <2>1. /\ msg.kind = "request" /\ q \notin DOMAIN contexts[m]
        /\ contexts' = [contexts EXCEPT ![m] =
             [r \in DOMAIN contexts[m] \cup {q} |->
                IF r = q THEN NewContext ELSE contexts[m][r]]]
    BY <1>4 DEF onSessionPacket
  <2>2. msg = Msg("request", q) /\ q \in RoomIds
    <3>1. msg \in Messages
      BY <1>1, TakeTyped
    <3> HIDE DEF msg
    <3> QED
      BY <2>1, <3>1, MsgIsRecord DEF Messages
  <2> HIDE DEF msg
  <2>3. Idle(q) /\ hallRoom[q] # "filling" /\ ~InAir(Msg("request", q))'
    <3>1. Asked(q)
      BY <2>2 DEF Inv
    <3> QED
      BY <1>2, <2>2, <3>1 DEF Asked
  <2>4. /\ \A n \in Machines \ {m} : contexts'[n] = contexts[n]
        /\ DOMAIN contexts'[m] = DOMAIN contexts[m] \cup {q}
        /\ contexts'[m][q] = NewContext
        /\ \A r \in DOMAIN contexts[m] : r # q => contexts'[m][r] = contexts[m][r]
    BY <2>1 DEF TypeOK
  <2> SUFFICES ASSUME NEW r \in RoomIds PROVE Asked(r)' /\ Started(r)' /\ Answered(r)'
    BY DEF Inv
  <2>5. Asked(r) /\ Started(r) /\ Answered(r)
    BY DEF Inv
  <2>6. Answered(r)'
    BY <1>1, <1>2, <2>5 DEF Answered
  <2>7. CASE r # q
    <3>1. \A n \in Machines : /\ r \in DOMAIN contexts'[n] <=> r \in DOMAIN contexts[n]
                              /\ r \in DOMAIN contexts[n] => contexts'[n][r] = contexts[n][r]
      BY <2>4, <2>7
    <3>2. Asked(r)'
      BY <1>1, <1>2, <2>5, <3>1 DEF Asked, Idle
    <3>3. Started(r)'
      BY <1>1, <2>5, <3>1 DEF Started
    <3> QED
      BY <2>6, <3>2, <3>3
  <2>8. CASE r = q
    <3>1. \A n \in Machines : r \in DOMAIN contexts'[n] => n = m
      BY <2>3, <2>4, <2>8 DEF Idle
    <3>2. Asked(r)'
      <4>1. /\ ~InAir(Msg("request", r))' /\ hallRoom'[r] # "filling"
            /\ Once(Msg("request", r))'
        BY <1>1, <1>2, <2>3, <2>5, <2>8 DEF Asked
      <4>2. \A n, o \in Machines : r \in DOMAIN contexts'[n] /\ r \in DOMAIN contexts'[o] => n = o
        BY <3>1
      <4> QED
        BY <4>1, <4>2 DEF Asked
    <3>3. Agrees(NewContext, "none", "none", {})
      BY DEF Agrees, NewContext
    <3>4. Started(r)'
      BY <1>1, <2>3, <2>4, <2>5, <2>8, <3>1, <3>3 DEF Started, Idle
    <3> QED
      BY <2>6, <3>2, <3>4
  <2> QED
    BY <2>7, <2>8
<1> QED
  BY <1>3, <1>4

LEMMA InitInv == Init => Inv
<1> SUFFICES ASSUME Init, NEW r \in RoomIds PROVE Asked(r) /\ Started(r) /\ Answered(r)
  BY DEF Inv
<1>1. /\ hallRoom[r] = "filling" /\ task[r] = "none" /\ proc[r] = "none" /\ sent[r] = {}
      /\ \A p \in Peers : toMgr[p] = <<>> /\ fromMgr[p] = <<>>
      /\ \A m \in Machines : DOMAIN contexts[m] = {}
  BY DEF Init, NoContext
<1>2. \A msg, p, i : ~ToMgr(msg, p, i) /\ ~FromMgr(msg, p, i)
  BY <1>1, NothingInEmpty DEF ToMgr, FromMgr, Carries
<1>3. \A msg : ~InAir(msg) /\ Once(msg)
  BY <1>2 DEF InAir, Once
<1>4. Asked(r)
  BY <1>1, <1>3 DEF Asked, Idle
<1>5. Started(r)
  BY <1>1 DEF Started, Sound
<1>6. Answered(r)
  BY <1>1, <1>3 DEF Answered
<1> QED
  BY <1>4, <1>5, <1>6

LEMMA NextInv == TypeOK /\ Inv /\ [Next]_vars => Inv'
<1> SUFFICES ASSUME TypeOK, Inv, [Next]_vars PROVE Inv'
  OBVIOUS
<1>1. CASE UNCHANGED vars
  <2>1. UNCHANGED <<hallRoom, contexts, task, proc, sent, toMgr, fromMgr>>
    BY <1>1 DEF vars, hallVars, machineVars, netVars
  <2> QED
    BY <2>1, ClearedTransit, MovesKeepInv DEF Calm
<1>2. ASSUME NEW p \in Peers,
             connectServer(p) \/ SendHello(p) \/ ConnectionBreaks(p) \/ onSessionHello(p)
      PROVE  Inv'
  BY <1>2, SessionsKeepInv
<1>3. ASSUME NEW m \in Machines, MachineCrashes(m) PROVE Inv'
  BY <1>3, MachineCrashKeepsInv
<1>4. ASSUME NEW m \in Machines, onTick(m) PROVE Inv'
  BY <1>4, OnTickKeepsInv
<1>5. CASE RoommgrCrashes \/ onSessionRequestCreateRoom
  BY <1>5, RoommgrKeepsInv
<1>6. ASSUME NEW m \in Machines,
             onSessionRequestCreateRoomCB(m) \/ onSessionRoomSrvGameOverReport(m)
      PROVE  Inv'
  BY <1>6, RoommgrKeepsInv
<1>7. CASE onCreateRoomServerCB
  BY <1>7, AnswerKeepsInv
<1>8. ASSUME NEW m \in Machines, onSessionPacket(m) PROVE Inv'
  BY <1>8, PacketKeepsInv
<1>9. ASSUME NEW r \in RoomIds, createRoomServer(r) PROVE Inv'
  BY <1>9, CreateKeepsInv
<1>10. ASSUME NEW r \in RoomIds, RoomTick(r) PROVE Inv'
  BY <1>10, RoomTickKeepsInv
<1>11. ASSUME NEW r \in RoomIds, StartProcess(r) \/ GameServerExits(r) PROVE Inv'
  BY <1>11, ProcessKeepsInv
<1>12. ASSUME NEW m \in Machines, NEW r \in RoomIds, onSessionRoomSrvReportAddr(m, r)
       PROVE  Inv'
  BY <1>12, ReportAddrKeepsInv
<1>13. ASSUME NEW m \in Machines, NEW r \in RoomIds, ReportGameOver(m, r) PROVE Inv'
  BY <1>13, ReportGameOverKeepsInv
<1>14. CASE Advance
  BY <1>14, AdvanceKeepsInv
<1>15. ASSUME NEW p \in Peers, Deliver(p) PROVE Inv'
  BY <1>2, <1>5, <1>6, <1>7, <1>8, <1>15 DEF Deliver
<1> QED
  BY <1>1, <1>2, <1>3, <1>4, <1>5, <1>9, <1>10, <1>11, <1>12, <1>13, <1>14, <1>15 DEF Next

\* The invariant holds whatever connections break and servers crash.
THEOREM RoomServersInvariant == Spec => [](TypeOK /\ Inv)
<1>1. Init => TypeOK /\ Inv
  BY InitTyped, InitInv
<1>2. TypeOK /\ Inv /\ [Next]_vars => (TypeOK /\ Inv)'
  BY NextTyped, NextInv
<1> QED
  BY <1>1, <1>2, PTL DEF Spec

-------------------------------------------------------------------------------
(* What follows from the invariant.                                          *)

LEMMA InFlightIsInAir ==
  ASSUME NEW p \in Peers, NEW msgs,
         InFlight(toMgr[p], msgs) \/ InFlight(fromMgr[p], msgs)
  PROVE  \E msg \in msgs : InAir(msg)
<1>1. CASE InFlight(toMgr[p], msgs)
  <2>1. PICK i \in DOMAIN toMgr[p] : toMgr[p][i] \in msgs
    BY <1>1 DEF InFlight
  <2>2. ToMgr(toMgr[p][i], p, i)
    BY <2>1 DEF ToMgr, Carries
  <2> QED
    BY <2>1, <2>2 DEF InAir
<1>2. CASE InFlight(fromMgr[p], msgs)
  <2>1. PICK i \in DOMAIN fromMgr[p] : fromMgr[p][i] \in msgs
    BY <1>2 DEF InFlight
  <2>2. FromMgr(fromMgr[p][i], p, i)
    BY <2>1 DEF FromMgr, Carries
  <2> QED
    BY <2>1, <2>2 DEF InAir
<1> QED
  BY <1>1, <1>2

\* A room is asked for once, so one game server at most is started for it.
THEOREM RequestsAreTokens == Spec => []RequestedOnce
<1>1. TypeOK /\ Inv => RequestedOnce
  <2> SUFFICES ASSUME Inv, NEW r \in RoomIds
               PROVE  LET req == Msg("request", r)
                          waiting == {p \in Peers : InFlight(toMgr[p], {req})
                                                      \/ InFlight(fromMgr[p], {req})}
                          holding == {m \in Machines : r \in DOMAIN contexts[m]}
                      IN  /\ \A x, y \in waiting \cup holding : x = y
                          /\ waiting # {} => holding = {} /\ task[r] = "none" /\ proc[r] = "none"
    BY DEF RequestedOnce
  <2> DEFINE req     == Msg("request", r)
             waiting == {p \in Peers : InFlight(toMgr[p], {req}) \/ InFlight(fromMgr[p], {req})}
             holding == {m \in Machines : r \in DOMAIN contexts[m]}
  <2>1. Asked(r)
    BY DEF Inv
  <2>2. \A p \in waiting : \E i : ToMgr(req, p, i) \/ FromMgr(req, p, i)
    <3> HIDE DEF req
    <3> QED
      BY DEF InFlight, ToMgr, FromMgr, Carries
  <2>3. \A x, y \in waiting : x = y
    <3>1. Once(req)
      BY <2>1 DEF Asked
    <3> HIDE DEF req, waiting
    <3> QED
      BY <2>2, <3>1 DEF Once
  <2>4. \A x, y \in holding : x = y
    BY <2>1 DEF Asked
  <2>5. waiting # {} => Idle(r)
    <3>1. InAir(req) => Idle(r)
      BY <2>1 DEF Asked
    <3> HIDE DEF req, waiting
    <3> QED
      BY <2>2, <3>1 DEF InAir
  <2>6. waiting # {} => holding = {} /\ task[r] = "none" /\ proc[r] = "none"
    BY <2>5 DEF Idle
  <2> HIDE DEF waiting, holding
  <2>7. \A x, y \in waiting \cup holding : x = y
    BY <2>3, <2>4, <2>6
  <2> QED
    BY <2>6, <2>7 DEF waiting, holding
<1> QED
  BY <1>1, RoomServersInvariant, PTL

\* One verdict for a room.
THEOREM OneVerdict == Spec => []AnswersAgree
<1>1. TypeOK /\ Inv => AnswersAgree
  BY DEF Inv, Started, Sound, AnswersAgree
<1> QED
  BY <1>1, RoomServersInvariant, PTL

\* An OK is true: the server reported where it listens and can be killed.
THEOREM AnOkIsTrue == Spec => []OkMeansListening
<1>1. TypeOK /\ Inv => OkMeansListening
  BY DEF Inv, Started, Sound, Agrees, Told, OkMeansListening
<1> QED
  BY <1>1, RoomServersInvariant, PTL

\* Players play where a server said OK.
THEOREM PlayersWereAdmitted == Spec => []PlayingWasGranted
<1>1. TypeOK /\ Inv => PlayingWasGranted
  BY DEF Inv, Answered, PlayingWasGranted
<1> QED
  BY <1>1, RoomServersInvariant, PTL

\* A game that began is not begun again or ended by an answer that comes late.
THEOREM NoSecondAnswer == Spec => []NoAnswerWhilePlaying
<1>1. TypeOK /\ Inv => NoAnswerWhilePlaying
  <2> SUFFICES ASSUME Inv, NEW r \in RoomIds, hallRoom[r] = "playing", NEW p \in Peers,
                      InFlight(toMgr[p], Answers(r)) \/ InFlight(fromMgr[p], Answers(r))
               PROVE  FALSE
    BY DEF NoAnswerWhilePlaying
  <2>1. PICK msg \in Answers(r) : InAir(msg)
    BY InFlightIsInAir
  <2>2. Answered(r)
    BY DEF Inv
  <2> QED
    BY <2>1, <2>2 DEF Answered, Answers
<1> QED
  BY <1>1, RoomServersInvariant, PTL

-------------------------------------------------------------------------------
(* What a step does to packets and contexts, for the invariants below.       *)

\* Packets that halls and roommgr only hand on, if at all: the steps that make
\* none are those of sessions, halls, roommgr, processes and time.
LEMMA OthersCalm ==
  ASSUME TypeOK, [Next]_vars, NEW msg, msg.kind \in {"ok", "over"}
  PROVE  \/ Calm(msg)
         \/ \E m \in Machines : onTick(m)
         \/ \E m \in Machines, r \in RoomIds :
              onSessionRoomSrvReportAddr(m, r) \/ ReportGameOver(m, r)
<1>1. ASSUME UNCHANGED <<toMgr, fromMgr>> PROVE Calm(msg)
  BY <1>1, ClearedTransit DEF Calm
<1>2. ASSUME UNCHANGED vars PROVE Calm(msg)
  BY <1>1, <1>2 DEF vars, netVars
<1>3. ASSUME NEW p \in Peers,
             connectServer(p) \/ SendHello(p) \/ ConnectionBreaks(p) \/ onSessionHello(p)
      PROVE  Calm(msg)
  BY <1>3, SessionsCalm
<1>4. ASSUME NEW m \in Machines, MachineCrashes(m) PROVE Calm(msg)
  BY <1>4, ClearedTransit DEF MachineCrashes, Disconnect, Calm
<1>5. ASSUME RoommgrCrashes \/ onSessionRequestCreateRoom PROVE Calm(msg)
  BY <1>5, RoommgrCalm
<1>6. ASSUME NEW m \in Machines,
             onSessionRequestCreateRoomCB(m) \/ onSessionRoomSrvGameOverReport(m)
      PROVE  Calm(msg)
  BY <1>6, RoommgrCalm
<1>7. ASSUME NEW p \in Peers,
             (p = Halls /\ onCreateRoomServerCB) \/ (p \in Machines /\ onSessionPacket(p))
      PROVE  Calm(msg)
  <2>1. fromMgr[p] # <<>> /\ fromMgr' = [fromMgr EXCEPT ![p] = Tail(@)] /\ toMgr' = toMgr
    BY <1>7 DEF onCreateRoomServerCB, onSessionPacket
  <2> QED
    BY <2>1, ReceivedTransit DEF Calm
<1>8. ASSUME NEW r \in RoomIds, createRoomServer(r) PROVE Calm(msg)
  <2> DEFINE x == Msg("request", r)
  <2>1. x \in Messages /\ msg # x /\ Halls \in Peers
    BY DEF Msg, Messages, Peers
  <2>2. fromMgr' = fromMgr /\ (toMgr' = toMgr \/ toMgr' = [toMgr EXCEPT ![Halls] = Append(@, x)])
    BY <1>8 DEF createRoomServer
  <2> HIDE DEF x
  <2> QED
    BY <1>1, <2>1, <2>2, OneSent DEF Calm
<1>9. ASSUME NEW r \in RoomIds, RoomTick(r) \/ StartProcess(r) \/ GameServerExits(r) PROVE Calm(msg)
  BY <1>1, <1>9 DEF RoomTick, StartProcess, GameServerExits, netVars
<1>10. ASSUME Advance PROVE Calm(msg)
  BY <1>1, <1>10 DEF Advance, netVars
<1>11. ASSUME NEW p \in Peers, Deliver(p) PROVE Calm(msg)
  <2>1. ASSUME onSessionRequestCreateRoom PROVE Calm(msg)
    BY <1>5, <2>1
  <2>2. ASSUME onSessionHello(p) PROVE Calm(msg)
    BY <1>3, <2>2
  <2>3. ASSUME p \in Machines, onSessionRequestCreateRoomCB(p) \/ onSessionRoomSrvGameOverReport(p)
        PROVE  Calm(msg)
    BY <1>6, <2>3
  <2> QED
    BY <1>7, <1>11, <2>1, <2>2, <2>3 DEF Deliver
<1> QED
  BY <1>2, <1>3, <1>4, <1>5, <1>8, <1>9, <1>10, <1>11 DEF Next

\* A tick of machine m, whose contexts and processes are cs and prs, room by
\* room.
LEMMA TickEffects ==
  ASSUME TypeOK, NEW m \in Machines, NEW cs, MapTyped(cs), NEW prs, Tick(m, cs, prs)
  PROVE  /\ \A n \in Machines \ {m} : contexts'[n] = contexts[n]
         /\ \A r : r \in DOMAIN contexts'[m] <=> r \in DOMAIN cs /\ ~Dropped(cs[r], r)
         /\ \A r \in DOMAIN contexts'[m] : contexts'[m][r] = NextContext(cs[r], r)
         /\ \A r \in RoomIds :
              LET begun  == r \in DOMAIN cs /\ cs[r].state = "WaitCreate"
                  killed == r \in DOMAIN cs /\ cs[r].pid /\ KillDue(cs[r])
              IN  /\ task'[r] = IF begun THEN "queued" ELSE task[r]
                  /\ host'[r] = IF begun THEN m ELSE host[r]
                  /\ ~killed => proc'[r] = prs[r]
                  /\ killed => proc'[r] = IF prs[r] = "reported" THEN "killed" ELSE "dead"
         /\ UNCHANGED fromMgr => \A msg :
              /\ InAir(msg)' => \/ InAir(msg)
                                \/ /\ msg.kind \in {"ok", "fail"} /\ msg.room \in DOMAIN cs
                                   /\ msg.kind \in Answer(cs[msg.room], msg.room)
              /\ msg.kind \notin {"ok", "fail"} => Calm(msg)
         /\ \/ UNCHANGED toMgr
            \/ \E s \in Seq(Messages) : /\ toMgr' = [toMgr EXCEPT ![m] = @ \o s]
                                        /\ \A i \in DOMAIN s : s[i].kind \in {"ok", "fail"}
<1> DEFINE gone    == {r \in DOMAIN cs : CreateTimeout(cs[r], r) \/ KillDue(cs[r])}
           killed  == {r \in gone : cs[r].pid /\ KillDue(cs[r])}
           begun   == {r \in DOMAIN cs : cs[r].state = "WaitCreate"}
           answers == {msg \in [kind : {"ok", "fail"}, room : DOMAIN cs] :
                         msg.kind \in Answer(cs[msg.room], msg.room)}
           next    == [r \in DOMAIN cs \ gone |-> NextContext(cs[r], r)]
<1>1. /\ contexts' = [contexts EXCEPT ![m] = next]
      /\ task' = [r \in RoomIds |-> IF r \in begun THEN "queued" ELSE task[r]]
      /\ host' = [r \in RoomIds |-> IF r \in begun THEN m ELSE host[r]]
      /\ proc' = [r \in RoomIds |->
           IF r \in killed THEN IF prs[r] = "reported" THEN "killed" ELSE "dead" ELSE prs[r]]
      /\ \/ UNCHANGED toMgr
         \/ \E s \in SetToSeqs(answers) : toMgr' = [toMgr EXCEPT ![m] = @ \o s]
  BY DEF Tick
<1>2. /\ contexts'[m] = next
      /\ \A n \in Machines \ {m} : contexts'[n] = contexts[n]
      /\ DOMAIN next = DOMAIN cs \ gone
      /\ \A r \in DOMAIN cs \ gone : next[r] = NextContext(cs[r], r)
  BY <1>1 DEF TypeOK
<1>3. answers \in SUBSET Messages /\ IsFiniteSet(answers)
  BY AnswersTyped DEF MapTyped
<1>4. \A msg \in answers : /\ msg.kind \in {"ok", "fail"} /\ msg.room \in DOMAIN cs
                           /\ msg.kind \in Answer(cs[msg.room], msg.room)
  OBVIOUS
<1>5. /\ \A r : r \in gone <=> r \in DOMAIN cs /\ Dropped(cs[r], r)
      /\ \A r : r \in begun <=> r \in DOMAIN cs /\ cs[r].state = "WaitCreate"
      /\ \A r : r \in killed <=> r \in DOMAIN cs /\ cs[r].pid /\ KillDue(cs[r])
  BY DEF Dropped
<1> HIDE DEF gone, killed, begun, answers, next
<1>6. \/ UNCHANGED toMgr
      \/ \E s \in Seq(Messages) : /\ toMgr' = [toMgr EXCEPT ![m] = @ \o s]
                                  /\ \A i \in DOMAIN s : s[i] \in answers
                                  /\ \A i, j \in DOMAIN s : s[i] = s[j] => i = j
  BY <1>1, <1>3, AnswersAreSent
<1>7. ASSUME UNCHANGED fromMgr, NEW msg
      PROVE  /\ InAir(msg)' => InAir(msg) \/ msg \in answers
             /\ msg \notin answers => Calm(msg)
  <2>1. CASE UNCHANGED toMgr
    BY <1>7, <2>1, ClearedTransit DEF Calm
  <2>2. ASSUME NEW s \in Seq(Messages), toMgr' = [toMgr EXCEPT ![m] = @ \o s],
               \A i \in DOMAIN s : s[i] \in answers,
               \A i, j \in DOMAIN s : s[i] = s[j] => i = j
        PROVE  /\ InAir(msg)' => InAir(msg) \/ msg \in answers
               /\ msg \notin answers => Calm(msg)
    <3>1. m \in Peers
      BY DEF Peers
    <3>2. /\ InAir(msg)' => InAir(msg) \/ \E k \in DOMAIN s : s[k] = msg
          /\ Once(msg) /\ (InAir(msg) => \A k \in DOMAIN s : s[k] # msg) => Once(msg)'
      BY <1>7, <2>2, <3>1, SentTransit
    <3> QED
      BY <2>2, <3>2 DEF Calm
  <2> QED
    BY <1>6, <2>1, <2>2
<1>8. ASSUME NEW r \in RoomIds
      PROVE  /\ task'[r] = IF r \in begun THEN "queued" ELSE task[r]
             /\ host'[r] = IF r \in begun THEN m ELSE host[r]
             /\ r \notin killed => proc'[r] = prs[r]
             /\ r \in killed => proc'[r] = IF prs[r] = "reported" THEN "killed" ELSE "dead"
  BY <1>1
<1>9. \/ UNCHANGED toMgr
      \/ \E s \in Seq(Messages) : /\ toMgr' = [toMgr EXCEPT ![m] = @ \o s]
                                  /\ \A i \in DOMAIN s : s[i].kind \in {"ok", "fail"}
  BY <1>4, <1>6
<1>10. UNCHANGED fromMgr => \A msg :
         /\ InAir(msg)' => \/ InAir(msg)
                           \/ /\ msg.kind \in {"ok", "fail"} /\ msg.room \in DOMAIN cs
                              /\ msg.kind \in Answer(cs[msg.room], msg.room)
         /\ msg.kind \notin {"ok", "fail"} => Calm(msg)
  BY <1>4, <1>7
<1> QED
  BY <1>2, <1>5, <1>8, <1>9, <1>10

-------------------------------------------------------------------------------
(* The time of a game.  The machine counts from the request, halls from the  *)
(* OK; when messages are prompt and the report came within Grace, the clock  *)
(* of the machine is ahead by Grace at most, and that is what the machine    *)
(* waits longer than the game may take.                                      *)

\* A context c of a room, and its process.
Ending(c, process) ==
  (c.state = "WaitKillGameServer" => process \in {"over", "dead"}) /\ process # "killed"
Timely(c, process) == Ending(c, process) /\ (c.state = "WaitReport" => ~c.port)

Young(c, limit) == c.state # "WaitKillGameServer" => c.age <= limit

Timed(r) ==
  /\ \A m \in Machines : r \in DOMAIN contexts[m] => Timely(contexts[m][r], proc[r])
  /\ InAir(Msg("ok", r)) /\ r \notin late =>
       /\ proc[r] # "killed"
       /\ \A m \in Machines : r \in DOMAIN contexts[m] => Young(contexts[m][r], Grace)
  /\ hallRoom[r] = "playing" /\ r \notin late =>
       /\ proc[r] = "killed" => hallAge[r] > GameTime
       /\ \A m \in Machines : r \in DOMAIN contexts[m] =>
            Young(contexts[m][r], hallAge[r] + Grace)

AllTimed == \A r \in RoomIds : Timed(r)

\* What a tick does to one context and its process.
LEMMA TickedTime ==
  ASSUME NEW c \in Contexts, NEW r, NEW process, Ending(c, process),
         NEW next, ~(c.pid /\ KillDue(c)) => next = process,
         c.pid /\ KillDue(c) => next = IF process = "reported" THEN "killed" ELSE "dead"
  PROVE  /\ ~Dropped(c, r) => Timely(NextContext(c, r), next)
         /\ next = "killed" => c.state # "WaitKillGameServer" /\ c.age > GameTime + Grace
         /\ \A limit : Young(c, limit) => Young(NextContext(c, r), limit)
         /\ "ok" \in Answer(c, r) => c.state # "WaitKillGameServer"
<1>1. /\ c = [state |-> c.state, ok |-> c.ok, port |-> c.port, pid |-> c.pid, age |-> c.age]
      /\ c.state \in ContextStates
  BY DEF Contexts
<1>2. next = "killed" => c.state # "WaitKillGameServer" /\ c.age > GameTime + Grace
  BY DEF KillDue, Ending
<1>3. /\ NextContext(c, r).age = c.age
      /\ NextContext(c, r).state = "WaitKillGameServer" <=> c.state = "WaitKillGameServer"
      /\ NextContext(c, r).state = "WaitReport" => ~NextContext(c, r).port
  <2>1. CASE c.state = "WaitCreate"
    BY <1>1, <2>1 DEF NextContext
  <2>2. CASE c.state = "Creating"
    BY <1>1, <2>2 DEF NextContext
  <2>3. CASE c.state = "WaitReport"
    BY <1>1, <2>3 DEF NextContext
  <2>4. CASE c.state = "Finished"
    BY <1>1, <2>4 DEF NextContext
  <2>5. CASE c.state \in {"WaitGameOver", "WaitKillGameServer"}
    BY <2>5 DEF NextContext
  <2> QED
    BY <1>1, <2>1, <2>2, <2>3, <2>4, <2>5 DEF ContextStates
<1>4. "ok" \in Answer(c, r) => c.state # "WaitKillGameServer"
  BY DEF Answer, CreateTimeout
<1>5. ASSUME ~Dropped(c, r) PROVE Timely(NextContext(c, r), next)
  <2>1. next = process
    BY <1>5 DEF Dropped
  <2> QED
    BY <1>3, <2>1 DEF Timely, Ending
<1> QED
  BY <1>2, <1>3, <1>4, <1>5 DEF Young

LEMMA TickKeepsTime ==
  ASSUME TypeOK, Inv, AllTimed, NEW m \in Machines, NEW cs, MapTyped(cs), NEW prs,
         DOMAIN cs = DOMAIN contexts[m],
         \A r \in RoomIds \ DOMAIN cs : prs[r] = proc[r],
         \A r \in DOMAIN cs : /\ Ending(cs[r], prs[r])
                              /\ cs[r].state = contexts[m][r].state
                              /\ cs[r].age = contexts[m][r].age
                              /\ "ok" \in Answer(cs[r], r) /\ r \notin late' => cs[r].age <= Grace,
         Tick(m, cs, prs), UNCHANGED <<hallRoom, hallAge, fromMgr>>, late \subseteq late'
  PROVE  AllTimed'
<1>1. /\ \A n \in Machines \ {m} : contexts'[n] = contexts[n]
      /\ \A r : r \in DOMAIN contexts'[m] <=> r \in DOMAIN cs /\ ~Dropped(cs[r], r)
      /\ \A r \in DOMAIN contexts'[m] : contexts'[m][r] = NextContext(cs[r], r)
      /\ \A r \in RoomIds :
           LET killed == r \in DOMAIN cs /\ cs[r].pid /\ KillDue(cs[r])
           IN  /\ ~killed => proc'[r] = prs[r]
               /\ killed => proc'[r] = IF prs[r] = "reported" THEN "killed" ELSE "dead"
      /\ \A msg : InAir(msg)' =>
           \/ InAir(msg)
           \/ msg.room \in DOMAIN cs /\ msg.kind \in Answer(cs[msg.room], msg.room)
  BY TickEffects
<1> SUFFICES ASSUME NEW r \in RoomIds PROVE Timed(r)'
  BY DEF AllTimed
<1>2. Timed(r)
  BY DEF AllTimed
<1>3. \A n, o \in Machines : r \in DOMAIN contexts[n] /\ r \in DOMAIN contexts[o] => n = o
  BY DEF Inv, Asked
<1>4. InAir(Msg("ok", r))' =>
        InAir(Msg("ok", r)) \/ (r \in DOMAIN cs /\ "ok" \in Answer(cs[r], r))
  <2>1. Msg("ok", r).room = r /\ Msg("ok", r).kind = "ok"
    BY DEF Msg
  <2> QED
    BY <1>1, <2>1
<1>5. CASE r \notin DOMAIN cs
  <2>1. \A n \in Machines : r \in DOMAIN contexts'[n] =>
          r \in DOMAIN contexts[n] /\ contexts'[n][r] = contexts[n][r]
    BY <1>1, <1>5
  <2>2. proc'[r] = proc[r]
    BY <1>1, <1>5
  <2>3. InAir(Msg("ok", r))' => InAir(Msg("ok", r))
    BY <1>4, <1>5
  <2> QED
    BY <1>2, <2>1, <2>2, <2>3 DEF Timed
<1>6. CASE r \in DOMAIN cs
  <2> DEFINE c == cs[r]
  <2>1. c \in Contexts /\ Ending(c, prs[r]) /\ r \in DOMAIN contexts[m]
    BY <1>6 DEF MapTyped
  <2>2. /\ ~(c.pid /\ KillDue(c)) => proc'[r] = prs[r]
        /\ c.pid /\ KillDue(c) => proc'[r] = IF prs[r] = "reported" THEN "killed" ELSE "dead"
    BY <1>1, <1>6
  <2>3. c.state = contexts[m][r].state /\ c.age = contexts[m][r].age
    BY <1>6
  <2>4. \A n \in Machines : r \in DOMAIN contexts'[n] =>
          ~Dropped(c, r) /\ contexts'[n][r] = NextContext(c, r)
    BY <1>1, <1>3, <2>1
  <2>5. "ok" \in Answer(c, r) /\ r \notin late' => c.age <= Grace
    BY <1>6
  <2>6. InAir(Msg("ok", r))' => InAir(Msg("ok", r)) \/ "ok" \in Answer(c, r)
    BY <1>4
  <2>7. \A limit : Young(contexts[m][r], limit) => Young(c, limit)
    BY <2>3 DEF Young
  <2> HIDE DEF c
  <2>8. /\ ~Dropped(c, r) => Timely(NextContext(c, r), proc'[r])
        /\ proc'[r] = "killed" => c.state # "WaitKillGameServer" /\ c.age > GameTime + Grace
        /\ \A limit : Young(c, limit) => Young(NextContext(c, r), limit)
    <3>1. ASSUME NEW process, process = prs[r], NEW next, next = proc'[r]
          PROVE  /\ ~Dropped(c, r) => Timely(NextContext(c, r), next)
                 /\ next = "killed" => c.state # "WaitKillGameServer" /\ c.age > GameTime + Grace
                 /\ \A limit : Young(c, limit) => Young(NextContext(c, r), limit)
      BY <2>1, <2>2, <3>1, TickedTime
    <3> QED
      BY <3>1
  <2>9. c.age \in Int /\ GameTime \in Nat /\ Grace \in Nat /\ hallAge[r] \in Int
    BY <2>1, TimesAreTyped, TimesAssumption DEF Contexts, TypeOK
  <2>10. ASSUME InAir(Msg("ok", r))', r \notin late' PROVE Young(c, Grace)
    <3>1. CASE InAir(Msg("ok", r))
      BY <1>2, <2>1, <2>7, <2>10, <3>1 DEF Timed
    <3>2. CASE "ok" \in Answer(c, r)
      BY <2>5, <2>10, <3>2 DEF Young
    <3> QED
      BY <2>6, <2>10, <3>1, <3>2
  <2>11. ASSUME InAir(Msg("ok", r))', r \notin late'
         PROVE  /\ proc'[r] # "killed"
                /\ \A n \in Machines : r \in DOMAIN contexts'[n] => Young(contexts'[n][r], Grace)
    BY <2>4, <2>8, <2>9, <2>10, <2>11 DEF Young
  <2>12. ASSUME hallRoom[r] = "playing", r \notin late'
         PROVE  /\ proc'[r] = "killed" => hallAge[r] > GameTime
                /\ \A n \in Machines : r \in DOMAIN contexts'[n] =>
                     Young(contexts'[n][r], hallAge[r] + Grace)
    <3>1. Young(c, hallAge[r] + Grace)
      BY <1>2, <2>1, <2>7, <2>12 DEF Timed
    <3> QED
      BY <2>4, <2>8, <2>9, <3>1 DEF Young
  <2>13. \A n \in Machines : r \in DOMAIN contexts'[n] => Timely(contexts'[n][r], proc'[r])
    BY <2>4, <2>8
  <2> QED
    BY <2>11, <2>12, <2>13 DEF Timed
<1> QED
  BY <1>5, <1>6

\* A context that the machine holds between two steps has no OK to be sent: it
\* goes out with the report.
LEMMA NoOkIsHeld ==
  ASSUME NEW c, NEW r, NEW job, NEW process, NEW answers,
         Timely(c, process), Agrees(c, job, process, answers)
  PROVE  "ok" \notin Answer(c, r)
BY DEF Timely, Agrees, Answer, CreateTimeout

LEMMA OnTickKeepsTime ==
  ASSUME TypeOK, Inv, AllTimed, NEW m \in Machines, onTick(m)
  PROVE  AllTimed'
<1> DEFINE cs == contexts[m]
<1>1. Tick(m, cs, proc) /\ UNCHANGED <<hallRoom, hallAge, fromMgr, late>>
  BY DEF onTick, hallVars
<1>2. MapTyped(cs)
  BY DEF TypeOK, MapTyped
<1>3. ASSUME NEW r \in DOMAIN cs
      PROVE  Ending(cs[r], proc[r]) /\ "ok" \notin Answer(cs[r], r)
  <2>1. Timely(cs[r], proc[r]) /\ Agrees(cs[r], task[r], proc[r], sent[r])
    BY <1>2, <1>3 DEF MapTyped, AllTimed, Timed, Inv, Started
  <2>2. Ending(cs[r], proc[r])
    BY <2>1 DEF Timely
  <2> HIDE DEF cs
  <2> QED
    BY <2>1, <2>2, NoOkIsHeld
<1>4. DOMAIN cs = DOMAIN contexts[m] /\ \A r \in DOMAIN cs : cs[r] = contexts[m][r]
  OBVIOUS
<1> HIDE DEF cs
<1> QED
  BY <1>1, <1>2, <1>3, <1>4, TickKeepsTime

\* A room that the step leaves alone, or that loses its context or its process.
LEMMA LeftAlone ==
  ASSUME NEW r \in RoomIds, Timed(r), Calm(Msg("ok", r)), UNCHANGED late,
         hallRoom'[r] = "playing" => hallRoom[r] = "playing" /\ hallAge'[r] = hallAge[r],
         \A n \in Machines : r \in DOMAIN contexts'[n] =>
           r \in DOMAIN contexts[n] /\ contexts'[n][r] = contexts[n][r],
         \/ proc'[r] = proc[r]
         \/ proc'[r] = "dead"
         \/ proc'[r] # "killed" /\ proc[r] \notin {"over", "dead"}
  PROVE  Timed(r)'
<1>1. \A c : Timely(c, proc[r]) => Timely(c, proc'[r])
  BY DEF Timely, Ending
<1>2. proc'[r] = "killed" => proc[r] = "killed"
  OBVIOUS
<1> QED
  BY <1>1, <1>2 DEF Timed, Calm

\* The report of the address: the OK goes out, and the clock that it started
\* from is noted as late or within Grace.
LEMMA ReportAddrKeepsTime ==
  ASSUME TypeOK, Inv, AllTimed, NEW m \in Machines, NEW q \in RoomIds,
         onSessionRoomSrvReportAddr(m, q)
  PROVE  AllTimed'
<1> DEFINE prs == [proc EXCEPT ![q] = "reported"]
           cs  == [contexts[m] EXCEPT ![q].port = TRUE]
<1>1. proc[q] = "up" /\ UNCHANGED <<hallRoom, hallAge, fromMgr>>
  BY DEF onSessionRoomSrvReportAddr, hallVars
<1>2. prs[q] = "reported" /\ \A r \in RoomIds \ {q} : prs[r] = proc[r]
  BY DEF TypeOK
<1>3. CASE q \notin DOMAIN contexts[m]
  <2>1. proc' = prs /\ UNCHANGED <<contexts, toMgr, late>>
    BY <1>3 DEF onSessionRoomSrvReportAddr
  <2>2. \A msg : Calm(msg)
    BY <1>1, <2>1, ClearedTransit DEF Calm
  <2> HIDE DEF prs
  <2> SUFFICES ASSUME NEW r \in RoomIds PROVE Timed(r)'
    BY DEF AllTimed
  <2>3. Timed(r)
    BY DEF AllTimed
  <2>4. proc'[r] = proc[r] \/ (proc'[r] # "killed" /\ proc[r] \notin {"over", "dead"})
    BY <1>1, <1>2, <2>1
  <2> QED
    BY <1>1, <2>1, <2>2, <2>3, <2>4, LeftAlone
<1>4. CASE q \in DOMAIN contexts[m]
  <2>1. /\ Tick(m, cs, prs)
        /\ late' = IF contexts[m][q].age > Grace THEN late \cup {q} ELSE late
    BY <1>4 DEF onSessionRoomSrvReportAddr
  <2>2. MapTyped(contexts[m])
    BY DEF TypeOK, MapTyped
  <2>3. MapTyped(cs) /\ DOMAIN cs = DOMAIN contexts[m]
    <3>1. DOMAIN cs = DOMAIN contexts[m]
      OBVIOUS
    <3>2. MapTyped(cs)
      <4>1. contexts[m][q] \in Contexts
        BY <1>4, <2>2 DEF MapTyped
      <4>2. [contexts[m][q] EXCEPT !.port = TRUE] \in Contexts
        BY <4>1 DEF Contexts
      <4> QED
        BY <1>4, <2>2, <4>2 DEF MapTyped
    <3> QED
      BY <3>1, <3>2
  <2>4. \A r \in RoomIds \ DOMAIN cs : prs[r] = proc[r]
    BY <1>2, <1>4, <2>3
  <2>5. ASSUME NEW r \in DOMAIN cs
        PROVE  /\ Ending(cs[r], prs[r])
               /\ cs[r].state = contexts[m][r].state
               /\ cs[r].age = contexts[m][r].age
               /\ "ok" \in Answer(cs[r], r) /\ r \notin late' => cs[r].age <= Grace
    <3>1. r \in RoomIds /\ r \in DOMAIN contexts[m] /\ contexts[m][r] \in Contexts
      BY <2>2, <2>3, <2>5 DEF MapTyped
    <3>2. /\ Timely(contexts[m][r], proc[r])
          /\ Agrees(contexts[m][r], task[r], proc[r], sent[r])
      BY <3>1 DEF AllTimed, Timed, Inv, Started
    <3>3. CASE r # q
      <4>1. cs[r] = contexts[m][r] /\ prs[r] = proc[r]
        BY <1>2, <3>1, <3>3
      <4>2. "ok" \notin Answer(contexts[m][r], r)
        BY <3>2, NoOkIsHeld
      <4> HIDE DEF cs, prs
      <4> QED
        BY <3>2, <4>1, <4>2 DEF Timely
    <3>4. CASE r = q
      <4> DEFINE c == contexts[m][q]
                 d == [c EXCEPT !.port = TRUE]
      <4>1. cs[r] = d /\ c \in Contexts
        BY <3>1, <3>4
      <4>2. d.state = c.state /\ d.age = c.age
        BY <4>1 DEF Contexts
      <4>3. prs[r] = "reported" /\ c.state # "WaitKillGameServer"
        BY <1>1, <1>2, <3>2, <3>4 DEF Timely, Ending
      <4>4. r \notin late' => ~(c.age > Grace)
        BY <2>1, <3>4
      <4>5. c.age \in Int /\ Grace \in Int
        BY <4>1, TimesAssumption, TimesAreTyped DEF Contexts
      <4>6. Ending(d, "reported")
        BY <4>2, <4>3 DEF Ending
      <4>7. contexts[m][r] = c
        BY <3>4
      <4> HIDE DEF c, d, cs, prs
      <4> QED
        BY <4>1, <4>2, <4>3, <4>4, <4>5, <4>6, <4>7
    <3> QED
      BY <3>3, <3>4
  <2>6. late \subseteq late'
    BY <2>1
  <2> HIDE DEF cs, prs
  <2> QED
    BY <1>1, <2>1, <2>3, <2>4, <2>5, <2>6, TickKeepsTime
<1> QED
  BY <1>3, <1>4

\* The game server that reported GameOver is not killed while it runs.
LEMMA ReportGameOverKeepsTime ==
  ASSUME TypeOK, Inv, AllTimed, NEW m \in Machines, NEW q \in RoomIds, ReportGameOver(m, q)
  PROVE  AllTimed'
<1>1. /\ proc[q] = "reported" /\ proc' = [proc EXCEPT ![q] = "over"]
      /\ UNCHANGED <<hallRoom, hallAge, late, fromMgr>>
      /\ \/ UNCHANGED <<contexts, toMgr>>
         \/ /\ toMgr' = [toMgr EXCEPT ![m] = Append(@, Msg("over", q))]
            /\ contexts' = IF q \in DOMAIN contexts[m]
                 THEN [contexts EXCEPT ![m][q].state = "WaitKillGameServer", ![m][q].age = 0]
                 ELSE contexts
  BY DEF ReportGameOver, hallVars
<1>2. ASSUME NEW r \in RoomIds PROVE Calm(Msg("ok", r))
  <2> DEFINE ok   == Msg("ok", r)
             over == Msg("over", q)
  <2>1. m \in Peers /\ over \in Messages /\ ok # over
    BY DEF Peers, Messages, Msg
  <2>2. toMgr' = toMgr \/ toMgr' = [toMgr EXCEPT ![m] = Append(@, over)]
    BY <1>1
  <2> HIDE DEF ok, over
  <2>3. Calm(ok)
    BY <1>1, <2>1, <2>2, ClearedTransit, OneSent DEF Calm
  <2> QED
    BY <2>3 DEF ok
<1> SUFFICES ASSUME NEW r \in RoomIds PROVE Timed(r)'
  BY DEF AllTimed
<1>3. Timed(r) /\ Calm(Msg("ok", r))
  BY <1>2 DEF AllTimed
<1>4. proc'[r] = proc[r] \/ (r = q /\ proc[r] = "reported" /\ proc'[r] = "over")
  BY <1>1 DEF TypeOK
<1>5. ASSUME \A n \in Machines : r \in DOMAIN contexts'[n] =>
               r \in DOMAIN contexts[n] /\ contexts'[n][r] = contexts[n][r]
      PROVE  Timed(r)'
  BY <1>1, <1>3, <1>4, <1>5, LeftAlone
<1>6. CASE contexts' = contexts
  BY <1>5, <1>6
<1>7. CASE /\ q \in DOMAIN contexts[m]
           /\ contexts' =
                [contexts EXCEPT ![m][q].state = "WaitKillGameServer", ![m][q].age = 0]
  <2> DEFINE cs == contexts[m]
  <2>1. DOMAIN contexts = Machines /\ cs \in [DOMAIN cs -> Contexts] /\ q \in DOMAIN cs
    BY <1>7 DEF TypeOK
  <2>2. /\ contexts'[m] = [cs EXCEPT ![q].state = "WaitKillGameServer", ![q].age = 0]
        /\ \A n \in Machines \ {m} : contexts'[n] = contexts[n]
    BY <1>7, <2>1
  <2>3. /\ DOMAIN contexts'[m] = DOMAIN cs
        /\ contexts'[m][q] = [cs[q] EXCEPT !.state = "WaitKillGameServer", !.age = 0]
        /\ \A o \in DOMAIN cs \ {q} : contexts'[m][o] = cs[o]
    <3>1. cs[q] \in Contexts
      BY <2>1
    <3>2. contexts'[m] = [cs EXCEPT ![q] = [cs[q] EXCEPT !.state = "WaitKillGameServer", !.age = 0]]
      BY <2>1, <2>2, <3>1
    <3> QED
      BY <2>1, <3>2
  <2>4. CASE r # q
    <3>1. \A n \in Machines : r \in DOMAIN contexts'[n] =>
            r \in DOMAIN contexts[n] /\ contexts'[n][r] = contexts[n][r]
      BY <2>2, <2>3, <2>4
    <3> QED
      BY <1>5, <3>1
  <2>5. CASE r = q
    <3>1. \A n \in Machines : r \in DOMAIN contexts[n] => n = m
      BY <2>1, <2>5 DEF Inv, Asked
    <3>2. ASSUME NEW n \in Machines, r \in DOMAIN contexts'[n]
          PROVE  contexts'[n][r].state = "WaitKillGameServer"
      <4>1. n = m
        BY <2>2, <3>1, <3>2
      <4>2. cs[q] \in Contexts
        BY <2>1
      <4> QED
        BY <2>3, <2>5, <4>1, <4>2 DEF Contexts
    <3>3. proc'[r] = "over"
      BY <1>1, <1>4, <2>5 DEF TypeOK
    <3> QED
      BY <3>2, <3>3 DEF Timed, Timely, Ending, Young
  <2> QED
    BY <2>4, <2>5
<1> QED
  BY <1>1, <1>6, <1>7

\* A new context belongs to a room of which no machine knew.
LEMMA PacketKeepsTime ==
  ASSUME TypeOK, Inv, AllTimed, NEW m \in Machines, onSessionPacket(m)
  PROVE  AllTimed'
<1> DEFINE msg == Head(fromMgr[m])
<1>1. /\ fromMgr[m] # <<>> /\ fromMgr' = [fromMgr EXCEPT ![m] = Tail(@)] /\ m \in Peers
      /\ UNCHANGED <<hallRoom, hallAge, toMgr, proc, late>>
  BY DEF onSessionPacket, hallVars, Peers
<1>2. InAir(msg) /\ \A x : Calm(x)
  BY <1>1, ReceivedTransit DEF Calm
<1>3. msg \in Messages /\ msg = Msg(msg.kind, msg.room)
  BY <1>1, TakeTyped, MsgIsRecord
<1>4. \/ contexts' = contexts
      \/ \E q \in RoomIds :
           /\ msg = Msg("request", q)
           /\ contexts' = [contexts EXCEPT ![m] =
                [r \in DOMAIN contexts[m] \cup {q} |->
                   IF r = q THEN NewContext ELSE contexts[m][r]]]
  <2>1. CASE msg.kind = "request"
    <3>1. msg.room \in RoomIds
      <4> HIDE DEF msg
      <4> QED
        BY <1>3, <2>1 DEF Messages
    <3> QED
      BY <1>3, <2>1, <3>1 DEF onSessionPacket
  <2>2. CASE msg.kind # "request"
    BY <2>2 DEF onSessionPacket
  <2> QED
    BY <2>1, <2>2
<1> HIDE DEF msg
<1> SUFFICES ASSUME NEW r \in RoomIds PROVE Timed(r)'
  BY DEF AllTimed
<1>5. Timed(r) /\ Calm(Msg("ok", r))
  BY <1>2 DEF AllTimed
<1>6. ASSUME \A n \in Machines : r \in DOMAIN contexts'[n] =>
               r \in DOMAIN contexts[n] /\ contexts'[n][r] = contexts[n][r]
      PROVE  Timed(r)'
  BY <1>1, <1>5, <1>6, LeftAlone
<1>7. CASE contexts' = contexts
  BY <1>6, <1>7
<1>8. ASSUME NEW q \in RoomIds, msg = Msg("request", q),
             contexts' = [contexts EXCEPT ![m] =
               [o \in DOMAIN contexts[m] \cup {q} |->
                  IF o = q THEN NewContext ELSE contexts[m][o]]]
      PROVE  Timed(r)'
  <2>1. /\ \A n \in Machines \ {m} : contexts'[n] = contexts[n]
        /\ DOMAIN contexts'[m] = DOMAIN contexts[m] \cup {q}
        /\ contexts'[m][q] = NewContext
        /\ \A o \in DOMAIN contexts[m] : o # q => contexts'[m][o] = contexts[m][o]
    BY <1>8 DEF TypeOK
  <2>2. CASE r # q
    BY <1>6, <2>1, <2>2
  <2>3. CASE r = q
    <3>1. Idle(q)
      BY <1>2, <1>8 DEF Inv, Asked
    <3>2. ~InAir(Msg("ok", r))' /\ hallRoom'[r] # "playing"
      BY <1>1, <1>5, <2>3, <3>1 DEF Inv, Answered, Idle, Calm
    <3>3. \A n \in Machines : r \in DOMAIN contexts'[n] => contexts'[n][r] = NewContext
      BY <2>1, <2>3, <3>1 DEF Idle
    <3>4. Timely(NewContext, proc'[r])
      BY <1>1, <2>3, <3>1 DEF NewContext, Timely, Ending, Idle
    <3> QED
      BY <3>2, <3>3, <3>4 DEF Timed
  <2> QED
    BY <2>2, <2>3
<1> QED
  BY <1>4, <1>7, <1>8

\* The OK starts the clock of halls while the one of the machine shows Grace
\* at most.
LEMMA AnswerKeepsTime ==
  ASSUME TypeOK, Inv, AllTimed, onCreateRoomServerCB
  PROVE  AllTimed'
<1> DEFINE head == Head(fromMgr[Halls])
<1>1. /\ fromMgr[Halls] # <<>> /\ fromMgr' = [fromMgr EXCEPT ![Halls] = Tail(@)]
      /\ UNCHANGED <<toMgr, contexts, proc, late>> /\ Halls \in Peers
  BY DEF onCreateRoomServerCB, machineVars, Peers
<1>2. head \in Messages /\ head = Msg(head.kind, head.room)
  BY <1>1, TakeTyped, MsgIsRecord
<1>3. InAir(head) /\ \A msg : /\ Calm(msg)
                              /\ Once(msg) /\ msg = head => ~InAir(msg)'
  BY <1>1, ReceivedTransit DEF Calm
<1>4. \/ UNCHANGED hallVars
      \/ /\ head.kind = "ok"
         /\ hallRoom' = [hallRoom EXCEPT ![head.room] = "playing"]
         /\ hallAge' = [hallAge EXCEPT ![head.room] = 0]
      \/ hallRoom' = [hallRoom EXCEPT ![head.room] = "gone"] /\ UNCHANGED hallAge
  BY DEF onCreateRoomServerCB
<1> HIDE DEF head
<1> SUFFICES ASSUME NEW r \in RoomIds PROVE Timed(r)'
  BY DEF AllTimed
<1>5. Timed(r) /\ Calm(Msg("ok", r))
  BY <1>3 DEF AllTimed
<1>6. CASE hallRoom'[r] = "playing" => hallRoom[r] = "playing" /\ hallAge'[r] = hallAge[r]
  BY <1>1, <1>5, <1>6, LeftAlone
<1>7. CASE head = Msg("ok", r) /\ hallAge'[r] = 0
  <2>1. Answered(r) /\ InAir(Msg("ok", r)) /\ ~InAir(Msg("ok", r))'
    BY <1>3, <1>7 DEF Inv, Answered
  <2>2. 0 + Grace = Grace
    BY TimesAssumption
  <2> QED
    BY <1>1, <1>5, <1>7, <2>1, <2>2 DEF Timed
<1>8. \/ hallRoom'[r] = "playing" => hallRoom[r] = "playing" /\ hallAge'[r] = hallAge[r]
      \/ head = Msg("ok", r) /\ hallAge'[r] = 0
  BY <1>2, <1>4 DEF TypeOK, hallVars
<1> QED
  BY <1>6, <1>7, <1>8

\* Both clocks go on together, and none while the OK is on its way.
LEMMA AdvanceKeepsTime ==
  ASSUME TypeOK, Inv, AllTimed, Advance, Prompt
  PROVE  AllTimed'
<1>1. /\ UNCHANGED <<hallRoom, proc, late, toMgr, fromMgr>>
      /\ Quiet
      /\ hallAge' = [r \in RoomIds |->
           IF hallRoom[r] \in {"creating", "playing"} THEN Older(hallAge[r]) ELSE hallAge[r]]
      /\ contexts' = [m \in Machines |->
           [r \in DOMAIN contexts[m] |-> [contexts[m][r] EXCEPT !.age = Older(@)]]]
  BY DEF Advance, netVars
<1>2. \A msg : ~InAir(msg)'
  <2>1. \A p \in Peers : toMgr'[p] = <<>> /\ fromMgr'[p] = <<>>
    BY <1>1 DEF Quiet
  <2> QED
    BY <2>1, NothingInEmpty DEF InAir, ToMgr, FromMgr, Carries
<1> SUFFICES ASSUME NEW r \in RoomIds PROVE Timed(r)'
  BY DEF AllTimed
<1>3. Timed(r)
  BY DEF AllTimed
<1>4. ASSUME NEW n \in Machines, r \in DOMAIN contexts'[n]
      PROVE  /\ r \in DOMAIN contexts[n]
             /\ Timely(contexts'[n][r], proc'[r])
             /\ contexts'[n][r].state = contexts[n][r].state
             /\ contexts'[n][r].age = Older(contexts[n][r].age)
  <2> DEFINE c == contexts[n][r]
             d == [c EXCEPT !.age = Older(@)]
  <2>1. r \in DOMAIN contexts[n] /\ contexts'[n][r] = d
    BY <1>1, <1>4
  <2>2. c \in Contexts /\ Timely(c, proc[r])
    BY <1>3, <2>1 DEF Timed, TypeOK
  <2>3. d.state = c.state /\ d.age = Older(c.age) /\ d.port = c.port
    BY <2>2 DEF Contexts
  <2>4. Timely(d, proc'[r])
    BY <1>1, <2>2, <2>3 DEF Timely, Ending
  <2> QED
    BY <2>1, <2>3, <2>4
<1>5. ASSUME NEW a \in 0..MaxAge, NEW h \in 0..MaxAge
      PROVE  /\ a <= h + Grace => Older(a) <= Older(h) + Grace
             /\ h > GameTime => Older(h) > GameTime
  BY TimesAssumption DEF Older, MaxAge
<1>6. ASSUME hallRoom'[r] = "playing", r \notin late'
      PROVE  /\ proc'[r] = "killed" => hallAge'[r] > GameTime
             /\ \A n \in Machines : r \in DOMAIN contexts'[n] =>
                  Young(contexts'[n][r], hallAge'[r] + Grace)
  <2>1. hallAge'[r] = Older(hallAge[r]) /\ hallAge[r] \in 0..MaxAge
    BY <1>1, <1>6 DEF TypeOK
  <2>2. proc'[r] = "killed" => hallAge'[r] > GameTime
    BY <1>1, <1>3, <1>5, <1>6, <2>1 DEF Timed
  <2>3. ASSUME NEW n \in Machines, r \in DOMAIN contexts'[n]
        PROVE  Young(contexts'[n][r], hallAge'[r] + Grace)
    <3>1. contexts[n][r].age \in 0..MaxAge /\ Young(contexts[n][r], hallAge[r] + Grace)
      <4>1. r \in DOMAIN contexts[n] /\ contexts[n][r] \in Contexts
        BY <1>4, <2>3 DEF TypeOK
      <4> QED
        BY <1>1, <1>3, <1>6, <4>1 DEF Timed, Contexts
    <3> QED
      BY <1>4, <1>5, <2>1, <2>3, <3>1 DEF Young
  <2> QED
    BY <2>2, <2>3
<1> QED
  BY <1>2, <1>4, <1>6 DEF Timed

LEMMA NextTime ==
  ASSUME TypeOK, Inv, AllTimed, [Next]_vars, Prompt
  PROVE  AllTimed'
<1>1. ASSUME NEW m \in Machines, onTick(m) PROVE AllTimed'
  BY <1>1, OnTickKeepsTime
<1>2. ASSUME NEW m \in Machines, NEW r \in RoomIds,
             onSessionRoomSrvReportAddr(m, r) \/ ReportGameOver(m, r)
      PROVE  AllTimed'
  BY <1>2, ReportAddrKeepsTime, ReportGameOverKeepsTime
<1>3. CASE \A r \in RoomIds : Calm(Msg("ok", r))
  <2> DEFINE Alone(r) ==
               /\ late' = late
               /\ hallRoom'[r] = "playing" => hallRoom[r] = "playing" /\ hallAge'[r] = hallAge[r]
               /\ \A n \in Machines : r \in DOMAIN contexts'[n] =>
                    r \in DOMAIN contexts[n] /\ contexts'[n][r] = contexts[n][r]
               /\ \/ proc'[r] = proc[r]
                  \/ proc'[r] = "dead"
                  \/ proc'[r] # "killed" /\ proc[r] \notin {"over", "dead"}
  <2>1. ASSUME \A r \in RoomIds : Alone(r) PROVE AllTimed'
    BY <1>3, <2>1, LeftAlone DEF AllTimed
  <2>2. ASSUME UNCHANGED <<hallRoom, hallAge, contexts, proc, late>> PROVE AllTimed'
    BY <2>1, <2>2
  <2>3. ASSUME UNCHANGED vars PROVE AllTimed'
    BY <2>2, <2>3 DEF vars, hallVars, machineVars
  <2>4. ASSUME NEW p \in Peers,
               connectServer(p) \/ SendHello(p) \/ ConnectionBreaks(p) \/ onSessionHello(p)
        PROVE  AllTimed'
    BY <2>2, <2>4 DEF connectServer, SendHello, ConnectionBreaks, onSessionHello,
                      hallVars, machineVars
  <2>5. ASSUME RoommgrCrashes \/ onSessionRequestCreateRoom PROVE AllTimed'
    BY <2>2, <2>5 DEF RoommgrCrashes, onSessionRequestCreateRoom, hallVars, machineVars
  <2>6. ASSUME NEW m \in Machines,
               onSessionRequestCreateRoomCB(m) \/ onSessionRoomSrvGameOverReport(m)
        PROVE  AllTimed'
    BY <2>2, <2>6 DEF onSessionRequestCreateRoomCB, onSessionRoomSrvGameOverReport,
                      hallVars, machineVars
  <2>7. ASSUME NEW m \in Machines, MachineCrashes(m) PROVE AllTimed'
    <3>1. /\ UNCHANGED <<hallRoom, hallAge, proc, late>>
          /\ contexts' = [contexts EXCEPT ![m] = NoContext]
      BY <2>7 DEF MachineCrashes, hallVars
    <3>2. \A n \in Machines : contexts'[n] = contexts[n] \/ DOMAIN contexts'[n] = {}
      BY <3>1 DEF TypeOK, NoContext
    <3> QED
      BY <2>1, <3>1, <3>2
  <2>8. ASSUME NEW q \in RoomIds, createRoomServer(q) PROVE AllTimed'
    <3>1. /\ UNCHANGED <<contexts, proc, late>>
          /\ hallAge' = [hallAge EXCEPT ![q] = 0]
          /\ \E to \in {"gone", "creating"} : hallRoom' = [hallRoom EXCEPT ![q] = to]
      BY <2>8 DEF createRoomServer, machineVars
    <3>2. \A r \in RoomIds :
            hallRoom'[r] = "playing" => hallRoom[r] = "playing" /\ hallAge'[r] = hallAge[r]
      BY <3>1 DEF TypeOK
    <3> QED
      BY <2>1, <3>1, <3>2
  <2>9. ASSUME NEW q \in RoomIds, RoomTick(q) PROVE AllTimed'
    <3>1. /\ UNCHANGED <<hallAge, contexts, proc, late>>
          /\ hallRoom' = [hallRoom EXCEPT ![q] = "gone"]
      BY <2>9 DEF RoomTick, machineVars
    <3>2. \A r \in RoomIds : hallRoom'[r] = "playing" => hallRoom[r] = "playing"
      BY <3>1 DEF TypeOK
    <3> QED
      BY <2>1, <3>1, <3>2
  <2>10. ASSUME NEW q \in RoomIds, StartProcess(q) \/ GameServerExits(q) PROVE AllTimed'
    <3>1. UNCHANGED <<hallRoom, hallAge, contexts, late>>
      BY <2>10 DEF StartProcess, GameServerExits, hallVars
    <3>2. ASSUME NEW r \in RoomIds
          PROVE  \/ proc'[r] = proc[r]
                 \/ proc'[r] = "dead"
                 \/ proc'[r] # "killed" /\ proc[r] \notin {"over", "dead"}
      <4>1. task[r] = "queued" => proc[r] = "none"
        BY DEF Inv, Started, Sound
      <4> QED
        BY <2>10, <4>1 DEF StartProcess, GameServerExits, TypeOK
    <3> QED
      BY <2>1, <3>1, <3>2
  <2> HIDE DEF Alone
  <2>11. ASSUME NEW p \in Peers, Deliver(p) PROVE AllTimed'
    BY <2>4, <2>5, <2>6, <2>11, PacketKeepsTime, AnswerKeepsTime DEF Deliver
  <2>12. ASSUME Advance PROVE AllTimed'
    BY <2>12, AdvanceKeepsTime
  <2> QED
    BY <1>1, <1>2, <2>3, <2>4, <2>5, <2>7, <2>8, <2>9, <2>10, <2>11, <2>12 DEF Next
<1>4. ASSUME NEW q \in RoomIds, ~Calm(Msg("ok", q)) PROVE AllTimed'
  <2>1. Msg("ok", q).kind = "ok"
    BY DEF Msg
  <2> QED
    BY <1>1, <1>2, <1>4, <2>1, OthersCalm
<1> QED
  BY <1>3, <1>4

LEMMA InitTime == Init => AllTimed
<1> SUFFICES ASSUME Init, NEW r \in RoomIds PROVE Timed(r)
  BY DEF AllTimed
<1>1. /\ hallRoom[r] = "filling"
      /\ \A p \in Peers : toMgr[p] = <<>> /\ fromMgr[p] = <<>>
      /\ \A m \in Machines : DOMAIN contexts[m] = {}
  BY DEF Init, NoContext
<1>2. ~InAir(Msg("ok", r))
  BY <1>1, NothingInEmpty DEF InAir, ToMgr, FromMgr, Carries
<1> QED
  BY <1>1, <1>2 DEF Timed

\* The machine does not kill the server of a game that may still be played,
\* whatever breaks and crashes, if that server reported within Grace.
THEOREM GamesHaveTheirTime == Spec => []GameHasItsTime
<1>1. Init => (Prompt => AllTimed)
  BY InitTime
<1>2. (Prompt => AllTimed) /\ TypeOK /\ Inv /\ [Next]_vars => (Prompt => AllTimed)'
  BY NextTime
<1>3. TypeOK /\ (Prompt => AllTimed) => GameHasItsTime
  <2> SUFFICES ASSUME TypeOK, AllTimed, NEW r \in RoomIds, hallRoom[r] = "playing",
                      hallAge[r] <= GameTime, r \notin late, proc[r] = "killed"
               PROVE  FALSE
    BY DEF GameHasItsTime
  <2>1. hallAge[r] > GameTime
    BY DEF AllTimed, Timed
  <2>2. hallAge[r] \in Int /\ GameTime \in Int
    BY TimesAssumption, TimesAreTyped DEF TypeOK
  <2> QED
    BY <2>1, <2>2
<1> QED
  BY <1>1, <1>2, <1>3, RoomServersInvariant, PTL DEF Spec

-------------------------------------------------------------------------------
(* The load of the machines.  roommgr counts a server when it sends the      *)
(* request and takes it off with the GameOver report, so what it counts is   *)
(* covered as long as a report is seen once and after the server ended       *)
(* (Ends), and the machine was known before it was given anything (Greets).  *)

Has(queue, msg)  == \E i : Carries(queue, msg, i)
Sole(queue, msg) == \A i, j : Carries(queue, msg, i) /\ Carries(queue, msg, j) => i = j

LEMMA HasTail ==
  ASSUME NEW queue \in Seq(Messages), queue # <<>>
  PROVE  /\ Has(queue, Head(queue))
         /\ \A msg : /\ Has(Tail(queue), msg) => Has(queue, msg)
                     /\ Sole(queue, msg) => Sole(Tail(queue), msg)
                     /\ Sole(queue, msg) /\ msg = Head(queue) => ~Has(Tail(queue), msg)
<1>1. /\ Carries(queue, Head(queue), 1)
      /\ \A msg, i : Carries(Tail(queue), msg, i) => i \in Nat \ {0} /\ Carries(queue, msg, i + 1)
  BY TailFacts
<1> SUFFICES ASSUME NEW msg
             PROVE  /\ Has(Tail(queue), msg) => Has(queue, msg)
                    /\ Sole(queue, msg) => Sole(Tail(queue), msg)
                    /\ Sole(queue, msg) /\ msg = Head(queue) => ~Has(Tail(queue), msg)
  BY <1>1 DEF Has
<1>2. Has(Tail(queue), msg) => Has(queue, msg)
  BY <1>1 DEF Has
<1>3. ASSUME Sole(queue, msg), NEW i, NEW j,
             Carries(Tail(queue), msg, i), Carries(Tail(queue), msg, j)
      PROVE  i = j
  <2>1. i \in Nat /\ j \in Nat /\ i + 1 = j + 1
    BY <1>1, <1>3 DEF Sole
  <2> QED
    BY <2>1
<1>4. ASSUME Sole(queue, msg), msg = Head(queue), NEW i, Carries(Tail(queue), msg, i)
      PROVE  FALSE
  <2>1. i \in Nat \ {0} /\ i + 1 = 1
    BY <1>1, <1>4 DEF Sole
  <2> QED
    BY <2>1
<1> QED
  BY <1>2, <1>3, <1>4 DEF Has, Sole

LEMMA HasAppend ==
  ASSUME NEW queue \in Seq(Messages), NEW x \in Messages, NEW msg
  PROVE  /\ Has(Append(queue, x), msg) => Has(queue, msg) \/ msg = x
         /\ Sole(queue, msg) /\ (msg = x => ~Has(queue, msg)) => Sole(Append(queue, x), msg)
<1>1. \A i : Carries(Append(queue, x), msg, i) =>
        Carries(queue, msg, i) \/ (msg = x /\ i = Len(queue) + 1)
  BY AppendFacts
<1> QED
  BY <1>1 DEF Has, Sole

LEMMA HasConcat ==
  ASSUME NEW queue \in Seq(Messages), NEW s \in Seq(Messages), NEW msg,
         \A i \in DOMAIN s : s[i] # msg
  PROVE  /\ Has(queue \o s, msg) => Has(queue, msg)
         /\ Sole(queue, msg) => Sole(queue \o s, msg)
<1>1. \A i : Carries(queue \o s, msg, i) => Carries(queue, msg, i)
  BY ConcatFacts
<1> QED
  BY <1>1 DEF Has, Sole

LEMMA HasIsInAir ==
  ASSUME NEW p \in Peers, NEW msg, Has(toMgr[p], msg) \/ Has(fromMgr[p], msg)
  PROVE  InAir(msg)
BY DEF Has, InAir, ToMgr, FromMgr

\* A GameOver report of the room is on its way once, and only after it ended.
Ends(r) ==
  /\ Once(Msg("over", r))
  /\ InAir(Msg("over", r)) => proc[r] \in {"over", "dead"}

AllEnd == \A r \in RoomIds : Ends(r)

\* A game server that ended does not come back.
LEMMA TickLeavesEnded ==
  ASSUME TypeOK, NEW m \in Machines, NEW cs, MapTyped(cs), NEW prs, Tick(m, cs, prs),
         NEW r \in RoomIds, prs[r] \in {"over", "dead"}
  PROVE  proc'[r] \in {"over", "dead"}
<1>1. LET killed == r \in DOMAIN cs /\ cs[r].pid /\ KillDue(cs[r])
      IN  /\ ~killed => proc'[r] = prs[r]
          /\ killed => proc'[r] = IF prs[r] = "reported" THEN "killed" ELSE "dead"
  BY TickEffects
<1> QED
  BY <1>1

\* The report of one room: who sends it, and when.
LEMMA EndsKept ==
  ASSUME TypeOK, Inv, [Next]_vars, NEW r \in RoomIds, Ends(r)
  PROVE  Ends(r)'
<1> DEFINE over == Msg("over", r)
<1>1. over.kind = "over" /\ over \in Messages
  BY DEF Msg, Messages
<1>2. ASSUME Calm(over), proc[r] \in {"over", "dead"} => proc'[r] \in {"over", "dead"}
      PROVE  Ends(r)'
  BY <1>2 DEF Ends, Calm
<1>3. ASSUME NEW m \in Machines, onTick(m) PROVE Ends(r)'
  <2>1. Tick(m, contexts[m], proc) /\ UNCHANGED fromMgr /\ MapTyped(contexts[m])
    BY <1>3 DEF onTick, TypeOK, MapTyped
  <2>2. Calm(over)
    BY <1>1, <2>1, TickEffects
  <2> QED
    BY <1>2, <2>1, <2>2, TickLeavesEnded
<1>4. ASSUME NEW m \in Machines, NEW q \in RoomIds, onSessionRoomSrvReportAddr(m, q)
      PROVE  Ends(r)'
  <2> DEFINE prs == [proc EXCEPT ![q] = "reported"]
             cs  == [contexts[m] EXCEPT ![q].port = TRUE]
  <2>1. proc[q] = "up" /\ UNCHANGED fromMgr
    BY <1>4 DEF onSessionRoomSrvReportAddr
  <2>2. proc[r] \in {"over", "dead"} => prs[r] \in {"over", "dead"}
    BY <2>1 DEF TypeOK
  <2>3. CASE q \notin DOMAIN contexts[m]
    <3>1. proc' = prs /\ UNCHANGED toMgr
      BY <1>4, <2>3 DEF onSessionRoomSrvReportAddr
    <3>2. Calm(over)
      BY <2>1, <3>1, ClearedTransit DEF Calm
    <3> QED
      BY <1>2, <2>2, <3>1, <3>2
  <2>4. CASE q \in DOMAIN contexts[m]
    <3>1. Tick(m, cs, prs)
      BY <1>4, <2>4 DEF onSessionRoomSrvReportAddr
    <3>2. MapTyped(cs)
      <4>1. MapTyped(contexts[m]) /\ contexts[m][q] \in Contexts
        BY <2>4 DEF TypeOK, MapTyped
      <4>2. [contexts[m][q] EXCEPT !.port = TRUE] \in Contexts
        BY <4>1 DEF Contexts
      <4> QED
        BY <2>4, <4>1, <4>2 DEF MapTyped
    <3> HIDE DEF cs, prs, over
    <3>3. Calm(over)
      BY <1>1, <2>1, <3>1, <3>2, TickEffects
    <3> QED
      BY <1>2, <2>2, <3>1, <3>2, <3>3, TickLeavesEnded
  <2> QED
    BY <2>3, <2>4
<1>5. ASSUME NEW m \in Machines, NEW q \in RoomIds, ReportGameOver(m, q) PROVE Ends(r)'
  <2> DEFINE x == Msg("over", q)
  <2>1. /\ proc[q] = "reported" /\ proc' = [proc EXCEPT ![q] = "over"] /\ UNCHANGED fromMgr
        /\ toMgr' = toMgr \/ toMgr' = [toMgr EXCEPT ![m] = Append(@, x)]
        /\ m \in Peers
    BY <1>5 DEF ReportGameOver, Peers
  <2>2. proc'[q] = "over" /\ (r # q => proc'[r] = proc[r])
    BY <2>1 DEF TypeOK
  <2>3. x \in Messages /\ (over = x => r = q)
    BY DEF Msg, Messages
  <2>4. r = q => ~InAir(over)
    BY <2>1 DEF Ends
  <2>5. r = q => over = x
    OBVIOUS
  <2> HIDE DEF x, over
  <2>6. CASE toMgr' = toMgr
    <3>1. Calm(over)
      BY <2>1, <2>6, ClearedTransit DEF Calm
    <3> QED
      BY <1>2, <2>2, <3>1
  <2>7. CASE toMgr' = [toMgr EXCEPT ![m] = Append(@, x)]
    <3>1. /\ InAir(over)' => InAir(over) \/ over = x
          /\ Once(over) /\ (InAir(over) => over # x) => Once(over)'
      BY <2>1, <2>3, <2>7, OneSent
    <3>2. Once(over) /\ (InAir(over) => proc[r] \in {"over", "dead"})
      BY DEF Ends, over
    <3>3. Once(over)' /\ (InAir(over)' => proc'[r] \in {"over", "dead"})
      BY <2>2, <2>3, <2>4, <3>1, <3>2
    <3> QED
      BY <3>3 DEF Ends, over
  <2> QED
    BY <2>1, <2>6, <2>7
<1>6. CASE Calm(over)
  <2>1. ASSUME UNCHANGED proc PROVE Ends(r)'
    BY <1>2, <1>6, <2>1
  <2>2. ASSUME UNCHANGED vars PROVE Ends(r)'
    BY <2>1, <2>2 DEF vars, machineVars
  <2>3. ASSUME NEW p \in Peers,
               connectServer(p) \/ SendHello(p) \/ ConnectionBreaks(p) \/ onSessionHello(p)
        PROVE  Ends(r)'
    BY <2>1, <2>3 DEF connectServer, SendHello, ConnectionBreaks, onSessionHello, machineVars
  <2>4. ASSUME RoommgrCrashes \/ onSessionRequestCreateRoom \/ onCreateRoomServerCB \/ Advance
        PROVE  Ends(r)'
    BY <2>1, <2>4 DEF RoommgrCrashes, onSessionRequestCreateRoom, onCreateRoomServerCB, Advance,
                      machineVars
  <2>5. ASSUME NEW m \in Machines,
               \/ onSessionRequestCreateRoomCB(m) \/ onSessionRoomSrvGameOverReport(m)
               \/ MachineCrashes(m) \/ onSessionPacket(m)
        PROVE  Ends(r)'
    BY <2>1, <2>5 DEF onSessionRequestCreateRoomCB, onSessionRoomSrvGameOverReport,
                      MachineCrashes, onSessionPacket, machineVars
  <2>6. ASSUME NEW q \in RoomIds, createRoomServer(q) \/ RoomTick(q) PROVE Ends(r)'
    BY <2>1, <2>6 DEF createRoomServer, RoomTick, machineVars
  <2>7. ASSUME NEW q \in RoomIds, StartProcess(q) \/ GameServerExits(q) PROVE Ends(r)'
    <3>1. task[r] = "queued" => proc[r] = "none"
      BY DEF Inv, Started, Sound
    <3>2. proc[r] \in {"over", "dead"} => proc'[r] \in {"over", "dead"}
      BY <2>7, <3>1 DEF StartProcess, GameServerExits, TypeOK
    <3> QED
      BY <1>2, <1>6, <3>2
  <2>8. ASSUME NEW p \in Peers, Deliver(p) PROVE Ends(r)'
    BY <2>3, <2>4, <2>5, <2>8 DEF Deliver
  <2> QED
    BY <1>3, <1>4, <1>5, <2>2, <2>3, <2>4, <2>5, <2>6, <2>7, <2>8 DEF Next
<1> HIDE DEF over
<1> QED
  BY <1>1, <1>3, <1>4, <1>5, <1>6, OthersCalm

Hello == Msg("hello", NoRoom)

\* The Hello of a machine is on its way once, before roommgr knows it.
Greets(m) ==
  /\ Sole(toMgr[m], Hello)
  /\ Has(toMgr[m], Hello) => link[m] = "up" /\ m \notin known
  /\ link[m] # "up" => m \notin known

\* What roommgr must have counted for machine m: the burden, and the servers
\* whose GameOver report it has yet to see.
Holds(m, r) ==
  \/ Has(fromMgr[m], Msg("request", r))
  \/ host[r] = m /\ (task[r] = "queued" \/ proc[r] \in {"up", "reported"})
  \/ r \in DOMAIN contexts[m] /\ contexts[m][r].state = "WaitCreate"
  \/ Has(toMgr[m], Msg("over", r))
Held(m) == {r \in RoomIds : Holds(m, r)}

Covered(m) == (m \notin known => Held(m) = {}) /\ load[m] >= Cardinality(Held(m))

\* Nothing broke or crashed so far.
Steady == breaks = 0 /\ crashes = 0
Loads  == Steady => \A m \in Machines : Greets(m) /\ Covered(m)

LEMMA HeldIsFinite ==
  ASSUME NEW m
  PROVE  IsFiniteSet(Held(m)) /\ Cardinality(Held(m)) \in Nat
<1>1. Held(m) \in SUBSET RoomIds
  BY DEF Held
<1>2. IsFiniteSet(Held(m))
  BY <1>1, RoomsAssumption, FS_Subset
<1> QED
  BY <1>2, FS_CardinalityType

\* The step gives machine m nothing, and takes nothing off its load.
Smooth(m) ==
  /\ link'[m] = "up" <=> link[m] = "up"
  /\ m \in known' <=> m \in known
  /\ load'[m] = load[m]
  /\ Has(toMgr'[m], Hello) => Has(toMgr[m], Hello)
  /\ Sole(toMgr[m], Hello) => Sole(toMgr'[m], Hello)
  /\ \A r \in RoomIds : Holds(m, r)' => Holds(m, r)

\* The rooms held after the step are held before.
LEMMA HeldShrinks ==
  ASSUME NEW m, \A r \in RoomIds : Holds(m, r)' => Holds(m, r)
  PROVE  /\ Held(m)' \subseteq Held(m)
         /\ Cardinality(Held(m)') <= Cardinality(Held(m))
         /\ Cardinality(Held(m)') \in Nat
<1>1. Held(m)' \subseteq Held(m)
  BY DEF Held
<1>2. IsFiniteSet(Held(m)) /\ Held(m)' \in SUBSET Held(m)
  BY <1>1, HeldIsFinite
<1>3. Cardinality(Held(m)') <= Cardinality(Held(m)) /\ IsFiniteSet(Held(m)')
  BY <1>2, FS_Subset
<1> QED
  BY <1>1, <1>3, FS_CardinalityType

LEMMA SmoothKeeps ==
  ASSUME TypeOK, NEW m \in Machines, Smooth(m), Greets(m), Covered(m)
  PROVE  Greets(m)' /\ Covered(m)'
<1>1. Greets(m)'
  BY DEF Smooth, Greets, Hello, Msg
<1>2. /\ Held(m)' \subseteq Held(m)
      /\ Cardinality(Held(m)') <= Cardinality(Held(m))
      /\ Cardinality(Held(m)') \in Nat
  BY HeldShrinks DEF Smooth
<1>3. Cardinality(Held(m)) \in Nat /\ load[m] \in Int
  BY HeldIsFinite DEF TypeOK
<1>4. m \notin known' => Held(m)' = {}
  BY <1>2 DEF Smooth, Covered
<1>5. load'[m] >= Cardinality(Held(m)')
  <2>1. load'[m] = load[m] /\ load[m] >= Cardinality(Held(m))
    BY DEF Smooth, Covered
  <2> QED
    BY <1>2, <1>3, <2>1
<1> QED
  BY <1>1, <1>4, <1>5 DEF Covered

\* The packets of a machine change, and nothing else that counts.
LEMMA SmoothPackets ==
  ASSUME NEW m \in Machines, UNCHANGED <<contexts, task, host, proc>>,
         link'[m] = "up" <=> link[m] = "up", m \in known' <=> m \in known, load'[m] = load[m],
         \A msg : /\ Has(toMgr'[m], msg) => Has(toMgr[m], msg)
                  /\ Has(fromMgr'[m], msg) => Has(fromMgr[m], msg) \/ msg.kind = "refused"
                  /\ Sole(toMgr[m], msg) => Sole(toMgr'[m], msg)
  PROVE  Smooth(m)
<1>1. \A r : Has(fromMgr'[m], Msg("request", r)) => Has(fromMgr[m], Msg("request", r))
  BY DEF Msg
<1>2. \A r \in RoomIds : Holds(m, r)' => Holds(m, r)
  <2> SUFFICES ASSUME NEW r \in RoomIds PROVE Holds(m, r)' => Holds(m, r)
    OBVIOUS
  <2>1. /\ Has(fromMgr'[m], Msg("request", r)) => Has(fromMgr[m], Msg("request", r))
        /\ Has(toMgr'[m], Msg("over", r)) => Has(toMgr[m], Msg("over", r))
    BY <1>1
  <2> QED
    BY <2>1 DEF Holds, Msg
<1>3. /\ Has(toMgr'[m], Hello) => Has(toMgr[m], Hello)
      /\ Sole(toMgr[m], Hello) => Sole(toMgr'[m], Hello)
  OBVIOUS
<1> QED
  BY <1>2, <1>3 DEF Smooth, Hello

\* A machine is entered with no load, and nothing was asked of it.
LEMMA SessionsKeepLoads ==
  ASSUME TypeOK, NEW p \in Peers, connectServer(p) \/ SendHello(p) \/ onSessionHello(p),
         NEW m \in Machines, Greets(m), Covered(m)
  PROVE  Greets(m)' /\ Covered(m)'
<1>1. UNCHANGED <<contexts, task, host, proc, fromMgr>>
  BY DEF connectServer, SendHello, onSessionHello, machineVars
<1>2. /\ m \in Peers /\ toMgr[m] \in Seq(Messages) /\ Hello \in Messages /\ Hello.kind = "hello"
      /\ \A r : Hello # Msg("over", r)
  BY DEF Peers, TypeOK, Hello, Msg, Messages
<1>3. CASE connectServer(p)
  <2>1. /\ UNCHANGED <<known, load, toMgr>> /\ link[p] = "down"
        /\ link' = [link EXCEPT ![p] = "connecting"]
    BY <1>3 DEF connectServer, mgrVars
  <2>2. link'[m] = "up" <=> link[m] = "up"
    BY <2>1 DEF TypeOK
  <2>3. Smooth(m)
    BY <1>1, <2>1, <2>2, SmoothPackets
  <2> QED
    BY <2>3, SmoothKeeps
<1>4. CASE SendHello(p)
  <2>1. /\ UNCHANGED <<known, load>> /\ link[p] = "connecting"
        /\ link' = [link EXCEPT ![p] = "up"]
        /\ toMgr' = [toMgr EXCEPT ![p] = Append(@, Hello)]
    BY <1>4 DEF SendHello, mgrVars, Hello
  <2>2. CASE m # p
    <3>1. link'[m] = link[m] /\ toMgr'[m] = toMgr[m]
      BY <1>2, <2>1, <2>2 DEF TypeOK
    <3>2. Smooth(m)
      BY <1>1, <2>1, <3>1, SmoothPackets
    <3> QED
      BY <3>2, SmoothKeeps
  <2>3. CASE m = p
    <3>1. link'[m] = "up" /\ toMgr'[m] = Append(toMgr[m], Hello)
      BY <1>2, <2>1, <2>3 DEF TypeOK
    <3>2. m \notin known /\ ~Has(toMgr[m], Hello) /\ Sole(toMgr[m], Hello)
      BY <2>1, <2>3 DEF Greets
    <3>3. /\ Sole(toMgr'[m], Hello)
          /\ \A r : Has(toMgr'[m], Msg("over", r)) => Has(toMgr[m], Msg("over", r))
      BY <1>2, <3>1, <3>2, HasAppend
    <3>4. Greets(m)'
      BY <2>1, <3>1, <3>2, <3>3 DEF Greets, Hello, Msg
    <3>5. \A r \in RoomIds : Holds(m, r)' => Holds(m, r)
      BY <1>1, <3>3 DEF Holds, Msg
    <3>6. Held(m)' \subseteq Held(m)
      BY <3>5, HeldShrinks
    <3>7. Cardinality(Held(m)') <= Cardinality(Held(m)) /\ Cardinality(Held(m)') \in Nat
      BY <3>5, HeldShrinks
    <3>8. load'[m] \in Int /\ load'[m] >= Cardinality(Held(m)) /\ Cardinality(Held(m)) \in Nat
      BY <2>1, HeldIsFinite DEF Covered, TypeOK
    <3>9. load'[m] >= Cardinality(Held(m)')
      BY <3>7, <3>8
    <3>10. m \notin known' => Held(m)' = {}
      BY <2>1, <3>6 DEF Covered
    <3> QED
      BY <3>4, <3>9, <3>10 DEF Covered
  <2> QED
    BY <2>2, <2>3
<1>5. CASE onSessionHello(p)
  <2>1. /\ toMgr[p] # <<>> /\ Head(toMgr[p]).kind = "hello" /\ UNCHANGED link
        /\ toMgr' = [toMgr EXCEPT ![p] = Tail(@)]
        /\ known' = known \cup {p}
        /\ load' = IF p \in Machines THEN [load EXCEPT ![p] = 0] ELSE load
    BY <1>5 DEF onSessionHello, Comes, Take
  <2>2. CASE m # p
    <3>1. load'[m] = load[m] /\ toMgr'[m] = toMgr[m] /\ (m \in known' <=> m \in known)
      BY <1>2, <2>1, <2>2 DEF TypeOK
    <3>2. Smooth(m)
      BY <1>1, <2>1, <3>1, SmoothPackets
    <3> QED
      BY <3>2, SmoothKeeps
  <2>3. CASE m = p
    <3>1. Head(toMgr[m]) = Hello
      <4>1. Head(toMgr[m]) \in Messages /\ Head(toMgr[m]).kind = "hello"
        BY <1>2, <2>1, <2>3, TakeTyped
      <4>2. Head(toMgr[m]) = Msg("hello", Head(toMgr[m]).room)
        BY <4>1, MsgIsRecord
      <4>3. Head(toMgr[m]).room = NoRoom
        BY <4>1 DEF Messages
      <4> QED
        BY <4>2, <4>3 DEF Hello
    <3>2. toMgr'[m] = Tail(toMgr[m]) /\ m \in known' /\ load'[m] = 0
      BY <1>2, <2>1, <2>3 DEF TypeOK
    <3>3. /\ Has(toMgr[m], Hello)
          /\ \A msg : /\ Has(toMgr'[m], msg) => Has(toMgr[m], msg)
                      /\ Sole(toMgr[m], msg) => Sole(toMgr'[m], msg)
                      /\ Sole(toMgr[m], msg) /\ msg = Hello => ~Has(toMgr'[m], msg)
      BY <1>2, <2>1, <2>3, <3>1, <3>2, HasTail
    <3>4. link[m] = "up" /\ m \notin known /\ Sole(toMgr[m], Hello)
      BY <3>3 DEF Greets
    <3>5. Greets(m)'
      BY <2>1, <3>3, <3>4 DEF Greets, Hello, Msg
    <3>6. \A r \in RoomIds : Holds(m, r)' => Holds(m, r)
      BY <1>1, <3>3 DEF Holds, Msg
    <3>7. Held(m)' = {}
      BY <3>4, <3>6, HeldShrinks DEF Covered
    <3>8. Cardinality(Held(m)') = 0
      BY <3>7, FS_EmptySet
    <3> QED
      BY <3>2, <3>5, <3>7, <3>8 DEF Covered
  <2> QED
    BY <2>2, <2>3
<1> QED
  BY <1>3, <1>4, <1>5

\* A request is counted for the machine that it is sent to.
LEMMA RequestKeepsLoads ==
  ASSUME TypeOK, onSessionRequestCreateRoom, NEW m \in Machines, Greets(m), Covered(m)
  PROVE  Greets(m)' /\ Covered(m)'
<1>1. /\ UNCHANGED <<known, link, contexts, task, host, proc>>
      /\ toMgr' = [toMgr EXCEPT ![Halls] = Tail(@)]
      /\ \/ /\ UNCHANGED load
            /\ fromMgr' = [fromMgr EXCEPT ![Halls] = Append(@, Msg("refused", NoRoom))]
         \/ \E n \in known \cap Machines : \E r :
              /\ load' = [load EXCEPT ![n] = @ + 1]
              /\ fromMgr' = [fromMgr EXCEPT ![n] = Append(@, Msg("request", r))]
              /\ r = Head(toMgr[Halls]).room
  BY DEF onSessionRequestCreateRoom, Take, findBestMachines, machineVars
<1>2. m \in Peers /\ m # Halls /\ fromMgr[m] \in Seq(Messages) /\ load[m] \in Int
  BY PeersAssumption DEF Peers, TypeOK
<1>3. toMgr'[m] = toMgr[m]
  BY <1>1, <1>2 DEF TypeOK
<1>4. ASSUME load'[m] = load[m], fromMgr'[m] = fromMgr[m] PROVE Greets(m)' /\ Covered(m)'
  <2>1. Smooth(m)
    BY <1>1, <1>3, <1>4, SmoothPackets
  <2> QED
    BY <2>1, SmoothKeeps
<1>5. CASE /\ UNCHANGED load
           /\ fromMgr' = [fromMgr EXCEPT ![Halls] = Append(@, Msg("refused", NoRoom))]
  BY <1>2, <1>4, <1>5 DEF TypeOK
<1>6. ASSUME NEW n \in known \cap Machines, NEW r, r = Head(toMgr[Halls]).room,
             load' = [load EXCEPT ![n] = @ + 1],
             fromMgr' = [fromMgr EXCEPT ![n] = Append(@, Msg("request", r))]
      PROVE  Greets(m)' /\ Covered(m)'
  <2>1. CASE n # m
    BY <1>2, <1>4, <1>6, <2>1 DEF TypeOK
  <2>2. CASE n = m
    <3>1. load'[m] = load[m] + 1 /\ fromMgr'[m] = Append(fromMgr[m], Msg("request", r))
      BY <1>2, <1>6, <2>2 DEF TypeOK
    <3>2. Msg("request", r) \in Messages
      <4>1. /\ toMgr[Halls] # <<>> /\ Head(toMgr[Halls]).kind = "request" /\ Halls \in Peers
        BY DEF onSessionRequestCreateRoom, Comes, Peers
      <4>2. Head(toMgr[Halls]) \in Messages
        BY <4>1, TakeTyped
      <4>3. Head(toMgr[Halls]) = Msg("request", r)
        BY <1>6, <4>1, <4>2, MsgIsRecord
      <4> QED
        BY <4>2, <4>3
    <3>3. \A o : Has(fromMgr'[m], Msg("request", o)) => Has(fromMgr[m], Msg("request", o)) \/ o = r
      <4>1. \A msg : Has(fromMgr'[m], msg) => Has(fromMgr[m], msg) \/ msg = Msg("request", r)
        BY <1>2, <3>1, <3>2, HasAppend
      <4> QED
        BY <4>1, MsgsDiffer
    <3>4. \A o \in RoomIds : Holds(m, o)' => Holds(m, o) \/ o = r
      BY <1>1, <1>3, <3>3 DEF Holds, Msg
    <3>5. Held(m)' \in SUBSET (Held(m) \cup {r})
      BY <3>4 DEF Held
    <3>6. /\ IsFiniteSet(Held(m) \cup {r})
          /\ Cardinality(Held(m) \cup {r}) <= Cardinality(Held(m)) + 1
          /\ Cardinality(Held(m) \cup {r}) \in Nat
          /\ Cardinality(Held(m)) \in Nat
      <4>1. IsFiniteSet(Held(m)) /\ Cardinality(Held(m)) \in Nat
        BY HeldIsFinite
      <4>2. /\ IsFiniteSet(Held(m) \cup {r})
            /\ Cardinality(Held(m) \cup {r}) =
                 IF r \in Held(m) THEN Cardinality(Held(m)) ELSE Cardinality(Held(m)) + 1
        BY <4>1, FS_AddElement
      <4> QED
        BY <4>1, <4>2
    <3>7. /\ Cardinality(Held(m)') <= Cardinality(Held(m) \cup {r})
          /\ Cardinality(Held(m)') \in Nat
      BY <3>5, <3>6, FS_Subset, FS_CardinalityType
    <3>8. load[m] >= Cardinality(Held(m)) /\ m \in known'
      BY <1>1, <1>6, <2>2 DEF Covered
    <3>9. load'[m] >= Cardinality(Held(m)')
      <4>1. ASSUME NEW l \in Int, NEW c \in Nat, NEW d \in Nat, NEW e \in Nat,
                   l >= c, d <= c + 1, e <= d
            PROVE  l + 1 >= e
        BY <4>1
      <4> QED
        BY <1>2, <3>1, <3>6, <3>7, <3>8, <4>1
    <3>10. Greets(m)'
      BY <1>1, <1>3 DEF Greets, Hello, Msg
    <3> QED
      BY <3>8, <3>9, <3>10 DEF Covered
  <2> QED
    BY <2>1, <2>2
<1> QED
  BY <1>1, <1>5, <1>6

\* Nothing of a room whose GameOver report is on its way is left to be counted.
LEMMA OverIsTheLast ==
  ASSUME TypeOK, Inv, AllEnd, NEW m \in Machines, NEW r \in RoomIds,
         Has(toMgr[m], Msg("over", r))
  PROVE  /\ proc[r] \in {"over", "dead"} /\ task[r] # "queued"
         /\ ~Has(fromMgr[m], Msg("request", r))
         /\ ~(r \in DOMAIN contexts[m] /\ contexts[m][r].state = "WaitCreate")
         /\ Sole(toMgr[m], Msg("over", r))
<1>1. m \in Peers /\ Ends(r) /\ Asked(r) /\ Started(r)
  BY DEF Peers, AllEnd, Inv
<1>2. InAir(Msg("over", r))
  BY <1>1, HasIsInAir
<1>3. proc[r] \in {"over", "dead"}
  BY <1>1, <1>2 DEF Ends
<1>4. task[r] # "queued"
  BY <1>1, <1>3 DEF Started, Sound
<1>5. ~Has(fromMgr[m], Msg("request", r))
  BY <1>1, <1>3, HasIsInAir DEF Asked, Idle
<1>6. ~(r \in DOMAIN contexts[m] /\ contexts[m][r].state = "WaitCreate")
  BY <1>1, <1>3 DEF Started, Agrees
<1>7. Sole(toMgr[m], Msg("over", r))
  BY <1>1 DEF Ends, Once, ToMgr, Sole
<1> QED
  BY <1>3, <1>4, <1>5, <1>6, <1>7

\* The report takes the server off: roommgr knows the machine that sends it.
LEMMA OverKeepsLoads ==
  ASSUME TypeOK, Inv, AllEnd, NEW n \in Machines, onSessionRoomSrvGameOverReport(n),
         Covered(n), NEW m \in Machines, Greets(m), Covered(m)
  PROVE  Greets(m)' /\ Covered(m)'
<1> DEFINE head == Head(toMgr[n])
<1>1. toMgr[n] # <<>> /\ head.kind = "over" /\ n \in Peers /\ m \in Peers /\ Halls \notin Machines
  BY PeersAssumption DEF onSessionRoomSrvGameOverReport, Comes, Peers
<1>2. toMgr[n] \in Seq(Messages) /\ toMgr[m] \in Seq(Messages)
  BY <1>1 DEF TypeOK
<1>3. PICK r \in RoomIds : head = Msg("over", r)
  <2>1. head \in Messages /\ head = Msg("over", head.room)
    BY <1>1, TakeTyped, MsgIsRecord
  <2>2. head.room \in RoomIds
    <3> HIDE DEF head
    <3> QED
      BY <1>1, <2>1 DEF Messages
  <2> QED
    BY <2>1, <2>2
<1>4. /\ Has(toMgr[n], head)
      /\ \A msg : /\ Has(Tail(toMgr[n]), msg) => Has(toMgr[n], msg)
                  /\ Sole(toMgr[n], msg) => Sole(Tail(toMgr[n]), msg)
                  /\ Sole(toMgr[n], msg) /\ msg = head => ~Has(Tail(toMgr[n]), msg)
  BY <1>1, <1>2, HasTail
<1> HIDE DEF head
<1>5. Has(toMgr[n], Msg("over", r))
  BY <1>3, <1>4
<1>6. r \in Held(n) /\ n \in known
  <2>1. r \in Held(n)
    BY <1>3, <1>5 DEF Held, Holds
  <2> QED
    BY <2>1 DEF Covered
<1>7. /\ UNCHANGED <<known, link, contexts, task, host, proc>>
      /\ toMgr' = [toMgr EXCEPT ![n] = Tail(@)]
      /\ load' = [load EXCEPT ![n] = @ - 1]
      /\ fromMgr' = fromMgr \/ fromMgr' = [fromMgr EXCEPT ![Halls] = Append(@, head)]
  BY <1>6 DEF onSessionRoomSrvGameOverReport, Take, machineVars, head
<1>8. fromMgr'[m] = fromMgr[m]
  BY <1>1, <1>7 DEF TypeOK
<1>9. CASE m # n
  <2>1. toMgr'[m] = toMgr[m] /\ load'[m] = load[m]
    BY <1>1, <1>7, <1>9 DEF TypeOK
  <2>2. Smooth(m)
    BY <1>7, <1>8, <2>1, SmoothPackets
  <2> QED
    BY <2>2, SmoothKeeps
<1>10. CASE m = n
  <2>1. toMgr'[m] = Tail(toMgr[m]) /\ load'[m] = load[m] - 1 /\ load[m] \in Int
    BY <1>1, <1>7, <1>10 DEF TypeOK
  <2>2. \A msg : /\ Has(toMgr'[m], msg) => Has(toMgr[m], msg)
                 /\ Sole(toMgr[m], msg) => Sole(toMgr'[m], msg)
                 /\ Sole(toMgr[m], msg) /\ msg = head => ~Has(toMgr'[m], msg)
    BY <1>4, <1>10, <2>1
  <2>3. Greets(m)'
    BY <1>7, <2>2 DEF Greets, Hello, Msg
  <2>4. \A o \in RoomIds : Holds(m, o)' => Holds(m, o)
    BY <1>7, <1>8, <2>2 DEF Holds, Msg
  <2>5. ~Holds(m, r)'
    <3>1. /\ proc[r] \in {"over", "dead"} /\ task[r] # "queued"
          /\ ~Has(fromMgr[m], Msg("request", r))
          /\ ~(r \in DOMAIN contexts[m] /\ contexts[m][r].state = "WaitCreate")
          /\ Sole(toMgr[m], Msg("over", r))
      BY <1>3, <1>5, <1>10, OverIsTheLast
    <3>2. ~Has(toMgr'[m], Msg("over", r))
      BY <1>3, <2>2, <3>1
    <3>3. ~Has(fromMgr'[m], Msg("request", r))
      BY <1>8, <3>1
    <3> QED
      BY <1>7, <3>1, <3>2, <3>3 DEF Holds, Msg
  <2>6. Held(m)' \in SUBSET (Held(m) \ {r})
    BY <2>4, <2>5 DEF Held
  <2>7. /\ IsFiniteSet(Held(m) \ {r}) /\ Cardinality(Held(m)) \in Nat
        /\ Cardinality(Held(m) \ {r}) = Cardinality(Held(m)) - 1
    <3>1. IsFiniteSet(Held(m)) /\ Cardinality(Held(m)) \in Nat /\ r \in Held(m)
      BY <1>6, <1>10, HeldIsFinite
    <3> QED
      BY <3>1, FS_RemoveElement
  <2>8. /\ Cardinality(Held(m)') <= Cardinality(Held(m) \ {r})
        /\ Cardinality(Held(m)') \in Nat
    BY <2>6, <2>7, FS_Subset, FS_CardinalityType
  <2>9. load[m] >= Cardinality(Held(m)) /\ m \in known'
    BY <1>6, <1>7, <1>10 DEF Covered
  <2>10. load'[m] >= Cardinality(Held(m)')
    <3>1. ASSUME NEW l \in Int, NEW c \in Nat, NEW e \in Nat, l >= c, e <= c - 1
          PROVE  l - 1 >= e
      BY <3>1
    <3> QED
      BY <2>1, <2>7, <2>8, <2>9, <3>1
  <2> QED
    BY <2>3, <2>9, <2>10 DEF Covered
<1> QED
  BY <1>9, <1>10

\* An answer that is handed on, and a packet that the machine reads.
LEMMA PacketsKeepLoads ==
  ASSUME TypeOK, NEW n \in Machines, onSessionRequestCreateRoomCB(n) \/ onSessionPacket(n),
         NEW m \in Machines
  PROVE  Smooth(m)
<1>1. n \in Peers /\ m \in Peers /\ Halls \notin Machines
  BY PeersAssumption DEF Peers
<1>2. /\ toMgr[n] \in Seq(Messages) /\ fromMgr[n] \in Seq(Messages)
      /\ toMgr[m] \in Seq(Messages) /\ fromMgr[m] \in Seq(Messages)
  BY <1>1 DEF TypeOK
<1>3. CASE onSessionRequestCreateRoomCB(n)
  <2> DEFINE refused == Msg("refused", NoRoom)
  <2>1. /\ UNCHANGED <<known, load, link, contexts, task, host, proc>>
        /\ toMgr[n] # <<>> /\ toMgr' = [toMgr EXCEPT ![n] = Tail(@)]
        /\ \/ fromMgr' = [fromMgr EXCEPT ![Halls] = Append(@, Head(toMgr[n]))]
           \/ fromMgr' = [fromMgr EXCEPT ![n] = Append(@, refused)]
    BY <1>3 DEF onSessionRequestCreateRoomCB, Comes, Take, mgrVars, machineVars
  <2>2. \A msg : /\ Has(toMgr'[m], msg) => Has(toMgr[m], msg)
                 /\ Sole(toMgr[m], msg) => Sole(toMgr'[m], msg)
    <3>1. toMgr'[m] = toMgr[m] \/ (m = n /\ toMgr'[m] = Tail(toMgr[m]))
      BY <1>1, <2>1 DEF TypeOK
    <3> QED
      BY <1>2, <2>1, <3>1, HasTail
  <2>3. \A msg : Has(fromMgr'[m], msg) => Has(fromMgr[m], msg) \/ msg.kind = "refused"
    <3>1. fromMgr'[m] = fromMgr[m] \/ fromMgr'[m] = Append(fromMgr[m], refused)
      BY <1>1, <2>1 DEF TypeOK
    <3>2. refused \in Messages /\ refused.kind = "refused"
      BY DEF Msg, Messages
    <3> HIDE DEF refused
    <3>3. \A msg : Has(Append(fromMgr[m], refused), msg) => Has(fromMgr[m], msg) \/ msg = refused
      BY <1>2, <3>2, HasAppend
    <3> QED
      BY <3>1, <3>2, <3>3
  <2> QED
    BY <2>1, <2>2, <2>3, SmoothPackets
<1>4. CASE onSessionPacket(n)
  <2> DEFINE head == Head(fromMgr[n])
  <2>1. /\ UNCHANGED <<known, load, link, toMgr, task, host, proc>>
        /\ fromMgr[n] # <<>> /\ fromMgr' = [fromMgr EXCEPT ![n] = Tail(@)]
        /\ \/ contexts' = contexts
           \/ /\ head.kind = "request"
              /\ contexts' = [contexts EXCEPT ![n] =
                   [r \in DOMAIN contexts[n] \cup {head.room} |->
                      IF r = head.room THEN NewContext ELSE contexts[n][r]]]
    BY <1>4 DEF onSessionPacket, mgrVars
  <2>2. /\ Has(fromMgr[n], head)
        /\ \A msg : Has(Tail(fromMgr[n]), msg) => Has(fromMgr[n], msg)
    BY <1>2, <2>1, HasTail
  <2>3. head = Msg(head.kind, head.room)
    BY <1>1, <2>1, TakeTyped, MsgIsRecord
  <2> HIDE DEF head
  <2>4. \A msg : Has(fromMgr'[m], msg) => Has(fromMgr[m], msg)
    <3>1. fromMgr'[m] = fromMgr[m] \/ (m = n /\ fromMgr'[m] = Tail(fromMgr[m]))
      BY <1>1, <2>1 DEF TypeOK
    <3> QED
      BY <2>2, <3>1
  <2>5. ASSUME NEW r \in DOMAIN contexts'[m], contexts'[m][r].state = "WaitCreate"
        PROVE  \/ r \in DOMAIN contexts[m] /\ contexts[m][r].state = "WaitCreate"
               \/ Has(fromMgr[m], Msg("request", r))
    <3>1. CASE contexts'[m] = contexts[m]
      BY <2>5, <3>1
    <3>2. CASE /\ m = n /\ head.kind = "request"
               /\ contexts'[m] = [o \in DOMAIN contexts[m] \cup {head.room} |->
                                    IF o = head.room THEN NewContext ELSE contexts[m][o]]
      <4>1. CASE r = head.room
        BY <2>2, <2>3, <3>2, <4>1
      <4>2. CASE r # head.room
        BY <2>5, <3>2, <4>2
      <4> QED
        BY <4>1, <4>2
    <3>3. DOMAIN contexts = Machines
      BY DEF TypeOK
    <3>4. CASE contexts' # contexts /\ m = n
      BY <2>1, <3>2, <3>3, <3>4
    <3>5. m # n => contexts'[m] = contexts[m]
      BY <2>1, <3>3
    <3> QED
      BY <3>1, <3>4, <3>5
  <2>6. \A r \in RoomIds : Holds(m, r)' => Holds(m, r)
    BY <2>1, <2>4, <2>5 DEF Holds, Msg
  <2> QED
    BY <2>1, <2>6 DEF Smooth, Hello, Msg
<1> QED
  BY <1>3, <1>4

\* A tick starts what was to be started, and keeps nothing waiting to be.
LEMMA TickIsSmooth ==
  ASSUME TypeOK, NEW n \in Machines, NEW cs, MapTyped(cs), NEW prs, Tick(n, cs, prs),
         DOMAIN cs = DOMAIN contexts[n], \A r \in DOMAIN cs : cs[r].state = contexts[n][r].state,
         \A r \in RoomIds : prs[r] \in {"up", "reported"} => proc[r] \in {"up", "reported"},
         UNCHANGED <<known, load, link, fromMgr>>, NEW m \in Machines
  PROVE  Smooth(m)
<1>a. \/ UNCHANGED toMgr
      \/ \E s \in Seq(Messages) : /\ toMgr' = [toMgr EXCEPT ![n] = @ \o s]
                                  /\ \A i \in DOMAIN s : s[i].kind \in {"ok", "fail"}
  BY TickEffects
<1>1. /\ \A o \in Machines \ {n} : contexts'[o] = contexts[o]
      /\ \A r : r \in DOMAIN contexts'[n] <=> r \in DOMAIN cs /\ ~Dropped(cs[r], r)
      /\ \A r \in DOMAIN contexts'[n] : contexts'[n][r] = NextContext(cs[r], r)
      /\ \A r \in RoomIds :
           LET begun  == r \in DOMAIN cs /\ cs[r].state = "WaitCreate"
               killed == r \in DOMAIN cs /\ cs[r].pid /\ KillDue(cs[r])
           IN  /\ task'[r] = IF begun THEN "queued" ELSE task[r]
               /\ host'[r] = IF begun THEN n ELSE host[r]
               /\ ~killed => proc'[r] = prs[r]
               /\ killed => proc'[r] = IF prs[r] = "reported" THEN "killed" ELSE "dead"
  BY TickEffects
<1>2. m \in Peers /\ toMgr[m] \in Seq(Messages)
  BY DEF Peers, TypeOK
<1>3. ASSUME NEW msg, msg.kind \notin {"ok", "fail"}
      PROVE  /\ Has(toMgr'[m], msg) => Has(toMgr[m], msg)
             /\ Sole(toMgr[m], msg) => Sole(toMgr'[m], msg)
  <2>1. CASE toMgr'[m] = toMgr[m]
    BY <2>1
  <2>2. ASSUME NEW s \in Seq(Messages), \A i \in DOMAIN s : s[i].kind \in {"ok", "fail"},
               toMgr'[m] = toMgr[m] \o s
        PROVE  /\ Has(toMgr'[m], msg) => Has(toMgr[m], msg)
               /\ Sole(toMgr[m], msg) => Sole(toMgr'[m], msg)
    <3>1. \A i \in DOMAIN s : s[i] # msg
      BY <1>3, <2>2
    <3> QED
      BY <1>2, <2>2, <3>1, HasConcat
  <2>3. \/ toMgr'[m] = toMgr[m]
        \/ \E s \in Seq(Messages) : /\ toMgr'[m] = toMgr[m] \o s
                                    /\ \A i \in DOMAIN s : s[i].kind \in {"ok", "fail"}
    <3>1. CASE UNCHANGED toMgr
      BY <3>1
    <3>2. ASSUME NEW s \in Seq(Messages), toMgr' = [toMgr EXCEPT ![n] = @ \o s],
                 \A i \in DOMAIN s : s[i].kind \in {"ok", "fail"}
          PROVE  toMgr'[m] = toMgr[m] \/ toMgr'[m] = toMgr[m] \o s
      <4>1. CASE m = n
        BY <1>2, <3>2, <4>1 DEF TypeOK
      <4>2. CASE m # n
        BY <1>2, <3>2, <4>2 DEF TypeOK
      <4> QED
        BY <4>1, <4>2
    <3> QED
      BY <1>a, <3>1, <3>2
  <2> QED
    BY <2>1, <2>2, <2>3
<1>4. ASSUME NEW r \in RoomIds, Holds(m, r)' PROVE Holds(m, r)
  <2>1. CASE Has(fromMgr'[m], Msg("request", r))
    BY <2>1 DEF Holds
  <2>2. CASE Has(toMgr'[m], Msg("over", r))
    <3>1. Msg("over", r).kind = "over"
      BY DEF Msg
    <3> QED
      BY <1>3, <2>2, <3>1 DEF Holds
  <2>3. CASE r \in DOMAIN contexts'[m] /\ contexts'[m][r].state = "WaitCreate"
    <3>1. CASE m # n
      BY <1>1, <2>3, <3>1 DEF Holds
    <3>2. CASE m = n
      <4>1. cs[r] \in Contexts /\ NextContext(cs[r], r).state = "WaitCreate"
        BY <1>1, <2>3, <3>2 DEF MapTyped
      <4>2. \A c \in Contexts : NextContext(c, r).state # "WaitCreate"
        BY DEF NextContext, Contexts
      <4> QED
        BY <4>1, <4>2
    <3> QED
      BY <3>1, <3>2
  <2>4. CASE host'[r] = m /\ (task'[r] = "queued" \/ proc'[r] \in {"up", "reported"})
    <3>1. CASE r \in DOMAIN cs /\ cs[r].state = "WaitCreate"
      <4>1. m = n
        BY <1>1, <2>4, <3>1
      <4> QED
        BY <3>1, <4>1 DEF Holds
    <3>2. CASE ~(r \in DOMAIN cs /\ cs[r].state = "WaitCreate")
      <4>1. host[r] = m /\ task'[r] = task[r]
        BY <1>1, <2>4, <3>2
      <4>2. proc'[r] \in {"up", "reported"} => prs[r] \in {"up", "reported"}
        BY <1>1
      <4> QED
        BY <2>4, <4>1, <4>2 DEF Holds
    <3> QED
      BY <3>1, <3>2
  <2> QED
    BY <1>4, <2>1, <2>2, <2>3, <2>4 DEF Holds, Msg
<1>5. Hello.kind = "hello"
  BY DEF Hello, Msg
<1>6. /\ Has(toMgr'[m], Hello) => Has(toMgr[m], Hello)
      /\ Sole(toMgr[m], Hello) => Sole(toMgr'[m], Hello)
  BY <1>3, <1>5
<1> QED
  BY <1>4, <1>6 DEF Smooth, Hello, Msg

LEMMA MachineIsSmooth ==
  ASSUME TypeOK, NEW n \in Machines,
         onTick(n) \/ \E q \in RoomIds : onSessionRoomSrvReportAddr(n, q) \/ ReportGameOver(n, q),
         NEW m \in Machines
  PROVE  Smooth(m)
<1>1. m \in Peers /\ toMgr[m] \in Seq(Messages)
  BY DEF Peers, TypeOK
<1>2. CASE onTick(n)
  <2> DEFINE cs == contexts[n]
  <2>1. Tick(n, cs, proc) /\ UNCHANGED <<known, load, link, fromMgr>>
    BY <1>2 DEF onTick, mgrVars
  <2>2. /\ MapTyped(cs) /\ DOMAIN cs = DOMAIN contexts[n]
        /\ \A r \in DOMAIN cs : cs[r].state = contexts[n][r].state
    BY DEF TypeOK, MapTyped
  <2> HIDE DEF cs
  <2> QED
    BY <2>1, <2>2, TickIsSmooth
<1>3. ASSUME NEW q \in RoomIds, onSessionRoomSrvReportAddr(n, q) PROVE Smooth(m)
  <2> DEFINE prs == [proc EXCEPT ![q] = "reported"]
             cs  == [contexts[n] EXCEPT ![q].port = TRUE]
  <2>1. proc[q] = "up" /\ UNCHANGED <<known, load, link, fromMgr>>
    BY <1>3 DEF onSessionRoomSrvReportAddr, mgrVars
  <2>2. \A r \in RoomIds : prs[r] \in {"up", "reported"} => proc[r] \in {"up", "reported"}
    BY <2>1 DEF TypeOK
  <2>3. CASE q \notin DOMAIN contexts[n]
    <3>1. proc' = prs /\ UNCHANGED <<contexts, task, host, toMgr>>
      BY <1>3, <2>3 DEF onSessionRoomSrvReportAddr
    <3> HIDE DEF prs
    <3>2. \A r \in RoomIds : Holds(m, r)' => Holds(m, r)
      BY <2>1, <2>2, <3>1 DEF Holds, Msg
    <3> QED
      BY <2>1, <3>1, <3>2 DEF Smooth, Hello, Msg
  <2>4. CASE q \in DOMAIN contexts[n]
    <3>1. Tick(n, cs, prs)
      BY <1>3, <2>4 DEF onSessionRoomSrvReportAddr
    <3>2. MapTyped(contexts[n]) /\ contexts[n][q] \in Contexts
      BY <2>4 DEF TypeOK, MapTyped
    <3>3. /\ [contexts[n][q] EXCEPT !.port = TRUE] \in Contexts
          /\ [contexts[n][q] EXCEPT !.port = TRUE].state = contexts[n][q].state
      BY <3>2 DEF Contexts
    <3>4. /\ MapTyped(cs) /\ DOMAIN cs = DOMAIN contexts[n]
          /\ \A r \in DOMAIN cs : cs[r].state = contexts[n][r].state
      BY <2>4, <3>2, <3>3 DEF MapTyped
    <3> HIDE DEF cs, prs
    <3> QED
      BY <2>1, <2>2, <3>1, <3>4, TickIsSmooth
  <2> QED
    BY <2>3, <2>4
<1>4. ASSUME NEW q \in RoomIds, ReportGameOver(n, q) PROVE Smooth(m)
  <2> DEFINE over == Msg("over", q)
  <2>1. /\ proc[q] = "reported" /\ host[q] = n /\ proc' = [proc EXCEPT ![q] = "over"]
        /\ UNCHANGED <<known, load, link, fromMgr, task, host>>
        /\ toMgr' = toMgr \/ toMgr' = [toMgr EXCEPT ![n] = Append(@, over)]
        /\ \/ contexts' = contexts
           \/ /\ q \in DOMAIN contexts[n]
              /\ contexts' =
                   [contexts EXCEPT ![n][q].state = "WaitKillGameServer", ![n][q].age = 0]
    BY <1>4 DEF ReportGameOver, mgrVars
  <2>2. over \in Messages /\ over # Hello /\ n \in Peers
    BY DEF Msg, Messages, Hello, Peers
  <2>3. \A msg : /\ Has(toMgr'[m], msg) => Has(toMgr[m], msg) \/ (m = n /\ msg = over)
                 /\ Sole(toMgr[m], msg) /\ msg # over => Sole(toMgr'[m], msg)
    <3>1. \/ toMgr'[m] = toMgr[m]
          \/ m = n /\ toMgr'[m] = Append(toMgr[m], over)
      BY <1>1, <2>1, <2>2 DEF TypeOK
    <3> HIDE DEF over
    <3>2. \A msg : /\ Has(Append(toMgr[m], over), msg) => Has(toMgr[m], msg) \/ msg = over
                   /\ Sole(toMgr[m], msg) /\ (msg = over => ~Has(toMgr[m], msg))
                        => Sole(Append(toMgr[m], over), msg)
      BY <1>1, <2>2, HasAppend
    <3> QED
      BY <3>1, <3>2
  <2>4. \A r \in RoomIds : proc'[r] \in {"up", "reported"} => proc[r] \in {"up", "reported"}
    BY <2>1 DEF TypeOK
  <2>5. \A r \in DOMAIN contexts'[m] : contexts'[m][r].state = "WaitCreate" =>
          r \in DOMAIN contexts[m] /\ contexts[m][r].state = "WaitCreate"
    <3>1. CASE contexts' = contexts
      BY <3>1
    <3>2. CASE /\ q \in DOMAIN contexts[n]
               /\ contexts' =
                    [contexts EXCEPT ![n][q].state = "WaitKillGameServer", ![n][q].age = 0]
      <4> DEFINE cs == contexts[n]
      <4>1. DOMAIN contexts = Machines /\ cs \in [DOMAIN cs -> Contexts] /\ q \in DOMAIN cs
        BY <3>2 DEF TypeOK
      <4>2. /\ contexts'[n] = [cs EXCEPT ![q].state = "WaitKillGameServer", ![q].age = 0]
            /\ \A o \in Machines \ {n} : contexts'[o] = contexts[o]
        BY <3>2, <4>1
      <4>3. cs[q] \in Contexts
        BY <4>1
      <4>4. contexts'[n] =
              [cs EXCEPT ![q] = [cs[q] EXCEPT !.state = "WaitKillGameServer", !.age = 0]]
        BY <4>1, <4>2, <4>3
      <4>5. [cs[q] EXCEPT !.state = "WaitKillGameServer", !.age = 0].state # "WaitCreate"
        BY <4>3 DEF Contexts
      <4>6. CASE m = n
        BY <4>1, <4>4, <4>5, <4>6
      <4>7. CASE m # n
        BY <4>2, <4>7
      <4> QED
        BY <4>6, <4>7
    <3> QED
      BY <2>1, <3>1, <3>2
  <2>6. ASSUME NEW r \in RoomIds, Holds(m, r)' PROVE Holds(m, r)
    <3>1. CASE Has(toMgr'[m], Msg("over", r))
      <4>1. CASE Has(toMgr[m], Msg("over", r))
        BY <4>1 DEF Holds
      <4>2. CASE m = n /\ r = q
        BY <2>1, <4>2 DEF Holds
      <4>3. Has(toMgr[m], Msg("over", r)) \/ (m = n /\ r = q)
        BY <2>3, <3>1, MsgsDiffer
      <4> QED
        BY <4>1, <4>2, <4>3
    <3>2. CASE ~Has(toMgr'[m], Msg("over", r))
      BY <2>1, <2>4, <2>5, <2>6, <3>2 DEF Holds, Msg
    <3> QED
      BY <3>1, <3>2
  <2>7. /\ Has(toMgr'[m], Hello) => Has(toMgr[m], Hello)
        /\ Sole(toMgr[m], Hello) => Sole(toMgr'[m], Hello)
    <3> HIDE DEF over
    <3> QED
      BY <2>2, <2>3
  <2> QED
    BY <2>1, <2>6, <2>7 DEF Smooth, Hello, Msg
<1> QED
  BY <1>2, <1>3, <1>4

\* Halls, the processes and time.
LEMMA OthersAreSmooth ==
  ASSUME TypeOK, NEW m \in Machines,
         \/ UNCHANGED vars \/ onCreateRoomServerCB \/ Advance
         \/ \E r \in RoomIds :
              createRoomServer(r) \/ RoomTick(r) \/ StartProcess(r) \/ GameServerExits(r)
  PROVE  Smooth(m)
<1>1. m \in Peers /\ m # Halls
  BY PeersAssumption DEF Peers
<1>2. ASSUME UNCHANGED <<known, load, link, contexts, task, host, proc>>,
             toMgr'[m] = toMgr[m], fromMgr'[m] = fromMgr[m]
      PROVE  Smooth(m)
  BY <1>2, SmoothPackets
<1>3. CASE UNCHANGED vars
  BY <1>2, <1>3 DEF vars, mgrVars, netVars, machineVars
<1>4. CASE onCreateRoomServerCB
  <2>1. /\ UNCHANGED <<known, load, link, contexts, task, host, proc, toMgr>>
        /\ fromMgr' = [fromMgr EXCEPT ![Halls] = Tail(@)]
    BY <1>4 DEF onCreateRoomServerCB, mgrVars, machineVars
  <2>2. fromMgr'[m] = fromMgr[m]
    BY <1>1, <2>1 DEF TypeOK
  <2> QED
    BY <1>2, <2>1, <2>2
<1>5. ASSUME NEW r \in RoomIds, createRoomServer(r) PROVE Smooth(m)
  <2>1. /\ UNCHANGED <<known, load, link, contexts, task, host, proc, fromMgr>>
        /\ toMgr' = toMgr \/ toMgr' = [toMgr EXCEPT ![Halls] = Append(@, Msg("request", r))]
    BY <1>5 DEF createRoomServer, mgrVars, machineVars
  <2>2. toMgr'[m] = toMgr[m]
    BY <1>1, <2>1 DEF TypeOK
  <2> QED
    BY <1>2, <2>1, <2>2
<1>6. ASSUME NEW r \in RoomIds, RoomTick(r) PROVE Smooth(m)
  BY <1>2, <1>6 DEF RoomTick, mgrVars, netVars, machineVars
<1>7. ASSUME UNCHANGED <<known, load, link, toMgr, fromMgr, host>>,
             \A r \in RoomIds :
               (task'[r] = "queued" \/ proc'[r] \in {"up", "reported"}) =>
                 (task[r] = "queued" \/ proc[r] \in {"up", "reported"}),
             \A r \in DOMAIN contexts'[m] : contexts'[m][r].state = "WaitCreate" =>
               r \in DOMAIN contexts[m] /\ contexts[m][r].state = "WaitCreate"
      PROVE  Smooth(m)
  <2>1. \A r \in RoomIds : Holds(m, r)' => Holds(m, r)
    BY <1>7 DEF Holds, Msg
  <2> QED
    BY <1>7, <2>1 DEF Smooth, Hello, Msg
<1>8. ASSUME NEW q \in RoomIds, StartProcess(q) \/ GameServerExits(q) PROVE Smooth(m)
  <2>1. UNCHANGED <<known, load, link, toMgr, fromMgr, host, contexts>>
    BY <1>8 DEF StartProcess, GameServerExits, mgrVars, netVars
  <2>2. \A r \in RoomIds :
          (task'[r] = "queued" \/ proc'[r] \in {"up", "reported"}) =>
            (task[r] = "queued" \/ proc[r] \in {"up", "reported"})
    BY <1>8 DEF StartProcess, GameServerExits, TypeOK
  <2> QED
    BY <1>7, <2>1, <2>2
<1>9. CASE Advance
  <2>1. /\ UNCHANGED <<known, load, link, toMgr, fromMgr, host, task, proc>>
        /\ contexts' = [n \in Machines |->
             [r \in DOMAIN contexts[n] |-> [contexts[n][r] EXCEPT !.age = Older(@)]]]
    BY <1>9 DEF Advance, mgrVars, netVars
  <2>2. ASSUME NEW r \in DOMAIN contexts'[m], contexts'[m][r].state = "WaitCreate"
        PROVE  r \in DOMAIN contexts[m] /\ contexts[m][r].state = "WaitCreate"
    <3>1. /\ r \in DOMAIN contexts[m]
          /\ contexts'[m][r] = [contexts[m][r] EXCEPT !.age = Older(@)]
      BY <2>1, <2>2
    <3>2. contexts[m][r] \in Contexts
      BY <3>1 DEF TypeOK
    <3> QED
      BY <2>2, <3>1, <3>2 DEF Contexts
  <2> QED
    BY <1>7, <2>1, <2>2
<1> QED
  BY <1>3, <1>4, <1>5, <1>6, <1>8, <1>9

LEMMA NextLoads ==
  ASSUME TypeOK, Inv, AllEnd, Loads, [Next]_vars
  PROVE  Loads'
<1> SUFFICES ASSUME Steady', NEW m \in Machines PROVE Greets(m)' /\ Covered(m)'
  BY DEF Loads
<1> DEFINE Good == Greets(m)' /\ Covered(m)'
<1>1. breaks \in Nat /\ crashes \in Nat
  BY BoundsAssumption DEF TypeOK
<1>a. breaks' = 0 /\ crashes' = 0
  BY DEF Steady
<1>2. ASSUME NEW p \in Peers, ConnectionBreaks(p) PROVE FALSE
  <2>1. breaks' = breaks + 1
    BY <1>2 DEF ConnectionBreaks
  <2> QED
    BY <1>1, <1>a, <2>1
<1>3. ASSUME RoommgrCrashes \/ \E n \in Machines : MachineCrashes(n) PROVE FALSE
  <2>1. crashes' = crashes + 1
    BY <1>3 DEF RoommgrCrashes, MachineCrashes
  <2> QED
    BY <1>1, <1>a, <2>1
<1>4. ASSUME UNCHANGED bounds PROVE \A n \in Machines : Greets(n) /\ Covered(n)
  BY <1>4 DEF bounds, Steady, Loads
<1>5. ASSUME UNCHANGED bounds, Smooth(m) PROVE Good
  BY <1>4, <1>5, SmoothKeeps
<1>6. ASSUME NEW p \in Peers, connectServer(p) \/ SendHello(p) \/ onSessionHello(p) PROVE Good
  <2>1. UNCHANGED bounds
    BY <1>6 DEF connectServer, SendHello, onSessionHello
  <2> QED
    BY <1>4, <1>6, <2>1, SessionsKeepLoads
<1>7. ASSUME onSessionRequestCreateRoom PROVE Good
  <2>1. UNCHANGED bounds
    BY <1>7 DEF onSessionRequestCreateRoom
  <2> QED
    BY <1>4, <1>7, <2>1, RequestKeepsLoads
<1>8. ASSUME NEW n \in Machines, onSessionRoomSrvGameOverReport(n) PROVE Good
  <2>1. UNCHANGED bounds
    BY <1>8 DEF onSessionRoomSrvGameOverReport
  <2> QED
    BY <1>4, <1>8, <2>1, OverKeepsLoads
<1>9. ASSUME NEW n \in Machines, onSessionRequestCreateRoomCB(n) \/ onSessionPacket(n) PROVE Good
  <2>1. UNCHANGED bounds
    BY <1>9 DEF onSessionRequestCreateRoomCB, onSessionPacket
  <2> QED
    BY <1>5, <1>9, <2>1, PacketsKeepLoads
<1>10. ASSUME NEW n \in Machines,
              onTick(n) \/ \E q \in RoomIds : onSessionRoomSrvReportAddr(n, q) \/ ReportGameOver(n, q)
       PROVE  Good
  <2>1. UNCHANGED bounds
    BY <1>10 DEF onTick, onSessionRoomSrvReportAddr, ReportGameOver
  <2> QED
    BY <1>5, <1>10, <2>1, MachineIsSmooth
<1>11. ASSUME \/ UNCHANGED vars \/ onCreateRoomServerCB \/ Advance
              \/ \E r \in RoomIds :
                   createRoomServer(r) \/ RoomTick(r) \/ StartProcess(r) \/ GameServerExits(r)
       PROVE  Good
  <2>1. UNCHANGED bounds
    BY <1>11 DEF vars, onCreateRoomServerCB, Advance, createRoomServer, RoomTick, StartProcess,
                 GameServerExits, bounds
  <2> QED
    BY <1>5, <1>11, <2>1, OthersAreSmooth
<1> HIDE DEF Good
<1>12. ASSUME NEW p \in Peers, Deliver(p) PROVE Good
  BY <1>6, <1>7, <1>8, <1>9, <1>11, <1>12 DEF Deliver
<1>13. Good
  BY <1>2, <1>3, <1>6, <1>10, <1>11, <1>12 DEF Next
<1> QED
  BY <1>13 DEF Good

LEMMA InitLoads == Init => AllEnd /\ Loads
<1> SUFFICES ASSUME Init PROVE AllEnd /\ Loads
  OBVIOUS
<1>1. /\ \A p \in Peers : toMgr[p] = <<>> /\ fromMgr[p] = <<>> /\ link[p] = "down"
      /\ \A m \in Machines : DOMAIN contexts[m] = {} /\ load[m] = 0
      /\ \A r \in RoomIds : task[r] = "none" /\ proc[r] = "none"
      /\ known = {} /\ Machines \subseteq Peers
  BY DEF Init, NoContext, Peers
<1>2. \A p \in Peers : \A msg : ~Has(toMgr[p], msg) /\ ~Has(fromMgr[p], msg) /\ Sole(toMgr[p], msg)
  BY <1>1, NothingInEmpty DEF Has, Sole
<1>3. ASSUME NEW r \in RoomIds PROVE Ends(r)
  <2>1. \A msg, p, i : ~ToMgr(msg, p, i) /\ ~FromMgr(msg, p, i)
    BY <1>1, NothingInEmpty DEF ToMgr, FromMgr
  <2> QED
    BY <2>1 DEF Ends, InAir, Once
<1>4. ASSUME NEW m \in Machines PROVE Greets(m) /\ Covered(m)
  <2>1. m \in Peers
    BY <1>1
  <2>2. Greets(m)
    BY <1>1, <1>2, <2>1 DEF Greets
  <2>3. Held(m) = {}
    BY <1>1, <1>2, <2>1 DEF Held, Holds
  <2>4. Cardinality(Held(m)) = 0
    BY <2>3, FS_EmptySet
  <2> QED
    BY <1>1, <2>2, <2>3, <2>4 DEF Covered
<1> QED
  BY <1>3, <1>4 DEF AllEnd, Loads

LEMMA LoadsHold == Spec => [](TypeOK /\ Loads)
<1>1. TypeOK /\ Inv /\ AllEnd /\ Loads /\ [Next]_vars => (AllEnd /\ Loads)'
  BY EndsKept, NextLoads DEF AllEnd
<1> QED
  BY <1>1, InitLoads, RoomServersInvariant, PTL DEF Spec

\* The load of a machine covers the game servers that it runs or is to start,
\* as long as no connection broke and nothing crashed.
THEOREM LoadsCover == Spec => []LoadCoversServers
<1>1. TypeOK /\ Loads => LoadCoversServers
  <2> SUFFICES ASSUME TypeOK, Loads, Steady, NEW m \in Machines
               PROVE  load[m] >= Cardinality(Burden(m))
    BY DEF LoadCoversServers, Steady
  <2>1. \A r : InFlight(fromMgr[m], {Msg("request", r)}) => Has(fromMgr[m], Msg("request", r))
    BY DEF InFlight, Has, Carries
  <2>2. Burden(m) \in SUBSET Held(m)
    BY <2>1 DEF Burden, Held, Holds
  <2>3. IsFiniteSet(Held(m)) /\ Cardinality(Held(m)) \in Nat
    BY HeldIsFinite
  <2>4. Cardinality(Burden(m)) <= Cardinality(Held(m)) /\ Cardinality(Burden(m)) \in Nat
    BY <2>2, <2>3, FS_Subset, FS_CardinalityType
  <2>5. load[m] >= Cardinality(Held(m)) /\ load[m] \in Int
    BY DEF Loads, Covered, TypeOK
  <2> QED
    BY <2>3, <2>4, <2>5
<1> QED
  BY <1>1, LoadsHold, PTL

\* A GameOver report is that of a machine roommgr knows: what findServer returns
\* to onSessionRoomSrvGameOverReport is not NULL while no connection broke and
\* nothing crashed.
THEOREM ReportersAreKnown ==
  Spec => [](Steady => \A m \in Machines, r \in RoomIds :
               Has(toMgr[m], Msg("over", r)) => m \in known)
<1>1. Loads => (Steady => \A m \in Machines, r \in RoomIds :
                  Has(toMgr[m], Msg("over", r)) => m \in known)
  BY DEF Loads, Covered, Held, Holds
<1> QED
  BY <1>1, LoadsHold, PTL

-------------------------------------------------------------------------------
(* RoomServers implements RoomGrant.                                         *)

LEMMA TickSpeaks ==
  ASSUME TypeOK, NEW m, NEW cs, NEW prs, Tick(m, cs, prs)
  PROVE  \A r \in RoomIds : sent[r] \subseteq sent'[r]
<1>1. \/ sent' = sent
      \/ \E said : sent' = [r \in RoomIds |-> sent[r] \cup
                              {msg.kind : msg \in {a \in said : a.room = r}}]
  BY DEF Tick
<1> QED
  BY <1>1

\* The steps that do not touch a room of halls only add answers.
LEMMA AnswersStay ==
  ASSUME TypeOK, [Next]_vars
  PROVE  \/ UNCHANGED hallRoom /\ \A r \in RoomIds : sent[r] \subseteq sent'[r]
         \/ onCreateRoomServerCB \/ \E r \in RoomIds : createRoomServer(r) \/ RoomTick(r)
<1> DEFINE Only == UNCHANGED hallRoom /\ \A r \in RoomIds : sent[r] \subseteq sent'[r]
<1>1. ASSUME UNCHANGED vars PROVE Only
  BY <1>1 DEF vars, hallVars, machineVars
<1>2. ASSUME NEW p \in Peers,
             connectServer(p) \/ SendHello(p) \/ ConnectionBreaks(p) \/ onSessionHello(p)
      PROVE  Only
  BY <1>2 DEF connectServer, SendHello, ConnectionBreaks, onSessionHello, hallVars, machineVars
<1>3. ASSUME RoommgrCrashes \/ onSessionRequestCreateRoom PROVE Only
  BY <1>3 DEF RoommgrCrashes, onSessionRequestCreateRoom, hallVars, machineVars
<1>4. ASSUME NEW m \in Machines,
             \/ MachineCrashes(m) \/ onSessionRequestCreateRoomCB(m)
             \/ onSessionRoomSrvGameOverReport(m) \/ onSessionPacket(m)
      PROVE  Only
  BY <1>4 DEF MachineCrashes, onSessionRequestCreateRoomCB, onSessionRoomSrvGameOverReport,
              onSessionPacket, hallVars, machineVars
<1>5. ASSUME NEW m \in Machines, onTick(m) PROVE Only
  BY <1>5, TickSpeaks DEF onTick, hallVars
<1>6. ASSUME NEW r \in RoomIds, StartProcess(r) \/ GameServerExits(r) PROVE Only
  BY <1>6 DEF StartProcess, GameServerExits, hallVars
<1>7. ASSUME NEW m \in Machines, NEW r \in RoomIds, onSessionRoomSrvReportAddr(m, r)
      PROVE  Only
  <2>1. UNCHANGED hallRoom
    BY <1>7 DEF onSessionRoomSrvReportAddr, hallVars
  <2>2. \/ UNCHANGED sent
        \/ \E cs, prs : Tick(m, cs, prs)
    BY <1>7 DEF onSessionRoomSrvReportAddr
  <2> QED
    BY <2>1, <2>2, TickSpeaks
<1>8. ASSUME NEW m \in Machines, NEW r \in RoomIds, ReportGameOver(m, r) PROVE Only
  BY <1>8 DEF ReportGameOver, hallVars
<1>9. ASSUME Advance PROVE Only
  BY <1>9 DEF Advance
<1> HIDE DEF Only
<1>10. ASSUME NEW p \in Peers, Deliver(p) PROVE Only \/ onCreateRoomServerCB
  BY <1>2, <1>3, <1>4, <1>10 DEF Deliver
<1>11. Only \/ onCreateRoomServerCB \/ \E r \in RoomIds : createRoomServer(r) \/ RoomTick(r)
  BY <1>2, <1>3, <1>4, <1>5, <1>6, <1>7, <1>8, <1>9, <1>10, <1>1 DEF Next
<1> QED
  BY <1>11 DEF Only

PhaseOf(state) ==
  CASE state = "filling"  -> "open"
    [] state = "creating" -> "asked"
    [] state = "playing"  -> "playing"
    [] state = "gone"     -> "closed"

\* A room of halls that goes on moves one phase.
LEMMA PhaseMoves ==
  ASSUME TypeOK, NEW q \in RoomIds, NEW to \in {"filling", "creating", "playing", "gone"},
         hallRoom' = [hallRoom EXCEPT ![q] = to]
  PROVE  /\ grantPhase[q] = PhaseOf(hallRoom[q])
         /\ grantPhase' = [grantPhase EXCEPT ![q] = PhaseOf(to)]
<1>1. /\ grantPhase = [r \in RoomIds |-> PhaseOf(hallRoom[r])]
      /\ grantPhase' = [r \in RoomIds |-> PhaseOf(hallRoom'[r])]
  BY DEF grantPhase, PhaseOf
<1>2. hallRoom'[q] = to /\ \A r \in RoomIds \ {q} : hallRoom'[r] = hallRoom[r]
  BY DEF TypeOK
<1> QED
  BY <1>1, <1>2

LEMMA GrantInit == Init => G!Init
BY DEF Init, G!Init, grantPhase

LEMMA GrantStep ==
  ASSUME TypeOK, Inv, TypeOK', Inv', [Next]_vars
  PROVE  [G!Next]_(G!vars)
<1>1. CASE UNCHANGED hallRoom /\ \A r \in RoomIds : sent[r] \subseteq sent'[r]
  <2>1. UNCHANGED grantPhase
    BY <1>1 DEF grantPhase
  <2>2. ASSUME NEW r \in RoomIds
        PROVE  /\ sent'[r] \in {{}, {"ok"}, {"fail"}}
               /\ sent'[r] # sent[r] => sent[r] = {} /\ grantPhase[r] # "open"
    <3>1. sent'[r] \in SUBSET {"ok", "fail"} /\ sent[r] \in SUBSET {"ok", "fail"}
      BY DEF TypeOK
    <3>2. ~({"ok", "fail"} \subseteq sent'[r])
      BY DEF Inv, Started, Sound
    <3>3. hallRoom[r] = "filling" => sent[r] = {} /\ sent'[r] = {}
      BY <1>1 DEF Inv, Asked, Idle
    <3>4. grantPhase[r] = "open" => hallRoom[r] = "filling"
      BY DEF grantPhase, TypeOK
    <3> QED
      BY <1>1, <3>1, <3>2, <3>3, <3>4
  <2>3. sent' \in [RoomIds -> {{}, {"ok"}, {"fail"}}]
    BY <2>2 DEF TypeOK
  <2> QED
    BY <2>1, <2>2, <2>3 DEF G!Next, G!Decide, G!Verdicts
<1>2. ASSUME NEW q \in RoomIds, createRoomServer(q) PROVE G!Next
  <2>1. /\ hallRoom[q] = "filling" /\ UNCHANGED sent
        /\ \E to \in {"gone", "creating"} : hallRoom' = [hallRoom EXCEPT ![q] = to]
    BY <1>2 DEF createRoomServer, machineVars
  <2> QED
    BY <2>1, PhaseMoves DEF G!Next, G!Ask, G!Close, PhaseOf
<1>3. ASSUME NEW q \in RoomIds, RoomTick(q) PROVE G!Next
  <2>1. /\ hallRoom[q] \in {"creating", "playing"} /\ UNCHANGED sent
        /\ hallRoom' = [hallRoom EXCEPT ![q] = "gone"]
    BY <1>3 DEF RoomTick, GameTimeout, machineVars
  <2> QED
    BY <2>1, PhaseMoves DEF G!Next, G!Close, PhaseOf
<1>4. CASE onCreateRoomServerCB
  <2> DEFINE head == Head(fromMgr[Halls])
  <2>1. /\ fromMgr[Halls] # <<>> /\ UNCHANGED <<sent, toMgr>> /\ Halls \in Peers
        /\ fromMgr' = [fromMgr EXCEPT ![Halls] = Tail(@)]
        /\ \/ hallRoom' = hallRoom
           \/ /\ head.kind = "ok" /\ hallRoom[head.room] # "gone"
              /\ hallRoom' = [hallRoom EXCEPT ![head.room] = "playing"]
           \/ /\ head.kind = "fail" /\ hallRoom[head.room] # "gone"
              /\ hallRoom' = [hallRoom EXCEPT ![head.room] = "gone"]
    BY <1>4 DEF onCreateRoomServerCB, hallVars, machineVars, Peers
  <2>2. head \in Messages /\ head = Msg(head.kind, head.room) /\ InAir(head)
    BY <2>1, TakeTyped, MsgIsRecord, ReceivedTransit
  <2>3. CASE hallRoom' = hallRoom
    BY <1>1, <2>1, <2>3
  <2>4. CASE head.kind \in {"ok", "fail"} /\ hallRoom[head.room] # "gone"
    <3>1. PICK q \in RoomIds : q = head.room /\ head = Msg(head.kind, q)
      <4> HIDE DEF head
      <4> QED
        BY <2>2, <2>4 DEF Messages
    <3> HIDE DEF head
    <3>2. hallRoom[q] \in {"filling", "creating", "playing"}
      BY <2>4, <3>1 DEF TypeOK
    <3>3. CASE head.kind = "ok" /\ hallRoom' = [hallRoom EXCEPT ![q] = "playing"]
      <4>1. "ok" \in sent[q] /\ hallRoom[q] # "playing"
        BY <2>2, <3>1, <3>3 DEF Inv, Answered
      <4>2. sent[q] = {"ok"}
        BY <4>1 DEF Inv, Started, Sound, TypeOK
      <4>3. hallRoom[q] # "filling"
        BY <4>1 DEF Inv, Asked, Idle
      <4> QED
        BY <2>1, <3>2, <3>3, <4>1, <4>2, <4>3, PhaseMoves DEF G!Next, G!Begin, PhaseOf
    <3>4. CASE hallRoom' = [hallRoom EXCEPT ![q] = "gone"]
      BY <2>1, <3>2, <3>4, PhaseMoves DEF G!Next, G!Close, PhaseOf
    <3> QED
      BY <2>1, <2>3, <3>1, <3>3, <3>4
  <2> QED
    BY <2>1, <2>3, <2>4
<1> QED
  BY <1>1, <1>2, <1>3, <1>4, AnswersStay

\* A room sees one request, one verdict and one game, whatever breaks.
THEOREM RoomsAreGranted == Spec => ImplementsRoomGrant
<1>1. TypeOK /\ Inv /\ (TypeOK /\ Inv)' /\ [Next]_vars => [G!Next]_(G!vars)
  BY GrantStep
<1> QED
  BY <1>1, GrantInit, RoomServersInvariant, PTL DEF Spec, ImplementsRoomGrant, G!Spec
===============================================================================
