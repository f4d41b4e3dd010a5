--------------------------- MODULE HallsMatchProofs ---------------------------
(* What holds of HallsMatch for every number of players, rooms and modes.    *)
EXTENDS HallsMatch, FiniteSetTheorems, SequenceTheorems, TLAPS

-------------------------------------------------------------------------------
(* Lemmas about the maps and vectors the model is built from.                *)

\* Sorting a vector without repetitions keeps its rooms and its length.
LEMMA SortsFacts ==
  ASSUME NEW s \in Seq(RoomIds), IsInjective(s), NEW rms, NEW t \in Sorts(s, rms)
  PROVE  /\ t \in Seq(RoomIds)
         /\ Range(t) = Range(s)
         /\ IsInjective(t)
         /\ InOrder(t, rms)
<1> DEFINE D == 1..Len(s)
<1>1. Len(s) \in Nat /\ s \in [D -> RoomIds] /\ DOMAIN s = D
  BY LenProperties
<1>2. t \in [D -> Range(s)] /\ Range(t) = Range(s) /\ InOrder(t, rms)
  BY <1>1 DEF Sorts
<1>3. Range(s) \subseteq RoomIds
  BY <1>1 DEF Range
<1>4. t \in Seq(RoomIds)
  BY <1>1, <1>2, <1>3, SeqDef
<1>5. IsFiniteSet(D)
  BY <1>1, FS_Interval
<1>6. s \in Surjection(D, Range(s)) /\ s \in Injection(D, Range(s))
  BY <1>1 DEF Surjection, Injection, Range
<1>7. Cardinality(Range(s)) = Cardinality(D)
  BY <1>5, <1>6, FS_Surjection
<1>8. t \in Surjection(D, Range(s))
  BY <1>2 DEF Surjection, Range
<1>9. t \in Injection(D, Range(s))
  BY <1>5, <1>7, <1>8, FS_Surjection
<1> QED
  BY <1>2, <1>4, <1>9 DEF Injection

\* Erasing a room takes it, and nothing else, out of a vector.
LEMMA EraseFacts ==
  ASSUME NEW s \in Seq(RoomIds), IsInjective(s), NEW r
  PROVE  /\ Erase(s, r) \in Seq(RoomIds)
         /\ Range(Erase(s, r)) = Range(s) \ {r}
         /\ IsInjective(Erase(s, r))
<1>1. Len(s) \in Nat /\ s \in [1..Len(s) -> RoomIds] /\ DOMAIN s = 1..Len(s)
  BY LenProperties
<1>2. CASE r \notin Range(s)
  BY <1>2 DEF Erase
<1>3. CASE r \in Range(s)
  <2> DEFINE First(j) == s[j] = r /\ \A k \in 1..(j - 1) : s[k] # r
             i == CHOOSE j \in DOMAIN s : First(j)
             e == [j \in 1..(Len(s) - 1) |-> IF j < i THEN s[j] ELSE s[j + 1]]
  <2>1. PICK j \in DOMAIN s : s[j] = r
    BY <1>3 DEF Range
  <2>2. \A k \in 1..(j - 1) : s[k] # r
    BY <1>1, <2>1 DEF IsInjective
  <2>3. i \in 1..Len(s) /\ s[i] = r
    BY <1>1, <2>1, <2>2
  <2>4. Erase(s, r) = e
    BY <1>3 DEF Erase
  <2> HIDE DEF i
  <2>5. e \in [1..(Len(s) - 1) -> RoomIds] /\ Len(s) - 1 \in Nat
    BY <1>1, <2>3
  <2>6. e \in Seq(RoomIds)
    BY <2>5, SeqDef
  <2>7. IsInjective(e)
    BY <1>1, <2>3 DEF IsInjective
  <2>8. Range(e) \subseteq Range(s) \ {r}
    BY <1>1, <2>3 DEF Range, IsInjective
  <2>9. ASSUME NEW x \in Range(s) \ {r}
        PROVE  x \in Range(e)
    <3>1. PICK k \in 1..Len(s) : s[k] = x
      BY <1>1 DEF Range
    <3>2. CASE k < i
      BY <1>1, <2>3, <3>1, <3>2 DEF Range
    <3>3. CASE k > i
      <4>1. k - 1 \in 1..(Len(s) - 1) /\ ~(k - 1 < i) /\ (k - 1) + 1 = k
        BY <1>1, <2>3, <3>1, <3>3
      <4>2. e[k - 1] = x
        BY <3>1, <4>1
      <4> QED
        BY <4>1, <4>2 DEF Range
    <3> QED
      BY <2>3, <3>1, <3>2, <3>3
  <2> QED
    BY <2>4, <2>6, <2>7, <2>8, <2>9
<1> QED
  BY <1>2, <1>3

\* A room that is not in a vector is appended once.
LEMMA AppendFacts ==
  ASSUME NEW s \in Seq(RoomIds), IsInjective(s), NEW r \in RoomIds, r \notin Range(s)
  PROVE  /\ Append(s, r) \in Seq(RoomIds)
         /\ Range(Append(s, r)) = Range(s) \cup {r}
         /\ IsInjective(Append(s, r))
<1>1. Len(s) \in Nat /\ s \in [1..Len(s) -> RoomIds] /\ DOMAIN s = 1..Len(s)
  BY LenProperties
<1>2. /\ Append(s, r) \in Seq(RoomIds)
      /\ DOMAIN Append(s, r) = 1..(Len(s) + 1)
      /\ \A i \in 1..Len(s) : Append(s, r)[i] = s[i]
      /\ Append(s, r)[Len(s) + 1] = r
  BY <1>1, AppendProperties, LenProperties
<1>3. IsInjective(Append(s, r))
  BY <1>1, <1>2 DEF IsInjective, Range
<1>4. Range(Append(s, r)) = Range(s) \cup {r}
  BY <1>1, <1>2 DEF Range
<1> QED
  BY <1>2, <1>3, <1>4

-------------------------------------------------------------------------------
(* The types, together with the agreement of pool and rooms_: an entry of a  *)
(* vector is a room, so the room startMatch_ joins exists and has the mode.  *)

Typed ==
  /\ TypeOK
  /\ PoolMatchesRooms
  /\ call # NoCall => call.player \in objects

\* A handler that changes the vector of one mode, as the rooms of that mode
\* change, keeps vectors and rooms in agreement.
LEMMA PoolFollows ==
  ASSUME Typed, NEW m \in Modes, NEW s \in Seq(RoomIds), IsInjective(s),
         pool' = [pool EXCEPT ![m] = s],
         \A r \in RoomIds : r \in Range(s) <=> r \in DOMAIN rooms' /\ rooms'[r].mode = m,
         DOMAIN rooms' \subseteq RoomIds,
         \A n \in Modes \ {m}, r \in RoomIds :
           (r \in DOMAIN rooms' /\ rooms'[r].mode = n) <=> (r \in DOMAIN rooms /\ rooms[r].mode = n)
  PROVE  pool' \in [Modes -> Seq(RoomIds)] /\ PoolMatchesRooms'
<1>1. pool \in [Modes -> Seq(RoomIds)] /\ PoolMatchesRooms /\ DOMAIN rooms \subseteq RoomIds
  BY DEF Typed, TypeOK
<1>2. pool' \in [Modes -> Seq(RoomIds)]
  BY <1>1
<1>3. ASSUME NEW n \in Modes
      PROVE  /\ Range(pool'[n]) = {r \in DOMAIN rooms' : rooms'[r].mode = n}
             /\ IsInjective(pool'[n])
  <2>1. CASE n = m
    <3>1. pool'[n] = s
      BY <1>1, <2>1
    <3>2. Range(s) \subseteq RoomIds
      BY LenProperties DEF Range
    <3> QED
      BY <2>1, <3>1, <3>2
  <2>2. CASE n # m
    <3>1. pool'[n] = pool[n]
      BY <1>1, <2>2
    <3>2. Range(pool[n]) = {r \in DOMAIN rooms : rooms[r].mode = n} /\ IsInjective(pool[n])
      BY <1>1 DEF PoolMatchesRooms
    <3>3. {r \in DOMAIN rooms : rooms[r].mode = n} = {r \in DOMAIN rooms' : rooms'[r].mode = n}
      BY <1>1, <2>2
    <3> QED
      BY <3>1, <3>2, <3>3
  <2> QED
    BY <2>1, <2>2
<1> QED
  BY <1>2, <1>3 DEF PoolMatchesRooms

\* What is there before a step of startMatch_: the room at the front of a
\* vector is registered and has the mode of the vector.
LEMMA FrontIsRoom ==
  ASSUME Typed, NEW m \in Modes, FrontWaits(m)
  PROVE  /\ pool[m][1] \in DOMAIN rooms
         /\ rooms[pool[m][1]].mode = m
         /\ rooms[pool[m][1]].state = "WaitStart"
<1>1. pool[m] \in Seq(RoomIds) /\ pool[m] # <<>>
  BY DEF Typed, TypeOK, FrontWaits
<1>2. 1 \in DOMAIN pool[m]
  BY <1>1, EmptySeq, LenProperties
<1>3. pool[m][1] \in Range(pool[m])
  BY <1>2 DEF Range
<1> QED
  BY <1>3 DEF Typed, PoolMatchesRooms, FrontWaits

\* Taking pending players never takes anybody else.
LEMMA MovableFacts ==
  ASSUME NEW room, NEW F \in Movable(room)
  PROVE  F \subseteq pending
  BY DEF Movable

\* The frame of startMatch() stays one, of the same player.
LEMMA NextModeFacts ==
  ASSUME call \in Calls, NEW m, NextMode(m)
  PROVE  /\ call' \in Calls \cup {NoCall}
         /\ call' # NoCall => /\ call'.player = call.player
                             /\ ~call.create
                             /\ proom'[call.player] = OBJECT_ID_INVALID
  BY DEF NextMode, Calls

\* Room::enter, whichever way the room goes.
LEMMA EnterTyped ==
  ASSUME Typed, call # NoCall,
         NEW r \in RoomIds, NEW room \in Rooms, NEW F \in SUBSET pending,
         NEW base \in Seq(RoomIds), IsInjective(base),
         \A x \in RoomIds : x \in Range(base) <=>
           x = r \/ (x \in DOMAIN rooms /\ rooms[x].mode = room.mode),
         r \in DOMAIN rooms => rooms[r].mode = room.mode,
         enter(r, room, F, base)
  PROVE  Typed'
<1> DEFINE p     == call.player
           m     == room.mode
           full  == expectedPlayerNum(room) = 0
           prs   == [x \in Players |-> IF x \in F \cup {p} THEN r ELSE proom[x]]
           rms   == Put(rooms, r, room)
           going == [room EXCEPT !.state = "CreatingRoomServer"]
           asked == Put(rooms, r, going)
<1>1. TypeOK /\ PoolMatchesRooms /\ call \in Calls /\ p \in objects /\ m \in Modes
  BY DEF Typed, TypeOK, Rooms
<1>2. going \in Rooms /\ going.mode = m
  BY DEF Rooms, RoomStates
<1>3. /\ DOMAIN rms = DOMAIN rooms \cup {r} /\ DOMAIN rms \subseteq RoomIds
      /\ rms \in [DOMAIN rms -> Rooms] /\ rms[r] = room
      /\ \A x \in DOMAIN rooms : x # r => rms[x] = rooms[x]
  <2>1. DOMAIN rooms \subseteq RoomIds /\ rooms \in [DOMAIN rooms -> Rooms]
    BY <1>1 DEF TypeOK
  <2> QED
    BY <2>1 DEF Put
<1>4. /\ DOMAIN asked = DOMAIN rooms \cup {r} /\ DOMAIN asked \subseteq RoomIds
      /\ asked \in [DOMAIN asked -> Rooms] /\ asked[r] = going
      /\ \A x \in DOMAIN rooms : x # r => asked[x] = rooms[x]
  <2>1. DOMAIN rooms \subseteq RoomIds /\ rooms \in [DOMAIN rooms -> Rooms]
    BY <1>1 DEF TypeOK
  <2> QED
    BY <1>2, <2>1 DEF Put
<1>5. prs \in [Players -> RoomIds \cup {OBJECT_ID_INVALID}]
  BY <1>1 DEF TypeOK
<1> HIDE DEF p, m, full, prs, rms, going, asked
<1>6. CASE /\ ~full
           /\ rooms' = rms
           /\ proom' = prs
           /\ \E s \in Sorts(base, rms) : pool' = [pool EXCEPT ![m] = s]
           /\ pending' = pending \ F
           /\ NextMode(m)
           /\ UNCHANGED <<playerVars, pstate, reqs, roommgrUp, strays, crashed>>
  <2>1. PICK s \in Sorts(base, rms) : pool' = [pool EXCEPT ![m] = s]
    BY <1>6
  <2>2. s \in Seq(RoomIds) /\ Range(s) = Range(base) /\ IsInjective(s)
    BY SortsFacts
  <2>3. pool' \in [Modes -> Seq(RoomIds)] /\ PoolMatchesRooms'
    <3>1. /\ DOMAIN rooms' \subseteq RoomIds
          /\ \A x \in RoomIds : x \in Range(s) <=> x \in DOMAIN rooms' /\ rooms'[x].mode = m
          /\ \A n \in Modes \ {m}, x \in RoomIds :
               (x \in DOMAIN rooms' /\ rooms'[x].mode = n) <=> (x \in DOMAIN rooms /\ rooms[x].mode = n)
      BY <1>1, <1>3, <1>6, <2>2 DEF m
    <3> QED
      BY <1>1, <2>1, <2>2, <3>1, PoolFollows
  <2>4. call' \in Calls \cup {NoCall} /\ (call' # NoCall => call'.player \in objects')
    BY <1>1, <1>6, NextModeFacts DEF p, playerVars
  <2> QED
    BY <1>1, <1>3, <1>5, <1>6, <2>3, <2>4 DEF Typed, TypeOK, playerVars
<1>7. CASE /\ full /\ roommgrUp
           /\ rooms' = asked
           /\ proom' = prs
           /\ \E s \in Sorts(base, asked) : pool' = [pool EXCEPT ![m] = s]
           /\ reqs' = reqs \cup {r}
           /\ pending' = pending \ F
           /\ NextMode(m)
           /\ UNCHANGED <<playerVars, pstate, roommgrUp, strays, crashed>>
  <2>1. PICK s \in Sorts(base, asked) : pool' = [pool EXCEPT ![m] = s]
    BY <1>7
  <2>2. s \in Seq(RoomIds) /\ Range(s) = Range(base) /\ IsInjective(s)
    BY SortsFacts
  <2>3. pool' \in [Modes -> Seq(RoomIds)] /\ PoolMatchesRooms'
    BY <1>1, <1>2, <1>4, <1>7, <2>1, <2>2, PoolFollows, ZenonT(60) DEF m
  <2>4. call' \in Calls \cup {NoCall} /\ (call' # NoCall => call'.player \in objects')
    BY <1>1, <1>7, NextModeFacts DEF p, playerVars
  <2> QED
    BY <1>1, <1>4, <1>5, <1>7, <2>3, <2>4 DEF Typed, TypeOK, playerVars
<1>8. CASE /\ full /\ ~roommgrUp
           /\ ~AssertFails(rms, prs, room.players)
           /\ destroy(r, rms, prs)
           /\ \E s \in Sorts(Erase(base, r), rooms') : pool' = [pool EXCEPT ![m] = s]
           /\ pending' = pending \ F
           /\ strays' = IF call.create THEN strays ELSE strays \cup {p}
           /\ NextMode(m)
           /\ UNCHANGED <<playerVars, reqs, roommgrUp, crashed>>
  <2>1. PICK s \in Sorts(Erase(base, r), rooms') : pool' = [pool EXCEPT ![m] = s]
    BY <1>8
  <2>2. /\ Erase(base, r) \in Seq(RoomIds)
        /\ Range(Erase(base, r)) = Range(base) \ {r}
        /\ IsInjective(Erase(base, r))
    BY EraseFacts
  <2>3. s \in Seq(RoomIds) /\ Range(s) = Range(base) \ {r} /\ IsInjective(s)
    BY <2>2, SortsFacts
  <2>4. rooms' = Remove(rms, r)
    BY <1>8 DEF destroy
  <2>5. /\ DOMAIN rooms' = DOMAIN rooms \ {r} /\ DOMAIN rooms' \subseteq RoomIds
        /\ rooms' \in [DOMAIN rooms' -> Rooms]
        /\ \A x \in DOMAIN rooms : x # r => rooms'[x] = rooms[x]
    BY <1>3, <2>4 DEF Remove, Restrict
  <2>6. pool' \in [Modes -> Seq(RoomIds)] /\ PoolMatchesRooms'
    <3>1. \A x \in RoomIds : x \in Range(s) <=> x \in DOMAIN rooms' /\ rooms'[x].mode = m
      BY <2>3, <2>5 DEF m
    <3>2. \A n \in Modes \ {m}, x \in RoomIds :
            (x \in DOMAIN rooms' /\ rooms'[x].mode = n) <=> (x \in DOMAIN rooms /\ rooms[x].mode = n)
      BY <2>5 DEF m
    <3> QED
      BY <1>1, <2>1, <2>3, <2>5, <3>1, <3>2, PoolFollows
  <2>7. /\ pstate' \in [Players -> PlayerStates]
        /\ proom' \in [Players -> RoomIds \cup {OBJECT_ID_INVALID}]
    BY <1>1, <1>5, <1>8 DEF destroy, TypeOK, PlayerStates
  <2>8. call' \in Calls \cup {NoCall} /\ (call' # NoCall => call'.player \in objects')
    BY <1>1, <1>8, NextModeFacts DEF p, playerVars
  <2>9. strays' \subseteq Players
    BY <1>1, <1>8 DEF TypeOK
  <2> QED
    BY <1>1, <1>8, <2>5, <2>6, <2>7, <2>8, <2>9 DEF Typed, TypeOK, playerVars
<1>9. CASE full /\ ~roommgrUp /\ Crash
  BY <1>1, <1>9 DEF Crash, Typed, TypeOK, PoolMatchesRooms, playerVars, roomVars
<1> QED
  BY <1>6, <1>7, <1>8, <1>9 DEF enter, p, m, full, prs, rms, going, asked

\* startMatch_, whichever of its branches is taken.
LEMMA StartMatchTyped ==
  ASSUME Typed, NEW m \in Modes, startMatch_(m)
  PROVE  Typed'
<1> DEFINE p == call.player
<1>1. /\ TypeOK /\ PoolMatchesRooms /\ call \in Calls /\ p \in objects /\ p \in Players
      /\ pool[m] \in Seq(RoomIds) /\ IsInjective(pool[m])
      /\ \A x \in RoomIds : x \in Range(pool[m]) <=> x \in DOMAIN rooms /\ rooms[x].mode = m
      /\ DOMAIN rooms \subseteq RoomIds /\ rooms \in [DOMAIN rooms -> Rooms]
      /\ pending \subseteq Players
  BY DEF Typed, TypeOK, PoolMatchesRooms, startMatch_, Calls
<1> HIDE DEF p
<1>2. CASE JoinFront(m)
  <2> DEFINE r      == pool[m][1]
             joined == [rooms[r] EXCEPT !.players = @ \cup {p}]
  <2>1. PICK F \in Movable(joined) :
          enter(r, [joined EXCEPT !.players = @ \cup F], F, pool[m])
    BY <1>2 DEF JoinFront, p
  <2>2. F \in SUBSET pending
    BY MovableFacts
  <2>3. r \in DOMAIN rooms /\ rooms[r].mode = m
    BY <1>2, FrontIsRoom DEF JoinFront
  <2> HIDE DEF r
  <2> DEFINE room == [joined EXCEPT !.players = @ \cup F]
  <2>4. room \in Rooms /\ room.mode = m
    BY <1>1, <2>2, <2>3 DEF Rooms
  <2>5. enter(r, room, F, pool[m])
    BY <2>1
  <2> HIDE DEF room
  <2>6. \A x \in RoomIds : x \in Range(pool[m]) <=>
          x = r \/ (x \in DOMAIN rooms /\ rooms[x].mode = room.mode)
    BY <1>1, <2>3, <2>4
  <2>7. r \in RoomIds /\ (r \in DOMAIN rooms => rooms[r].mode = room.mode)
    BY <1>1, <2>3, <2>4
  <2> QED
    BY <1>1, <2>2, <2>4, <2>5, <2>6, <2>7, EnterTyped DEF startMatch_
<1>3. CASE OpenRoom(m)
  <2> DEFINE opened == [mode |-> m, state |-> "WaitStart", players |-> {p}]
  <2>1. PICK r \in FreshRooms, F \in Movable(opened) :
          enter(r, [opened EXCEPT !.players = @ \cup F], F, Append(pool[m], r))
    BY <1>3 DEF OpenRoom, p
  <2>2. F \in SUBSET pending
    BY MovableFacts
  <2>3. r \in RoomIds /\ r \notin DOMAIN rooms
    BY DEF FreshRooms
  <2>4. /\ Append(pool[m], r) \in Seq(RoomIds)
        /\ Range(Append(pool[m], r)) = Range(pool[m]) \cup {r}
        /\ IsInjective(Append(pool[m], r))
    BY <1>1, <2>3, AppendFacts
  <2> DEFINE room == [opened EXCEPT !.players = @ \cup F]
             base == Append(pool[m], r)
  <2>5. room \in Rooms /\ room.mode = m
    BY <1>1, <2>2 DEF Rooms, RoomStates
  <2>6. enter(r, room, F, base)
    BY <2>1
  <2> HIDE DEF room
  <2>7. \A x \in RoomIds : x \in Range(base) <=>
          x = r \/ (x \in DOMAIN rooms /\ rooms[x].mode = room.mode)
    BY <1>1, <2>3, <2>4, <2>5
  <2> HIDE DEF base
  <2> QED
    BY <1>1, <2>2, <2>3, <2>4, <2>5, <2>6, <2>7, EnterTyped DEF startMatch_, base
<1>4. CASE OpenUnregisteredRoom(m)
  <2> DEFINE empty == [mode |-> m, state |-> "WaitStart", players |-> {}]
  <2>1. PICK r \in FreshRooms, F \in Movable(empty) :
          LET room  == [empty EXCEPT !.players = F \cup {p}]
              early == Cardinality(F) >= PlayerMax[m]
              full  == expectedPlayerNum(room) = 0
              state == IF full THEN "CreatingRoomServer" ELSE "WaitStart"
          IN  \/ Crash
              \/ /\ rooms' = Put(rooms, r, [room EXCEPT !.state = state])
                 /\ proom' = [x \in Players |-> IF x \in F \cup {p} THEN r ELSE proom[x]]
                 /\ \E s \in Sorts(pool[m], rooms) :
                      pool' = [pool EXCEPT ![m] = Append(s, r)]
                 /\ reqs' = IF full THEN reqs \cup {r} ELSE reqs
                 /\ pending' = pending \ F
                 /\ NextMode(m)
                 /\ UNCHANGED <<playerVars, pstate, roommgrUp, strays, crashed>>
    BY <1>4 DEF OpenUnregisteredRoom, p
  <2>2. F \in SUBSET pending
    BY MovableFacts
  <2>3. r \in RoomIds /\ r \notin DOMAIN rooms
    BY DEF FreshRooms
  <2>4. CASE Crash
    BY <1>1, <2>4 DEF Crash, Typed, TypeOK, PoolMatchesRooms, playerVars, roomVars
  <2>5. CASE ~Crash
    <3> DEFINE full == expectedPlayerNum([empty EXCEPT !.players = F \cup {p}]) = 0
               room == [[empty EXCEPT !.players = F \cup {p}] EXCEPT !.state =
                          IF full THEN "CreatingRoomServer" ELSE "WaitStart"]
    <3>1. /\ rooms' = Put(rooms, r, room)
          /\ proom' = [x \in Players |-> IF x \in F \cup {p} THEN r ELSE proom[x]]
          /\ reqs' = IF full THEN reqs \cup {r} ELSE reqs
          /\ pending' = pending \ F
          /\ NextMode(m)
          /\ UNCHANGED <<playerVars, pstate, roommgrUp, strays, crashed>>
      BY <2>1, <2>5
    <3>2. PICK s \in Sorts(pool[m], rooms) : pool' = [pool EXCEPT ![m] = Append(s, r)]
      BY <2>1, <2>5
    <3> HIDE DEF full
    <3>3. room \in Rooms /\ room.mode = m
      BY <1>1, <2>2 DEF Rooms, RoomStates
    <3> HIDE DEF room
    <3>4. /\ DOMAIN rooms' = DOMAIN rooms \cup {r} /\ DOMAIN rooms' \subseteq RoomIds
          /\ rooms' \in [DOMAIN rooms' -> Rooms] /\ rooms'[r] = room
          /\ \A x \in DOMAIN rooms : x # r => rooms'[x] = rooms[x]
      BY <1>1, <2>3, <3>1, <3>3 DEF Put
    <3>5. s \in Seq(RoomIds) /\ Range(s) = Range(pool[m]) /\ IsInjective(s)
      BY <1>1, SortsFacts
    <3>6. /\ Append(s, r) \in Seq(RoomIds)
          /\ Range(Append(s, r)) = Range(pool[m]) \cup {r}
          /\ IsInjective(Append(s, r))
      BY <1>1, <2>3, <3>5, AppendFacts
    <3>7. pool' \in [Modes -> Seq(RoomIds)] /\ PoolMatchesRooms'
      <4>1. \A x \in RoomIds :
              x \in Range(Append(s, r)) <=> x \in DOMAIN rooms' /\ rooms'[x].mode = m
        BY <1>1, <2>3, <3>3, <3>4, <3>6
      <4>2. \A n \in Modes \ {m}, x \in RoomIds :
              (x \in DOMAIN rooms' /\ rooms'[x].mode = n) <=> (x \in DOMAIN rooms /\ rooms[x].mode = n)
        BY <2>3, <3>3, <3>4
      <4> QED
        BY <3>2, <3>4, <3>6, <4>1, <4>2, PoolFollows
    <3>8. call' \in Calls \cup {NoCall} /\ (call' # NoCall => call'.player \in objects')
      BY <1>1, <3>1, NextModeFacts DEF p, playerVars
    <3>9. proom' \in [Players -> RoomIds \cup {OBJECT_ID_INVALID}]
      BY <1>1, <2>3, <3>1 DEF TypeOK
    <3> QED
      BY <1>1, <2>3, <3>1, <3>4, <3>7, <3>8, <3>9 DEF Typed, TypeOK, playerVars
  <2> QED
    BY <2>4, <2>5
<1>5. CASE NoRoomFound(m)
  <2>1. call' \in Calls \cup {NoCall} /\ (call' # NoCall => call'.player \in objects')
    BY <1>1, <1>5, NextModeFacts DEF NoRoomFound, p, playerVars
  <2> QED
    BY <1>1, <1>5, <2>1
       DEF NoRoomFound, Typed, TypeOK, PoolMatchesRooms, playerVars, roomVars
<1> QED
  BY <1>2, <1>3, <1>4, <1>5 DEF startMatch_

\* A room destroyed by a handler of its own.
LEMMA DestroyRoomTyped ==
  ASSUME Typed, NEW r \in DOMAIN rooms, DestroyRoom(r),
         UNCHANGED <<playerVars, pending, roommgrUp, call, strays>>, reqs' \subseteq reqs
  PROVE  Typed'
<1>1. /\ TypeOK /\ PoolMatchesRooms /\ DOMAIN rooms \subseteq RoomIds
      /\ rooms \in [DOMAIN rooms -> Rooms] /\ rooms[r].mode \in Modes
  BY DEF Typed, TypeOK, Rooms
<1>2. CASE ~AssertFails(rooms, proom, rooms[r].players)
  <2> DEFINE m == rooms[r].mode
  <2>1. /\ rooms' = Remove(rooms, r)
        /\ pool' = [pool EXCEPT ![m] = Erase(@, r)]
        /\ UNCHANGED crashed
    BY <1>2 DEF DestroyRoom, destroy
  <2>2. /\ DOMAIN rooms' = DOMAIN rooms \ {r} /\ DOMAIN rooms' \subseteq RoomIds
        /\ rooms' \in [DOMAIN rooms' -> Rooms]
        /\ \A x \in DOMAIN rooms : x # r => rooms'[x] = rooms[x]
    BY <1>1, <2>1 DEF Remove, Restrict
  <2> HIDE DEF m
  <2>3. /\ pool[m] \in Seq(RoomIds) /\ IsInjective(pool[m])
        /\ \A x \in RoomIds : x \in Range(pool[m]) <=> x \in DOMAIN rooms /\ rooms[x].mode = m
    BY <1>1 DEF TypeOK, PoolMatchesRooms, m
  <2>4. /\ Erase(pool[m], r) \in Seq(RoomIds)
        /\ Range(Erase(pool[m], r)) = Range(pool[m]) \ {r}
        /\ IsInjective(Erase(pool[m], r))
    BY <2>3, EraseFacts
  <2>5. pool' \in [Modes -> Seq(RoomIds)] /\ PoolMatchesRooms'
    <3> DEFINE e == Erase(pool[m], r)
    <3>1. pool' = [pool EXCEPT ![m] = e]
      BY <2>1
    <3>2. \A x \in RoomIds : x \in Range(e) <=> x \in DOMAIN rooms' /\ rooms'[x].mode = m
      BY <2>2, <2>3, <2>4
    <3>3. \A n \in Modes \ {m}, x \in RoomIds :
            (x \in DOMAIN rooms' /\ rooms'[x].mode = n) <=> (x \in DOMAIN rooms /\ rooms[x].mode = n)
      BY <2>2 DEF m
    <3> HIDE DEF e
    <3> QED
      BY <1>1, <2>2, <2>4, <3>1, <3>2, <3>3, PoolFollows DEF m, e
  <2>6. /\ pstate' \in [Players -> PlayerStates]
        /\ proom' \in [Players -> RoomIds \cup {OBJECT_ID_INVALID}]
    BY <1>1, <1>2 DEF DestroyRoom, destroy, TypeOK, PlayerStates
  <2> QED
    BY <1>1, <2>1, <2>2, <2>5, <2>6 DEF Typed, TypeOK, playerVars
<1>3. CASE AssertFails(rooms, proom, rooms[r].players)
  BY <1>1, <1>3 DEF DestroyRoom, Typed, TypeOK, PoolMatchesRooms, playerVars, roomVars
<1> QED
  BY <1>2, <1>3

\* A room that starts its game.
LEMMA StartGameTyped ==
  ASSUME Typed, NEW r \in DOMAIN rooms, StartGame(r),
         UNCHANGED <<playerVars, pending, roommgrUp, call, strays>>, reqs' \subseteq reqs
  PROVE  Typed'
<1>1. /\ TypeOK /\ PoolMatchesRooms /\ DOMAIN rooms \subseteq RoomIds
      /\ rooms \in [DOMAIN rooms -> Rooms]
  BY DEF Typed, TypeOK
<1>2. CASE ~AssertFails(rooms, proom, rooms[r].players)
  <2>1. /\ rooms' = [rooms EXCEPT ![r].state = "Playing"]
        /\ pstate' = [x \in Players |-> IF x \in rooms[r].players THEN "Playing" ELSE pstate[x]]
        /\ UNCHANGED <<proom, pool, crashed>>
    BY <1>2 DEF StartGame
  <2>2. /\ DOMAIN rooms' = DOMAIN rooms /\ rooms' \in [DOMAIN rooms -> Rooms]
        /\ \A x \in DOMAIN rooms : rooms'[x].mode = rooms[x].mode
    BY <1>1, <2>1 DEF Rooms, RoomStates
  <2>3. PoolMatchesRooms'
    BY <1>1, <2>1, <2>2 DEF PoolMatchesRooms
  <2>4. pstate' \in [Players -> PlayerStates]
    BY <1>1, <2>1 DEF TypeOK, PlayerStates
  <2> QED
    BY <1>1, <2>1, <2>2, <2>3, <2>4 DEF Typed, TypeOK, playerVars
<1>3. CASE AssertFails(rooms, proom, rooms[r].players)
  BY <1>1, <1>3 DEF StartGame, Typed, TypeOK, PoolMatchesRooms, playerVars, roomVars
<1> QED
  BY <1>2, <1>3

\* A player that leaves: its room stays, with one player less, in its place or
\* another one of the sorted vector.
LEMMA OnDestroyTimerTyped ==
  ASSUME Typed, NEW p \in Players, onDestroyTimer(p)
  PROVE  Typed'
<1>1. /\ TypeOK /\ PoolMatchesRooms /\ DOMAIN rooms \subseteq RoomIds
      /\ rooms \in [DOMAIN rooms -> Rooms]
  BY DEF Typed, TypeOK
<1>2. /\ p \notin conn /\ objects' = objects \ {p} /\ pending' = pending \ {p} /\ call = NoCall
      /\ pstate' = [pstate EXCEPT ![p] = "WaitStart"]
      /\ UNCHANGED <<conn, reqs, roommgrUp, call, strays, crashed>>
  BY DEF onDestroyTimer, Idle
<1>3. pstate' \in [Players -> PlayerStates]
  BY <1>1, <1>2 DEF TypeOK, PlayerStates
<1> DEFINE r == proom[p]
<1>4. CASE r \in DOMAIN rooms /\ p \in rooms[r].players
  <2> DEFINE m == rooms[r].mode
  <2>1. /\ proom' = [proom EXCEPT ![p] = OBJECT_ID_INVALID]
        /\ rooms' = [rooms EXCEPT ![r].players = @ \ {p}]
    BY <1>4 DEF onDestroyTimer
  <2>2. PICK s \in Sorts(pool[m], rooms') : pool' = [pool EXCEPT ![m] = s]
    BY <1>4 DEF onDestroyTimer
  <2>3. /\ DOMAIN rooms' = DOMAIN rooms /\ rooms' \in [DOMAIN rooms -> Rooms]
        /\ \A x \in DOMAIN rooms : rooms'[x].mode = rooms[x].mode
    BY <1>1, <1>4, <2>1 DEF Rooms
  <2>4. m \in Modes
    BY <1>1, <1>4 DEF Rooms
  <2> HIDE DEF m
  <2>5. /\ pool[m] \in Seq(RoomIds) /\ IsInjective(pool[m])
        /\ \A x \in RoomIds : x \in Range(pool[m]) <=> x \in DOMAIN rooms /\ rooms[x].mode = m
    BY <1>1, <2>4 DEF TypeOK, PoolMatchesRooms
  <2>6. s \in Seq(RoomIds) /\ Range(s) = Range(pool[m]) /\ IsInjective(s)
    BY <2>5, SortsFacts
  <2>7. pool' \in [Modes -> Seq(RoomIds)] /\ PoolMatchesRooms'
    <3>1. \A x \in RoomIds : x \in Range(s) <=> x \in DOMAIN rooms' /\ rooms'[x].mode = m
      BY <2>3, <2>5, <2>6
    <3>2. \A n \in Modes \ {m}, x \in RoomIds :
            (x \in DOMAIN rooms' /\ rooms'[x].mode = n) <=> (x \in DOMAIN rooms /\ rooms[x].mode = n)
      BY <2>3
    <3> QED
      BY <1>1, <2>2, <2>3, <2>4, <2>6, <3>1, <3>2, PoolFollows
  <2>8. proom' \in [Players -> RoomIds \cup {OBJECT_ID_INVALID}]
    BY <1>1, <2>1 DEF TypeOK
  <2> QED
    BY <1>1, <1>2, <1>3, <2>3, <2>7, <2>8 DEF Typed, TypeOK
<1>5. CASE ~(r \in DOMAIN rooms /\ p \in rooms[r].players)
  <2>1. UNCHANGED <<proom, rooms, pool>>
    BY <1>5 DEF onDestroyTimer
  <2> QED
    BY <1>1, <1>2, <1>3, <2>1 DEF Typed, TypeOK, PoolMatchesRooms
<1> QED
  BY <1>4, <1>5

\* Every step keeps the types.
LEMMA NextTyped == Typed /\ [Next]_vars => Typed'
<1> SUFFICES ASSUME Typed, [Next]_vars PROVE Typed'
  OBVIOUS
<1> USE DEF Typed, TypeOK, PoolMatchesRooms, playerVars, roomVars
<1>1. ASSUME NEW p \in Players, onSessionQueryAccountCB(p) PROVE Typed'
  BY <1>1 DEF onSessionQueryAccountCB, Idle, PlayerStates
<1>2. ASSUME NEW p \in Players, onDestroyTimer(p) PROVE Typed'
  BY <1>2, OnDestroyTimerTyped
<1>3. ASSUME NEW S \in SUBSET conn, onClientDisconnected(S) PROVE Typed'
  BY <1>3 DEF onClientDisconnected, Idle
<1>4. ASSUME NEW p \in Players, NEW g \in Modes \cup UnknownModes \cup {AnyMode},
             onSessionStartMatch(p, g)
      PROVE  Typed'
  <2>1. /\ p \in objects /\ pstate' = [pstate EXCEPT ![p] = "StartMatching"]
        /\ UNCHANGED <<playerVars, proom, rooms, pool, pending, reqs, roommgrUp, strays, crashed>>
    BY <1>4 DEF onSessionStartMatch
  <2>2. call' \in Calls \cup {NoCall} /\ (call' # NoCall => call'.player = p)
    <3>1. CASE UNCHANGED call
      BY <1>4, <3>1 DEF onSessionStartMatch, Idle
    <3>2. CASE g \in Modes /\ call' = [player |-> p, modes |-> {g}, create |-> TRUE]
      BY <3>2 DEF Calls
    <3>3. CASE call' = [player |-> p, modes |-> Modes, create |-> FALSE]
      BY <3>3 DEF Calls
    <3> QED
      BY <1>4, <3>1, <3>2, <3>3 DEF onSessionStartMatch
  <2>3. pstate' \in [Players -> PlayerStates]
    BY <2>1 DEF PlayerStates
  <2> QED
    BY <2>1, <2>2, <2>3
<1>5. ASSUME NEW m \in Modes, startMatch_(m) PROVE Typed'
  BY <1>5, StartMatchTyped
<1>6. CASE addPendingMatch
  BY <1>6 DEF addPendingMatch
<1>7. ASSUME NEW r \in RoomIds, NEW ok \in BOOLEAN, onSessionRequestCreateRoomCB(r, ok)
      PROVE  Typed'
  BY <1>7, DestroyRoomTyped, StartGameTyped DEF onSessionRequestCreateRoomCB
<1>8. ASSUME NEW r \in RoomIds, LoseRequest(r) PROVE Typed'
  BY <1>8 DEF LoseRequest
<1>9. ASSUME NEW r \in RoomIds, onTick(r) PROVE Typed'
  BY <1>9, DestroyRoomTyped DEF onTick
<1>10. CASE RoommgrChange
  BY <1>10 DEF RoommgrChange
<1>11. CASE UNCHANGED vars
  BY <1>11 DEF vars
<1> QED
  BY <1>1, <1>2, <1>3, <1>4, <1>5, <1>6, <1>7, <1>8, <1>9, <1>10, <1>11
     DEF Next, StartMatchStep

LEMMA InitTyped == Init => Typed
<1> SUFFICES ASSUME Init PROVE Typed
  OBVIOUS
<1>1. \A m \in Modes : pool[m] = <<>> /\ DOMAIN pool[m] = {}
  BY DEF Init
<1>2. PoolMatchesRooms
  BY <1>1 DEF Init, PoolMatchesRooms, Range, IsInjective
<1>3. pool \in [Modes -> Seq(RoomIds)]
  BY EmptySeq DEF Init
<1> QED
  BY <1>2, <1>3 DEF Init, Typed, TypeOK, PlayerStates

\* Whatever the numbers of players, rooms and modes: the fields of the halls
\* server have their types (XServerApp, Room and XPlayer of halls).
THEOREM TypeCorrect == Spec => []TypeOK
<1>1. Typed => TypeOK
  BY DEF Typed
<1> QED
  BY <1>1, InitTyped, NextTyped, PTL DEF Spec

\* Each live room is once in the vector of its mode (startMatch_, Room::enter,
\* destroyRoom).
THEOREM PoolsAgree == Spec => []PoolMatchesRooms
<1>1. Typed => PoolMatchesRooms
  BY DEF Typed
<1> QED
  BY <1>1, InitTyped, NextTyped, PTL DEF Spec

-------------------------------------------------------------------------------
(* The records a player and its room keep of each other.  None of the parts  *)
(* is inductive alone: a pending player may be moved because it is in no room *)
(* (Membership, PendingIsUnplaced), the caller likewise (CallerIsUnplaced),  *)
(* and destroying a room resets exactly the players that point to it.        *)

Records ==
  /\ Membership
  /\ PendingIsUnplaced
  /\ CallerIsUnplaced
  /\ PlayerFollowsRoom
  /\ NoGhostPlayers

\* The caller and the pending players F are put into room r, new or waiting.
LEMMA SeatedKeepsRecords ==
  ASSUME Typed, Records, call # NoCall,
         NEW r \in RoomIds, NEW F \in SUBSET pending, NEW old,
         r \in DOMAIN rooms => old = rooms[r].players /\ rooms[r].state # "Playing",
         r \notin DOMAIN rooms => old = {},
         DOMAIN rooms' = DOMAIN rooms \cup {r},
         \A x \in DOMAIN rooms : x # r => rooms'[x] = rooms[x],
         rooms'[r].players = old \cup F \cup {call.player},
         rooms'[r].state # "Playing",
         proom' = [x \in Players |-> IF x \in F \cup {call.player} THEN r ELSE proom[x]],
         pending' = pending \ F,
         call' = NoCall,
         UNCHANGED <<playerVars, pstate, strays>>
  PROVE  Records'
<1> DEFINE p == call.player
<1>1. /\ objects \subseteq Players /\ pending \subseteq objects /\ p \in objects
      /\ DOMAIN rooms \subseteq RoomIds
      /\ proom \in [Players -> RoomIds \cup {OBJECT_ID_INVALID}]
  BY DEF Typed, TypeOK
<1>2. \A x \in (F \cup {p}) \ strays :
        proom[x] = OBJECT_ID_INVALID /\ pstate[x] = "StartMatching"
  BY DEF Records, PendingIsUnplaced, CallerIsUnplaced
<1>3. \A x \in (F \cup {p}) \ strays, y \in DOMAIN rooms : x \notin rooms[y].players
  BY <1>1, <1>2, NullAssumption DEF Records, Membership, InRoom
<1> HIDE DEF p
<1>4. Membership'
  <2> SUFFICES ASSUME NEW x \in Players \ strays, NEW y \in RoomIds
               PROVE  (y \in DOMAIN rooms' /\ x \in rooms'[y].players) <=> proom'[x] = y
    BY DEF Membership, InRoom
  <2>1. (y \in DOMAIN rooms /\ x \in rooms[y].players) <=> proom[x] = y
    BY DEF Records, Membership, InRoom
  <2>2. CASE x \in F \cup {p}
    BY <1>3, <2>2 DEF p
  <2>3. CASE x \notin F \cup {p}
    <3>1. proom'[x] = proom[x]
      BY <2>3 DEF p
    <3> QED
      BY <2>1, <2>3, <3>1 DEF p
  <2> QED
    BY <2>2, <2>3
<1>5. PendingIsUnplaced'
  <2> SUFFICES ASSUME NEW x \in pending \ strays, x \notin F
               PROVE  x \in objects /\ pstate[x] = "StartMatching" /\ proom'[x] = OBJECT_ID_INVALID
    BY DEF PendingIsUnplaced, playerVars
  <2>1. x # p
    BY DEF Records, CallerIsUnplaced, p
  <2> QED
    BY <1>1, <2>1 DEF Records, PendingIsUnplaced, p
<1>6. CallerIsUnplaced'
  BY DEF CallerIsUnplaced
<1>7. PlayerFollowsRoom'
  <2> SUFFICES ASSUME NEW x \in objects \ strays
               PROVE  /\ \A y \in DOMAIN rooms' : x \in rooms'[y].players =>
                           pstate[x] = IF rooms'[y].state = "Playing" THEN "Playing" ELSE "StartMatching"
                      /\ proom'[x] = OBJECT_ID_INVALID => pstate[x] # "Playing"
    BY DEF PlayerFollowsRoom, playerVars
  <2>1. /\ \A y \in DOMAIN rooms : x \in rooms[y].players =>
             pstate[x] = IF rooms[y].state = "Playing" THEN "Playing" ELSE "StartMatching"
        /\ proom[x] = OBJECT_ID_INVALID => pstate[x] # "Playing"
    BY DEF Records, PlayerFollowsRoom
  <2>2. proom'[x] = OBJECT_ID_INVALID => proom[x] = OBJECT_ID_INVALID
    BY <1>1, NullAssumption
  <2>3. ASSUME x \in rooms'[r].players PROVE pstate[x] = "StartMatching"
    BY <1>2, <2>1, <2>3 DEF p
  <2> QED
    BY <2>1, <2>2, <2>3
<1>8. NoGhostPlayers'
  BY <1>1 DEF Records, NoGhostPlayers, playerVars, p
<1> QED
  BY <1>4, <1>5, <1>6, <1>7, <1>8 DEF Records

\* The players S are sent back: those of a room r that is destroyed, and with
\* them those that startMatch_ has only just taken from the pending players.
LEMMA SentBackKeepsRecords ==
  ASSUME Typed, Records, NEW r \in RoomIds, NEW S \in SUBSET Players,
         DOMAIN rooms' = DOMAIN rooms \ {r},
         \A x \in DOMAIN rooms : x # r => rooms'[x] = rooms[x],
         r \in DOMAIN rooms => rooms[r].players \subseteq S,
         proom' = [x \in Players |-> IF x \in S THEN OBJECT_ID_INVALID ELSE proom[x]],
         pstate' = [x \in Players |-> IF x \in S THEN "WaitStart" ELSE pstate[x]],
         strays \subseteq strays',
         pending' \subseteq pending,
         \A x \in S \ strays' : \A y \in DOMAIN rooms \ {r} : x \notin rooms[y].players,
         S \cap pending' \subseteq strays',
         call' # NoCall => call'.player \in objects \cap strays',
         UNCHANGED playerVars
  PROVE  Records'
<1>1. /\ objects \subseteq Players /\ pending \subseteq objects
      /\ DOMAIN rooms \subseteq RoomIds
      /\ proom \in [Players -> RoomIds \cup {OBJECT_ID_INVALID}]
  BY DEF Typed, TypeOK
<1>2. Membership'
  <2> SUFFICES ASSUME NEW x \in Players \ strays', NEW y \in RoomIds
               PROVE  (y \in DOMAIN rooms' /\ x \in rooms'[y].players) <=> proom'[x] = y
    BY DEF Membership, InRoom
  <2>1. (y \in DOMAIN rooms /\ x \in rooms[y].players) <=> proom[x] = y
    BY DEF Records, Membership, InRoom
  <2>2. CASE x \in S
    BY <2>2, NullAssumption
  <2>3. CASE x \notin S
    BY <2>1, <2>3
  <2> QED
    BY <2>2, <2>3
<1>3. PendingIsUnplaced'
  BY <1>1 DEF Records, PendingIsUnplaced, playerVars
<1>4. CallerIsUnplaced'
  BY DEF CallerIsUnplaced, playerVars
<1>5. PlayerFollowsRoom'
  BY <1>1 DEF Records, PlayerFollowsRoom, playerVars
<1>6. NoGhostPlayers'
  BY DEF Records, NoGhostPlayers, playerVars
<1> QED
  BY <1>2, <1>3, <1>4, <1>5, <1>6 DEF Records

\* Room::enter, whichever way the room goes.
LEMMA EnterRecords ==
  ASSUME Typed, Records, call # NoCall,
         NEW r \in RoomIds, NEW room \in Rooms, NEW F \in SUBSET pending, NEW base, NEW old,
         r \in DOMAIN rooms => old = rooms[r].players /\ rooms[r].state # "Playing",
         r \notin DOMAIN rooms => old = {},
         room.players = old \cup F \cup {call.player},
         room.state = "WaitStart",
         enter(r, room, F, base)
  PROVE  Records'
<1> DEFINE p     == call.player
           m     == room.mode
           full  == expectedPlayerNum(room) = 0
           prs   == [x \in Players |-> IF x \in F \cup {p} THEN r ELSE proom[x]]
           rms   == Put(rooms, r, room)
           going == [room EXCEPT !.state = "CreatingRoomServer"]
           asked == Put(rooms, r, going)
<1>1. /\ call \in Calls /\ p \in objects /\ objects \subseteq Players
      /\ pending \subseteq objects /\ DOMAIN rooms \subseteq RoomIds
      /\ proom \in [Players -> RoomIds \cup {OBJECT_ID_INVALID}]
  BY DEF Typed, TypeOK
<1>2. /\ DOMAIN rms = DOMAIN rooms \cup {r} /\ rms[r] = room
      /\ \A x \in DOMAIN rooms : x # r => rms[x] = rooms[x]
  BY DEF Put
<1>3. /\ DOMAIN asked = DOMAIN rooms \cup {r} /\ asked[r] = going
      /\ \A x \in DOMAIN rooms : x # r => asked[x] = rooms[x]
  BY DEF Put
<1>4. going.players = room.players /\ going.state # "Playing"
  BY DEF Rooms
<1> HIDE DEF m, full, rms, going, asked
<1>5. ASSUME rooms' = rms \/ rooms' = asked, proom' = prs, pending' = pending \ F,
             NextMode(m), UNCHANGED <<playerVars, pstate, strays>>
      PROVE  Records'
  <2>1. proom'[p] # OBJECT_ID_INVALID
    BY <1>1, <1>5, NullAssumption
  <2>2. call' = NoCall
    BY <1>1, <1>5, <2>1, NextModeFacts
  <2>3. /\ DOMAIN rooms' = DOMAIN rooms \cup {r}
        /\ \A x \in DOMAIN rooms : x # r => rooms'[x] = rooms[x]
        /\ rooms'[r].players = old \cup F \cup {call.player}
        /\ rooms'[r].state # "Playing"
    BY <1>2, <1>3, <1>4, <1>5
  <2> QED
    BY <1>5, <2>2, <2>3, SeatedKeepsRecords
<1>6. ASSUME destroy(r, rms, prs), pending' = pending \ F,
             strays' = IF call.create THEN strays ELSE strays \cup {p},
             NextMode(m), UNCHANGED playerVars
      PROVE  Records'
  <2> DEFINE S == room.players
  <2>1. /\ rooms' = Remove(rms, r)
        /\ pstate' = [x \in Players |-> IF x \in S THEN "WaitStart" ELSE pstate[x]]
        /\ proom' = [x \in Players |-> IF x \in S THEN OBJECT_ID_INVALID ELSE prs[x]]
    BY <1>2, <1>6 DEF destroy
  <2>2. /\ DOMAIN rooms' = DOMAIN rooms \ {r}
        /\ \A x \in DOMAIN rooms : x # r => rooms'[x] = rooms[x]
    BY <1>2, <2>1 DEF Remove, Restrict
  <2>3. F \subseteq S /\ p \in S /\ S \subseteq Players
    BY DEF Rooms
  <2>4. proom' = [x \in Players |-> IF x \in S THEN OBJECT_ID_INVALID ELSE proom[x]]
    BY <2>1, <2>3
  <2>5. ASSUME NEW x \in S \ strays', NEW y \in DOMAIN rooms \ {r}
        PROVE  x \notin rooms[y].players
    <3>1. x \in Players \ strays /\ y \in RoomIds
      BY <1>1, <1>6, <2>3
    <3>2. CASE x \in old
      BY <1>1, <3>1, <3>2 DEF Records, Membership, InRoom
    <3>3. CASE x \in F \cup {p}
      <4>1. proom[x] = OBJECT_ID_INVALID
        BY <3>1, <3>3 DEF Records, PendingIsUnplaced, CallerIsUnplaced
      <4> QED
        BY <3>1, <4>1, NullAssumption DEF Records, Membership, InRoom
    <3> QED
      BY <3>2, <3>3
  <2>6. ASSUME NEW x \in S \cap pending', x \notin strays'
        PROVE  FALSE
    <3>1. x \in Players \ strays /\ x \in pending /\ x \notin F
      BY <1>6, <2>3, <2>6
    <3>2. CASE x \in old
      BY <1>1, <3>1, <3>2, NullAssumption DEF Records, Membership, PendingIsUnplaced, InRoom
    <3>3. CASE x = p
      BY <3>1, <3>3 DEF Records, CallerIsUnplaced
    <3> QED
      BY <3>1, <3>2, <3>3
  <2>7. call' # NoCall => call'.player \in objects \cap strays'
    BY <1>1, <1>6, NextModeFacts
  <2>8. r \in DOMAIN rooms => rooms[r].players \subseteq S
    OBVIOUS
  <2>9. strays \subseteq strays' /\ pending' \subseteq pending /\ S \cap pending' \subseteq strays'
    BY <1>6, <2>6
  <2> HIDE DEF S
  <2> QED
    BY <1>6, <2>1, <2>2, <2>3, <2>4, <2>5, <2>7, <2>8, <2>9, SentBackKeepsRecords
<1>7. ASSUME Crash PROVE Records'
  BY <1>7 DEF Crash, Records, Membership, InRoom, PendingIsUnplaced, CallerIsUnplaced,
              PlayerFollowsRoom, NoGhostPlayers, playerVars, roomVars
<1> QED
  BY <1>5, <1>6, <1>7 DEF enter, m, full, rms, going, asked

\* startMatch_, whichever of its branches is taken.
LEMMA StartMatchRecords ==
  ASSUME Typed, Records, NEW m \in Modes, startMatch_(m)
  PROVE  Records'
<1> DEFINE p == call.player
<1>1. /\ call # NoCall /\ call \in Calls /\ p \in objects /\ objects \subseteq Players
      /\ DOMAIN rooms \subseteq RoomIds /\ rooms \in [DOMAIN rooms -> Rooms]
      /\ pending \subseteq objects
      /\ proom \in [Players -> RoomIds \cup {OBJECT_ID_INVALID}]
  BY DEF Typed, TypeOK, startMatch_
<1>2. ASSUME Crash PROVE Records'
  BY <1>2 DEF Crash, Records, Membership, InRoom, PendingIsUnplaced, CallerIsUnplaced,
              PlayerFollowsRoom, NoGhostPlayers, playerVars, roomVars
<1> HIDE DEF p
<1>3. CASE JoinFront(m)
  <2> DEFINE r      == pool[m][1]
             joined == [rooms[r] EXCEPT !.players = @ \cup {p}]
  <2>1. PICK F \in Movable(joined) :
          enter(r, [joined EXCEPT !.players = @ \cup F], F, pool[m])
    BY <1>3 DEF JoinFront, p
  <2>2. F \in SUBSET pending
    BY MovableFacts
  <2>3. r \in DOMAIN rooms /\ rooms[r].state = "WaitStart"
    BY <1>3, FrontIsRoom DEF JoinFront
  <2> DEFINE room == [joined EXCEPT !.players = @ \cup F]
  <2> HIDE DEF r
  <2>4. /\ room \in Rooms /\ room.state = "WaitStart"
        /\ room.players = rooms[r].players \cup F \cup {p}
    BY <1>1, <2>2, <2>3 DEF Rooms
  <2>5. enter(r, room, F, pool[m])
    BY <2>1
  <2> HIDE DEF room
  <2> QED
    BY <1>1, <2>2, <2>3, <2>4, <2>5, EnterRecords DEF p
<1>4. CASE OpenRoom(m)
  <2> DEFINE opened == [mode |-> m, state |-> "WaitStart", players |-> {p}]
  <2>1. PICK r \in FreshRooms, F \in Movable(opened) :
          enter(r, [opened EXCEPT !.players = @ \cup F], F, Append(pool[m], r))
    BY <1>4 DEF OpenRoom, p
  <2>2. F \in SUBSET pending
    BY MovableFacts
  <2>3. r \in RoomIds /\ r \notin DOMAIN rooms
    BY DEF FreshRooms
  <2> DEFINE room == [opened EXCEPT !.players = @ \cup F]
  <2>4. /\ room \in Rooms /\ room.state = "WaitStart"
        /\ room.players = {} \cup F \cup {p}
    BY <1>1, <2>2 DEF Rooms, RoomStates
  <2>5. enter(r, room, F, Append(pool[m], r))
    BY <2>1
  <2> HIDE DEF room
  <2> QED
    BY <1>1, <2>2, <2>3, <2>4, <2>5, EnterRecords DEF p
<1>5. CASE OpenUnregisteredRoom(m)
  <2> DEFINE empty == [mode |-> m, state |-> "WaitStart", players |-> {}]
  <2>1. PICK r \in FreshRooms, F \in Movable(empty) :
          LET room  == [empty EXCEPT !.players = F \cup {p}]
              full  == expectedPlayerNum(room) = 0
              state == IF full THEN "CreatingRoomServer" ELSE "WaitStart"
          IN  \/ Crash
              \/ /\ rooms' = Put(rooms, r, [room EXCEPT !.state = state])
                 /\ proom' = [x \in Players |-> IF x \in F \cup {p} THEN r ELSE proom[x]]
                 /\ pending' = pending \ F
                 /\ NextMode(m)
                 /\ UNCHANGED <<playerVars, pstate, strays>>
    BY <1>5 DEF OpenUnregisteredRoom, p
  <2>2. F \in SUBSET pending
    BY MovableFacts
  <2>3. r \in RoomIds /\ r \notin DOMAIN rooms
    BY DEF FreshRooms
  <2>4. CASE ~Crash
    <3> DEFINE full == expectedPlayerNum([empty EXCEPT !.players = F \cup {p}]) = 0
               room == [[empty EXCEPT !.players = F \cup {p}] EXCEPT !.state =
                          IF full THEN "CreatingRoomServer" ELSE "WaitStart"]
    <3>1. /\ rooms' = Put(rooms, r, room)
          /\ proom' = [x \in Players |-> IF x \in F \cup {p} THEN r ELSE proom[x]]
          /\ pending' = pending \ F
          /\ NextMode(m)
          /\ UNCHANGED <<playerVars, pstate, strays>>
      BY <2>1, <2>4
    <3> HIDE DEF full
    <3>2. room.players = {} \cup F \cup {p} /\ room.state # "Playing"
      OBVIOUS
    <3> HIDE DEF room
    <3>3. /\ DOMAIN rooms' = DOMAIN rooms \cup {r} /\ rooms'[r] = room
          /\ \A x \in DOMAIN rooms : x # r => rooms'[x] = rooms[x]
      BY <3>1 DEF Put
    <3>4. proom'[p] # OBJECT_ID_INVALID
      BY <1>1, <2>3, <3>1, NullAssumption
    <3>5. call' = NoCall
      BY <1>1, <3>1, <3>4, NextModeFacts DEF p
    <3> QED
      BY <1>1, <2>2, <2>3, <3>1, <3>2, <3>3, <3>5, SeatedKeepsRecords DEF p
  <2> QED
    BY <1>2, <2>4
<1>6. CASE NoRoomFound(m)
  <2>1. UNCHANGED <<playerVars, roomVars, pending, strays>> /\ NextMode(m)
    BY <1>6 DEF NoRoomFound
  <2>2. call' # NoCall => call'.player = call.player
    BY <1>1, <2>1, NextModeFacts
  <2> QED
    BY <1>1, <2>1, <2>2 DEF Records, Membership, InRoom, PendingIsUnplaced, CallerIsUnplaced,
              PlayerFollowsRoom, NoGhostPlayers, playerVars, roomVars
<1> QED
  BY <1>3, <1>4, <1>5, <1>6 DEF startMatch_

\* A room destroyed by a handler of its own.
LEMMA DestroyRoomRecords ==
  ASSUME Typed, Records, NEW r \in DOMAIN rooms, DestroyRoom(r), call = NoCall,
         UNCHANGED <<playerVars, pending, call, strays>>
  PROVE  Records'
<1> DEFINE S == rooms[r].players
<1>1. /\ r \in RoomIds /\ S \subseteq Players /\ DOMAIN rooms \subseteq RoomIds
      /\ pending \subseteq Players
  BY DEF Typed, TypeOK, Rooms
<1>2. CASE ~AssertFails(rooms, proom, S)
  <2>1. /\ rooms' = Remove(rooms, r)
        /\ pstate' = [x \in Players |-> IF x \in S THEN "WaitStart" ELSE pstate[x]]
        /\ proom' = [x \in Players |-> IF x \in S THEN OBJECT_ID_INVALID ELSE proom[x]]
    BY <1>2 DEF DestroyRoom, destroy
  <2>2. /\ DOMAIN rooms' = DOMAIN rooms \ {r}
        /\ \A x \in DOMAIN rooms : x # r => rooms'[x] = rooms[x]
    BY <2>1 DEF Remove, Restrict
  <2>3. \A x \in S \ strays, y \in DOMAIN rooms \ {r} : x \notin rooms[y].players
    BY <1>1 DEF Records, Membership, InRoom
  <2>4. S \cap pending \subseteq strays
    BY <1>1, NullAssumption DEF Records, Membership, PendingIsUnplaced, InRoom
  <2> QED
    BY <1>1, <2>1, <2>2, <2>3, <2>4, SentBackKeepsRecords
<1>3. CASE AssertFails(rooms, proom, S)
  BY <1>3 DEF DestroyRoom, Records, Membership, InRoom, PendingIsUnplaced, CallerIsUnplaced,
              PlayerFollowsRoom, NoGhostPlayers, playerVars, roomVars
<1> QED
  BY <1>2, <1>3

\* A room that starts its game.
LEMMA StartGameRecords ==
  ASSUME Typed, Records, NEW r \in DOMAIN rooms, StartGame(r), call = NoCall,
         UNCHANGED <<playerVars, pending, call, strays>>
  PROVE  Records'
<1> DEFINE S == rooms[r].players
<1>1. /\ DOMAIN rooms \subseteq RoomIds /\ S \subseteq Players
      /\ rooms \in [DOMAIN rooms -> Rooms] /\ pstate \in [Players -> PlayerStates]
      /\ objects \subseteq Players /\ pending \subseteq Players
  BY DEF Typed, TypeOK, Rooms
<1>2. CASE ~AssertFails(rooms, proom, S)
  <2>1. /\ rooms' = [rooms EXCEPT ![r].state = "Playing"]
        /\ pstate' = [x \in Players |-> IF x \in S THEN "Playing" ELSE pstate[x]]
        /\ proom' = proom
    BY <1>2 DEF StartGame
  <2>2. /\ DOMAIN rooms' = DOMAIN rooms
        /\ \A y \in DOMAIN rooms : rooms'[y].players = rooms[y].players
        /\ \A y \in DOMAIN rooms : rooms'[y].state = IF y = r THEN "Playing" ELSE rooms[y].state
    BY <1>1, <2>1 DEF Rooms
  <2>3. Membership'
    BY <2>1, <2>2 DEF Records, Membership, InRoom
  <2>4. \A x \in S \ strays : proom[x] = r /\ r # OBJECT_ID_INVALID
    BY <1>1, NullAssumption DEF Records, Membership, InRoom
  <2>5. PendingIsUnplaced'
    BY <1>1, <2>1, <2>4 DEF Records, PendingIsUnplaced, playerVars
  <2>6. CallerIsUnplaced'
    BY DEF CallerIsUnplaced
  <2>7. PlayerFollowsRoom'
    <3> SUFFICES ASSUME NEW x \in objects \ strays
                 PROVE  /\ \A y \in DOMAIN rooms : x \in rooms[y].players =>
                             pstate'[x] = IF rooms'[y].state = "Playing" THEN "Playing" ELSE "StartMatching"
                        /\ proom[x] = OBJECT_ID_INVALID => pstate'[x] # "Playing"
      BY <2>1, <2>2 DEF PlayerFollowsRoom, playerVars
    <3>1. CASE x \in S
      <4>1. \A y \in DOMAIN rooms : x \in rooms[y].players => y = r
        BY <1>1, <2>4, <3>1 DEF Records, Membership, InRoom
      <4> QED
        BY <1>1, <2>1, <2>2, <2>4, <3>1, <4>1
    <3>2. CASE x \notin S
      <4>1. pstate'[x] = pstate[x]
        BY <1>1, <2>1, <3>2
      <4> QED
        BY <2>2, <3>2, <4>1 DEF Records, PlayerFollowsRoom
    <3> QED
      BY <3>1, <3>2
  <2>8. NoGhostPlayers'
    BY <2>2 DEF Records, NoGhostPlayers, playerVars
  <2> QED
    BY <2>3, <2>5, <2>6, <2>7, <2>8 DEF Records
<1>3. CASE AssertFails(rooms, proom, S)
  BY <1>3 DEF StartGame, Records, Membership, InRoom, PendingIsUnplaced, CallerIsUnplaced,
              PlayerFollowsRoom, NoGhostPlayers, playerVars, roomVars
<1> QED
  BY <1>2, <1>3

\* A player that leaves takes itself out of the one room that holds it.
LEMMA OnDestroyTimerRecords ==
  ASSUME Typed, Records, NEW p \in Players, onDestroyTimer(p)
  PROVE  Records'
<1>1. /\ DOMAIN rooms \subseteq RoomIds /\ rooms \in [DOMAIN rooms -> Rooms]
      /\ pstate \in [Players -> PlayerStates] /\ objects \subseteq Players
      /\ proom \in [Players -> RoomIds \cup {OBJECT_ID_INVALID}] /\ pending \subseteq objects
  BY DEF Typed, TypeOK
<1>2. /\ objects' = objects \ {p} /\ pending' = pending \ {p} /\ call = NoCall
      /\ pstate' = [pstate EXCEPT ![p] = "WaitStart"]
      /\ UNCHANGED <<conn, call, strays>>
  BY DEF onDestroyTimer, Idle
<1> DEFINE r == proom[p]
<1>3. /\ DOMAIN rooms' = DOMAIN rooms
      /\ \A y \in DOMAIN rooms : rooms'[y].state = rooms[y].state
      /\ \A y \in DOMAIN rooms : rooms'[y].players =
           IF y = r THEN rooms[y].players \ {p} ELSE rooms[y].players
      /\ \A x \in Players \ {p} : proom'[x] = proom[x]
      /\ r \in DOMAIN rooms /\ p \in rooms[r].players => proom'[p] = OBJECT_ID_INVALID
      /\ ~(r \in DOMAIN rooms /\ p \in rooms[r].players) => proom'[p] = proom[p]
  <2>1. CASE r \in DOMAIN rooms /\ p \in rooms[r].players
    <3>1. /\ proom' = [proom EXCEPT ![p] = OBJECT_ID_INVALID]
          /\ rooms' = [rooms EXCEPT ![r].players = @ \ {p}]
      BY <2>1 DEF onDestroyTimer
    <3> QED
      BY <1>1, <2>1, <3>1 DEF Rooms
  <2>2. CASE ~(r \in DOMAIN rooms /\ p \in rooms[r].players)
    <3>1. UNCHANGED <<proom, rooms>>
      BY <2>2 DEF onDestroyTimer
    <3> QED
      BY <2>2, <3>1
  <2> QED
    BY <2>1, <2>2
<1>4. p \notin strays => \A y \in DOMAIN rooms : p \in rooms[y].players => y = r
  BY <1>1 DEF Records, Membership, InRoom
<1> HIDE DEF r
<1>5. Membership'
  <2> SUFFICES ASSUME NEW x \in Players \ strays, NEW y \in RoomIds
               PROVE  (y \in DOMAIN rooms' /\ x \in rooms'[y].players) <=> proom'[x] = y
    BY <1>2 DEF Membership, InRoom
  <2>1. (y \in DOMAIN rooms /\ x \in rooms[y].players) <=> proom[x] = y
    BY DEF Records, Membership, InRoom
  <2>2. CASE x = p
    BY <1>3, <2>1, <2>2, NullAssumption, ZenonT(60) DEF r
  <2>3. CASE x # p
    BY <1>3, <2>1, <2>3
  <2> QED
    BY <2>2, <2>3
<1>6. PendingIsUnplaced'
  BY <1>1, <1>2, <1>3 DEF Records, PendingIsUnplaced
<1>7. CallerIsUnplaced'
  BY <1>2 DEF CallerIsUnplaced
<1>8. PlayerFollowsRoom'
  <2> SUFFICES ASSUME NEW x \in objects \ strays, x # p
               PROVE  /\ \A y \in DOMAIN rooms' : x \in rooms'[y].players =>
                           pstate'[x] = IF rooms'[y].state = "Playing" THEN "Playing" ELSE "StartMatching"
                      /\ proom'[x] = OBJECT_ID_INVALID => pstate'[x] # "Playing"
    BY <1>2 DEF PlayerFollowsRoom
  <2>1. pstate'[x] = pstate[x] /\ proom'[x] = proom[x]
    BY <1>1, <1>2, <1>3
  <2>2. \A y \in DOMAIN rooms : x \in rooms'[y].players <=> x \in rooms[y].players
    BY <1>3
  <2> QED
    BY <1>3, <2>1, <2>2 DEF Records, PlayerFollowsRoom
<1>9. NoGhostPlayers'
  BY <1>2, <1>3, <1>4 DEF Records, NoGhostPlayers
<1> QED
  BY <1>5, <1>6, <1>7, <1>8, <1>9 DEF Records

\* Every step keeps the records.
LEMMA NextRecords == Typed /\ Records /\ [Next]_vars => Records'
<1> SUFFICES ASSUME Typed, Records, [Next]_vars PROVE Records'
  OBVIOUS
<1>1. ASSUME NEW p \in Players, onSessionQueryAccountCB(p) PROVE Records'
  <2>1. pending \subseteq objects /\ objects \subseteq Players /\ p \notin pending
        /\ pstate \in [Players -> PlayerStates]
        /\ proom \in [Players -> RoomIds \cup {OBJECT_ID_INVALID}]
    BY <1>1 DEF onSessionQueryAccountCB, Typed, TypeOK
  <2>2. /\ \A y \in DOMAIN rooms : p \notin rooms[y].players
        /\ objects' = objects \cup {p} /\ strays' = strays \ {p}
        /\ pstate' = [pstate EXCEPT ![p] = "WaitStart"]
        /\ proom' = [proom EXCEPT ![p] = OBJECT_ID_INVALID]
        /\ call = NoCall /\ UNCHANGED <<pending, rooms, call>>
    BY <1>1 DEF onSessionQueryAccountCB, Idle
  <2>3. Membership' /\ PendingIsUnplaced'
    BY <2>1, <2>2, NullAssumption DEF Records, Membership, InRoom, PendingIsUnplaced
  <2>4. CallerIsUnplaced' /\ NoGhostPlayers'
    BY <2>2 DEF Records, CallerIsUnplaced, NoGhostPlayers
  <2>5. PlayerFollowsRoom'
    BY <2>1, <2>2 DEF Records, PlayerFollowsRoom
  <2> QED
    BY <2>3, <2>4, <2>5 DEF Records
<1>2. ASSUME NEW p \in Players, onDestroyTimer(p) PROVE Records'
  BY <1>2, OnDestroyTimerRecords
<1>3. ASSUME NEW S \in SUBSET conn, onClientDisconnected(S) PROVE Records'
  BY <1>3 DEF onClientDisconnected, Idle, Records, Membership, InRoom, PendingIsUnplaced,
              CallerIsUnplaced, PlayerFollowsRoom, NoGhostPlayers, roomVars
<1>4. ASSUME NEW p \in Players, NEW g \in Modes \cup UnknownModes \cup {AnyMode},
             onSessionStartMatch(p, g)
      PROVE  Records'
  <2>1. /\ call = NoCall /\ p \in objects /\ pstate[p] = "WaitStart"
        /\ pstate' = [pstate EXCEPT ![p] = "StartMatching"]
        /\ UNCHANGED <<playerVars, proom, rooms, pending, strays>>
        /\ objects \subseteq Players /\ pending \subseteq Players
        /\ pstate \in [Players -> PlayerStates]
    BY <1>4 DEF onSessionStartMatch, Idle, Typed, TypeOK
  <2>2. call' # NoCall => call'.player = p
    BY <1>4 DEF onSessionStartMatch, Idle
  <2>3. p \notin strays => p \notin pending /\ \A y \in DOMAIN rooms : p \notin rooms[y].players
    BY <2>1 DEF Records, PendingIsUnplaced, PlayerFollowsRoom
  <2>4. p \notin strays => proom[p] = OBJECT_ID_INVALID
    BY <2>1, <2>3 DEF Typed, TypeOK, Records, Membership, InRoom
  <2>5. Membership' /\ NoGhostPlayers'
    BY <2>1 DEF Records, Membership, InRoom, NoGhostPlayers, playerVars
  <2>6. PendingIsUnplaced' /\ CallerIsUnplaced'
    BY <2>1, <2>2, <2>3, <2>4 DEF Records, PendingIsUnplaced, CallerIsUnplaced, playerVars
  <2>7. PlayerFollowsRoom'
    BY <2>1, <2>3 DEF Records, PlayerFollowsRoom, playerVars
  <2> QED
    BY <2>5, <2>6, <2>7 DEF Records
<1>5. ASSUME NEW m \in Modes, startMatch_(m) PROVE Records'
  BY <1>5, StartMatchRecords
<1>6. CASE addPendingMatch
  BY <1>6 DEF addPendingMatch, Records, Membership, InRoom, PendingIsUnplaced, CallerIsUnplaced,
              PlayerFollowsRoom, NoGhostPlayers, playerVars, roomVars
<1>7. ASSUME NEW r \in RoomIds, NEW ok \in BOOLEAN, onSessionRequestCreateRoomCB(r, ok)
      PROVE  Records'
  <2>1. call = NoCall /\ UNCHANGED <<playerVars, pending, call, strays>>
    BY <1>7 DEF onSessionRequestCreateRoomCB, Idle
  <2>2. CASE UNCHANGED roomVars
    BY <2>1, <2>2 DEF Records, Membership, InRoom, PendingIsUnplaced, CallerIsUnplaced,
                      PlayerFollowsRoom, NoGhostPlayers, playerVars, roomVars
  <2> QED
    BY <1>7, <2>1, <2>2, DestroyRoomRecords, StartGameRecords DEF onSessionRequestCreateRoomCB
<1>8. ASSUME NEW r \in RoomIds, LoseRequest(r) PROVE Records'
  BY <1>8 DEF LoseRequest, Records, Membership, InRoom, PendingIsUnplaced, CallerIsUnplaced,
              PlayerFollowsRoom, NoGhostPlayers, playerVars, roomVars
<1>9. ASSUME NEW r \in RoomIds, onTick(r) PROVE Records'
  BY <1>9, DestroyRoomRecords DEF onTick, Idle
<1>10. CASE RoommgrChange
  BY <1>10 DEF RoommgrChange, Records, Membership, InRoom, PendingIsUnplaced, CallerIsUnplaced,
               PlayerFollowsRoom, NoGhostPlayers, playerVars, roomVars
<1>11. CASE UNCHANGED vars
  BY <1>11 DEF vars, Records, Membership, InRoom, PendingIsUnplaced, CallerIsUnplaced,
               PlayerFollowsRoom, NoGhostPlayers, playerVars, roomVars
<1> QED
  BY <1>1, <1>2, <1>3, <1>4, <1>5, <1>6, <1>7, <1>8, <1>9, <1>10, <1>11
     DEF Next, StartMatchStep

LEMMA InitRecords == Init => Records
  BY NullAssumption DEF Init, Records, Membership, InRoom, PendingIsUnplaced, CallerIsUnplaced,
     PlayerFollowsRoom, NoGhostPlayers

\* Whatever the numbers: the room a player thinks it is in and the rooms that
\* list it agree, for every player whose own any-mode request did not run into
\* the loss of roommgr; so no player is ever in two rooms.
THEOREM MembershipHolds == Spec => []Membership
<1>1. Records => Membership
  BY DEF Records
<1> QED
  BY <1>1, InitTyped, NextTyped, InitRecords, NextRecords, PTL DEF Spec

\* A pending player is in no room, does match and exists, so moving it into a
\* room never makes it a player of two rooms or a player that is gone.
THEOREM PendingHolds == Spec => []PendingIsUnplaced
<1>1. Records => PendingIsUnplaced
  BY DEF Records
<1> QED
  BY <1>1, InitTyped, NextTyped, InitRecords, NextRecords, PTL DEF Spec

\* The state of a player is the one its room is in, and no room lists a player
\* that was destroyed.
THEOREM RoomsAndPlayersAgree == Spec => [](PlayerFollowsRoom /\ NoGhostPlayers /\ CallerIsUnplaced)
<1>1. Records => PlayerFollowsRoom /\ NoGhostPlayers /\ CallerIsUnplaced
  BY DEF Records
<1> QED
  BY <1>1, InitTyped, NextTyped, InitRecords, NextRecords, PTL DEF Spec

-------------------------------------------------------------------------------
(* Rooms fill, players are somewhere, and what is asked for is a full room.  *)

\* A room whose create request is not answered yet waits for the answer.
Asked == \A r \in reqs : r \in DOMAIN rooms => rooms[r].state = "CreatingRoomServer"

Filled == Capacity /\ NobodyForgotten /\ Asked

\* No room starts to play.
NobodyStarts ==
  \A y \in DOMAIN rooms' : rooms'[y].state = "Playing" =>
    y \in DOMAIN rooms /\ rooms[y].state = "Playing"

\* Sets of players are finite.
LEMMA PlayersFinite ==
  ASSUME NEW S \in SUBSET Players
  PROVE IsFiniteSet(S) /\ Cardinality(S) \in Nat
  BY PlayersAssumption, FS_Subset, FS_CardinalityType

\* The places left in a room that waits.
LEMMA PlacesLeft ==
  ASSUME NEW room \in Rooms, room.state = "WaitStart",
         Cardinality(room.players) <= PlayerMax[room.mode]
  PROVE  /\ expectedPlayerNum(room) = PlayerMax[room.mode] - Cardinality(room.players)
         /\ Cardinality(room.players) \in Nat /\ PlayerMax[room.mode] \in Nat
<1>1. Cardinality(room.players) \in Nat
  BY PlayersFinite DEF Rooms
<1>2. PlayerMax[room.mode] \in Nat
  BY PlayerMaxAssumption DEF Rooms
<1> DEFINE num == PlayerMax[room.mode] - Cardinality(room.players)
<1>3. ~(num < 0)
  BY <1>1, <1>2
<1>4. expectedPlayerNum(room) = num
  BY <1>3 DEF expectedPlayerNum
<1> QED
  BY <1>1, <1>2, <1>4

\* Two sets of players have no more players together than one by one.
LEMMA TogetherAtMost ==
  ASSUME NEW S \in SUBSET Players, NEW T \in SUBSET Players
  PROVE Cardinality(S \cup T) <= Cardinality(S) + Cardinality(T)
<1>1. /\ IsFiniteSet(S) /\ IsFiniteSet(T) /\ IsFiniteSet(S \cap T)
      /\ Cardinality(S) \in Nat /\ Cardinality(T) \in Nat /\ Cardinality(S \cap T) \in Nat
  BY PlayersFinite
<1>2. Cardinality(S \cup T) = Cardinality(S) + Cardinality(T) - Cardinality(S \cap T)
  BY <1>1, FS_Union
<1> QED
  BY <1>1, <1>2

\* movePendingMatchObjectsToRoom takes no more players than there are places.
LEMMA MovedFit ==
  ASSUME Typed, NEW room \in Rooms, room.state = "WaitStart",
         Cardinality(room.players) <= PlayerMax[room.mode], NEW F \in Movable(room)
  PROVE  Cardinality(room.players \cup F) <= PlayerMax[room.mode]
<1> DEFINE e == expectedPlayerNum(room)
           n == Cardinality(pending)
           c == Cardinality(room.players)
           M == PlayerMax[room.mode]
<1>1. e = M - c /\ c \in Nat /\ M \in Nat /\ c <= M
  BY PlacesLeft
<1>2. F \subseteq Players /\ room.players \subseteq Players /\ n \in Nat
  BY MovableFacts, PlayersFinite DEF Typed, TypeOK, Rooms
<1>3. F = {} \/ Cardinality(F) = IF e < n THEN e ELSE n
  BY DEF Movable
<1>4. CASE F = {}
  <2>1. room.players \cup F = room.players
    BY <1>4
  <2> QED
    BY <1>1, <2>1
<1>5. CASE Cardinality(F) = IF e < n THEN e ELSE n
  <2>1. Cardinality(room.players \cup F) <= c + Cardinality(F)
    BY <1>2, TogetherAtMost
  <2>2. Cardinality(room.players \cup F) \in Nat
    BY <1>2, PlayersFinite
  <2>3. Cardinality(F) \in Nat
    BY <1>2, PlayersFinite
  <2> DEFINE k == Cardinality(F)
             a == Cardinality(room.players \cup F)
  <2> HIDE DEF e, n, c, M, k, a
  <2>4. k <= e
    BY <1>1, <1>2, <1>5, <2>3 DEF k
  <2>5. a <= c + k /\ a \in Nat /\ k \in Nat
    BY <2>1, <2>2, <2>3 DEF a, k
  <2>6. a <= M
    BY <1>1, <2>4, <2>5
  <2> QED
    BY <2>6 DEF a, M
<1> QED
  BY <1>3, <1>4, <1>5

\* The caller and the pending players F take their places in room r.
LEMMA SeatedKeepsFilled ==
  ASSUME Typed, Filled, call # NoCall,
         NEW r \in RoomIds, NEW F \in SUBSET pending,
         DOMAIN rooms' = DOMAIN rooms \cup {r},
         \A x \in DOMAIN rooms : x # r => rooms'[x] = rooms[x],
         Cardinality(rooms'[r].players) <= PlayerMax[rooms'[r].mode],
         \/ /\ rooms'[r].state = "WaitStart" /\ r \notin reqs /\ reqs' = reqs
            /\ Cardinality(rooms'[r].players) < PlayerMax[rooms'[r].mode]
         \/ rooms'[r].state = "CreatingRoomServer" /\ reqs' = reqs \cup {r},
         proom' = [x \in Players |-> IF x \in F \cup {call.player} THEN r ELSE proom[x]],
         pending' = pending \ F,
         UNCHANGED <<playerVars, pstate, strays>>
  PROVE  Filled' /\ NobodyStarts
<1>1. objects \subseteq Players /\ DOMAIN rooms \subseteq RoomIds
  BY DEF Typed, TypeOK
<1>2. Capacity'
  BY <1>1 DEF Filled, Capacity, Waiting
<1>3. NobodyForgotten'
  <2> SUFFICES ASSUME UnknownModes = {}, NEW x \in objects \ strays,
                      pstate[x] = "StartMatching", proom'[x] = OBJECT_ID_INVALID
               PROVE  x \in pending'
    BY DEF NobodyForgotten, playerVars
  <2>1. x \notin F /\ x # call.player /\ proom[x] = OBJECT_ID_INVALID
    BY <1>1, NullAssumption
  <2> QED
    BY <2>1 DEF Filled, NobodyForgotten
<1>4. Asked'
  BY DEF Filled, Asked
<1>5. NobodyStarts
  BY DEF NobodyStarts
<1> QED
  BY <1>2, <1>3, <1>4, <1>5 DEF Filled

\* The players S of room r are sent back, with the caller, if there is one.
LEMMA SentBackKeepsFilled ==
  ASSUME Typed, Filled, NEW r, NEW S \in SUBSET Players,
         DOMAIN rooms' = DOMAIN rooms \ {r},
         \A x \in DOMAIN rooms : x # r => rooms'[x] = rooms[x],
         proom' = [x \in Players |-> IF x \in S THEN OBJECT_ID_INVALID ELSE proom[x]],
         pstate' = [x \in Players |-> IF x \in S THEN "WaitStart" ELSE pstate[x]],
         call # NoCall => call.player \in S,
         strays \subseteq strays', pending \ S \subseteq pending', reqs' \subseteq reqs,
         UNCHANGED playerVars
  PROVE  Filled' /\ NobodyStarts
<1>1. objects \subseteq Players
  BY DEF Typed, TypeOK
<1>2. Capacity'
  BY DEF Filled, Capacity, Waiting
<1>3. NobodyForgotten'
  <2> SUFFICES ASSUME UnknownModes = {}, NEW x \in objects \ strays,
                      pstate'[x] = "StartMatching", proom'[x] = OBJECT_ID_INVALID
               PROVE  x \in pending'
    BY DEF NobodyForgotten, playerVars
  <2>1. x \notin S /\ pstate[x] = "StartMatching" /\ proom[x] = OBJECT_ID_INVALID
    BY <1>1
  <2> QED
    BY <2>1 DEF Filled, NobodyForgotten
<1>4. Asked'
  BY DEF Filled, Asked
<1>5. NobodyStarts
  BY DEF NobodyStarts
<1> QED
  BY <1>2, <1>3, <1>4, <1>5 DEF Filled

\* Steps that touch no room and forget nobody.
LEMMA SameRoomsFilled ==
  ASSUME Filled, UNCHANGED <<objects, rooms, pstate, proom, strays>>,
         pending \subseteq pending', reqs' \subseteq reqs,
         call # NoCall => call.player \in pending' \/ (call' # NoCall /\ call'.player = call.player)
                            \/ proom[call.player] # OBJECT_ID_INVALID
  PROVE  Filled' /\ NobodyStarts
<1>1. Capacity' /\ Asked' /\ NobodyStarts
  BY DEF Filled, Capacity, Waiting, Asked, NobodyStarts
<1>2. NobodyForgotten'
  BY DEF Filled, NobodyForgotten
<1> QED
  BY <1>1, <1>2 DEF Filled

\* Room::enter, whichever way the room goes.
LEMMA EnterFilled ==
  ASSUME Typed, Filled, call # NoCall,
         NEW r \in RoomIds, NEW room \in Rooms, NEW F \in SUBSET pending, NEW base,
         room.state = "WaitStart", r \notin reqs,
         Cardinality(room.players) <= PlayerMax[room.mode],
         F \cup {call.player} \subseteq room.players,
         enter(r, room, F, base)
  PROVE  Filled' /\ NobodyStarts
<1> DEFINE p     == call.player
           m     == room.mode
           full  == expectedPlayerNum(room) = 0
           prs   == [x \in Players |-> IF x \in F \cup {p} THEN r ELSE proom[x]]
           rms   == Put(rooms, r, room)
           going == [room EXCEPT !.state = "CreatingRoomServer"]
           asked == Put(rooms, r, going)
<1>1. room.players \subseteq Players
  BY DEF Rooms
<1>2. /\ DOMAIN rms = DOMAIN rooms \cup {r} /\ rms[r] = room
      /\ \A x \in DOMAIN rooms : x # r => rms[x] = rooms[x]
  BY DEF Put
<1>3. /\ DOMAIN asked = DOMAIN rooms \cup {r} /\ asked[r] = going
      /\ \A x \in DOMAIN rooms : x # r => asked[x] = rooms[x]
  BY DEF Put
<1>4. going.players = room.players /\ going.state = "CreatingRoomServer" /\ going.mode = room.mode
  BY DEF Rooms
<1>5. ~full => Cardinality(room.players) < PlayerMax[room.mode]
  BY PlacesLeft
<1> HIDE DEF m, full, rms, going, asked
<1>6. ASSUME ~full, rooms' = rms, proom' = prs, pending' = pending \ F, reqs' = reqs,
             UNCHANGED <<playerVars, pstate, strays>>
      PROVE  Filled' /\ NobodyStarts
  <2>1. /\ DOMAIN rooms' = DOMAIN rooms \cup {r} /\ rooms'[r] = room
        /\ \A x \in DOMAIN rooms : x # r => rooms'[x] = rooms[x]
    BY <1>2, <1>6
  <2> QED
    BY <1>5, <1>6, <2>1, SeatedKeepsFilled
<1>7. ASSUME rooms' = asked, proom' = prs, pending' = pending \ F, reqs' = reqs \cup {r},
             UNCHANGED <<playerVars, pstate, strays>>
      PROVE  Filled' /\ NobodyStarts
  <2>1. /\ DOMAIN rooms' = DOMAIN rooms \cup {r} /\ rooms'[r] = going
        /\ \A x \in DOMAIN rooms : x # r => rooms'[x] = rooms[x]
    BY <1>3, <1>7
  <2> QED
    BY <1>4, <1>7, <2>1, SeatedKeepsFilled
<1>8. ASSUME destroy(r, rms, prs), pending' = pending \ F, reqs' = reqs,
             strays' = IF call.create THEN strays ELSE strays \cup {p}, UNCHANGED playerVars
      PROVE  Filled' /\ NobodyStarts
  <2> DEFINE S == room.players
  <2>1. /\ rooms' = Remove(rms, r)
        /\ pstate' = [x \in Players |-> IF x \in S THEN "WaitStart" ELSE pstate[x]]
        /\ proom' = [x \in Players |-> IF x \in S THEN OBJECT_ID_INVALID ELSE prs[x]]
    BY <1>2, <1>8 DEF destroy
  <2>2. /\ DOMAIN rooms' = DOMAIN rooms \ {r}
        /\ \A x \in DOMAIN rooms : x # r => rooms'[x] = rooms[x]
    BY <1>2, <2>1 DEF Remove, Restrict
  <2>3. proom' = [x \in Players |-> IF x \in S THEN OBJECT_ID_INVALID ELSE proom[x]]
    BY <2>1
  <2>4. /\ p \in S /\ S \subseteq Players /\ pending \ S \subseteq pending'
        /\ strays \subseteq strays' /\ reqs' \subseteq reqs
    BY <1>1, <1>8
  <2> HIDE DEF S
  <2> QED
    BY <1>8, <2>1, <2>2, <2>3, <2>4, SentBackKeepsFilled
<1>9. ASSUME Crash PROVE Filled' /\ NobodyStarts
  BY <1>9, SameRoomsFilled DEF Crash, playerVars, roomVars
<1> QED
  BY <1>6, <1>7, <1>8, <1>9 DEF enter, m, full, rms, going, asked

\* startMatch_, whichever of its branches is taken.
LEMMA StartMatchFilled ==
  ASSUME Typed, Filled, NEW m \in Modes, startMatch_(m)
  PROVE  Filled' /\ NobodyStarts
<1> DEFINE p == call.player
<1>1. /\ call # NoCall /\ call \in Calls /\ p \in Players
      /\ DOMAIN rooms \subseteq RoomIds /\ rooms \in [DOMAIN rooms -> Rooms]
      /\ pending \subseteq Players
      /\ PlayerMax[m] \in Nat /\ PlayerMax[m] >= 1
  <2>1. /\ call # NoCall /\ call \in Calls /\ p \in Players
        /\ DOMAIN rooms \subseteq RoomIds /\ rooms \in [DOMAIN rooms -> Rooms]
        /\ pending \subseteq Players
    BY DEF Typed, TypeOK, startMatch_
  <2>2. PlayerMax[m] \in Nat \ {0}
    BY PlayerMaxAssumption
  <2> QED
    BY <2>1, <2>2
<1>2. ASSUME Crash PROVE Filled' /\ NobodyStarts
  BY <1>2, SameRoomsFilled DEF Crash, playerVars, roomVars
<1> HIDE DEF p
<1>3. CASE JoinFront(m)
  <2> DEFINE r      == pool[m][1]
             joined == [rooms[r] EXCEPT !.players = @ \cup {p}]
  <2>1. PICK F \in Movable(joined) :
          enter(r, [joined EXCEPT !.players = @ \cup F], F, pool[m])
    BY <1>3, Zenon DEF JoinFront, p
  <2>2. F \in SUBSET pending
    BY MovableFacts
  <2>3. r \in DOMAIN rooms /\ r \in RoomIds /\ rooms[r].mode = m /\ rooms[r].state = "WaitStart"
    BY <1>1, <1>3, FrontIsRoom DEF JoinFront
  <2> DEFINE room == [joined EXCEPT !.players = @ \cup F]
  <2> HIDE DEF r
  <2>4. rooms[r] \in Rooms /\ rooms[r].players \subseteq Players
    BY <1>1, <2>3 DEF Rooms
  <2>5. /\ joined \in Rooms /\ joined.state = "WaitStart" /\ joined.mode = m
        /\ joined.players = rooms[r].players \cup {p}
    BY <1>1, <2>3, <2>4 DEF Rooms
  <2>6. Cardinality(joined.players) <= PlayerMax[joined.mode]
    <3>1. Cardinality(rooms[r].players) < PlayerMax[m] /\ Cardinality(rooms[r].players) \in Nat
      BY <2>3, <2>4, PlayersFinite DEF Filled, Capacity, Waiting
    <3>2. Cardinality(rooms[r].players \cup {p}) =
            IF p \in rooms[r].players THEN Cardinality(rooms[r].players)
            ELSE Cardinality(rooms[r].players) + 1
      BY <2>4, PlayersFinite, FS_AddElement
    <3> HIDE DEF joined
    <3>3. Cardinality(rooms[r].players \cup {p}) <= PlayerMax[m]
      BY <1>1, <3>1, <3>2
    <3> QED
      BY <2>5, <3>3
  <2>7. Cardinality(joined.players \cup F) <= PlayerMax[joined.mode]
    BY <2>5, <2>6, MovedFit
  <2>8. /\ room \in Rooms /\ room.state = "WaitStart" /\ room.mode = joined.mode
        /\ room.players = joined.players \cup F
    BY <1>1, <2>2, <2>5 DEF Rooms
  <2>9. r \notin reqs
    BY <2>3 DEF Filled, Asked
  <2>10. enter(r, room, F, pool[m])
    BY <2>1
  <2>11. F \cup {p} \subseteq room.players
    BY <2>5, <2>8
  <2> HIDE DEF room, joined
  <2> QED
    BY <1>1, <2>2, <2>3, <2>7, <2>8, <2>9, <2>10, <2>11, EnterFilled DEF p
<1>4. CASE OpenRoom(m)
  <2> DEFINE opened == [mode |-> m, state |-> "WaitStart", players |-> {p}]
  <2>1. PICK r \in FreshRooms, F \in Movable(opened) :
          enter(r, [opened EXCEPT !.players = @ \cup F], F, Append(pool[m], r))
    BY <1>4 DEF OpenRoom, p
  <2>2. F \in SUBSET pending
    BY MovableFacts
  <2>3. r \in RoomIds /\ r \notin reqs
    BY DEF FreshRooms
  <2> DEFINE room == [opened EXCEPT !.players = @ \cup F]
             base == Append(pool[m], r)
  <2>4. opened \in Rooms /\ opened.state = "WaitStart" /\ opened.mode = m /\ opened.players = {p}
    BY <1>1 DEF Rooms, RoomStates
  <2>5. Cardinality(opened.players) <= PlayerMax[opened.mode]
    <3>1. Cardinality(opened.players) = 1 /\ PlayerMax[opened.mode] = PlayerMax[m]
      BY <2>4, FS_Singleton
    <3> HIDE DEF opened
    <3> QED
      BY <1>1, <3>1
  <2>6. Cardinality(opened.players \cup F) <= PlayerMax[opened.mode]
    BY <2>4, <2>5, MovedFit
  <2>7. /\ room \in Rooms /\ room.state = "WaitStart" /\ room.mode = opened.mode
        /\ room.players = opened.players \cup F
    BY <1>1, <2>2, <2>4 DEF Rooms
  <2>8. enter(r, room, F, base)
    BY <2>1
  <2>9. F \cup {p} \subseteq room.players
    BY <2>4, <2>7
  <2> HIDE DEF room, opened, base
  <2> QED
    BY <1>1, <2>2, <2>3, <2>6, <2>7, <2>8, <2>9, EnterFilled DEF p
<1>5. CASE OpenUnregisteredRoom(m)
  <2> DEFINE empty == [mode |-> m, state |-> "WaitStart", players |-> {}]
  <2>1. PICK r \in FreshRooms, F \in Movable(empty) :
          LET room  == [empty EXCEPT !.players = F \cup {p}]
              early == Cardinality(F) >= PlayerMax[m]
              full  == expectedPlayerNum(room) = 0
              state == IF full THEN "CreatingRoomServer" ELSE "WaitStart"
          IN  \/ Crash
              \/ /\ ~early
                 /\ rooms' = Put(rooms, r, [room EXCEPT !.state = state])
                 /\ proom' = [x \in Players |-> IF x \in F \cup {p} THEN r ELSE proom[x]]
                 /\ reqs' = IF full THEN reqs \cup {r} ELSE reqs
                 /\ pending' = pending \ F
                 /\ UNCHANGED <<playerVars, pstate, strays>>
    BY <1>5, Zenon DEF OpenUnregisteredRoom, p
  <2>2. F \in SUBSET pending
    BY MovableFacts
  <2>3. r \in RoomIds /\ r \notin reqs
    BY DEF FreshRooms
  <2>4. CASE ~Crash
    <3> DEFINE joint == [empty EXCEPT !.players = F \cup {p}]
               full == expectedPlayerNum(joint) = 0
               room == [joint EXCEPT !.state = IF full THEN "CreatingRoomServer" ELSE "WaitStart"]
    <3>1. /\ ~(Cardinality(F) >= PlayerMax[m])
          /\ rooms' = Put(rooms, r, room)
          /\ proom' = [x \in Players |-> IF x \in F \cup {p} THEN r ELSE proom[x]]
          /\ reqs' = IF full THEN reqs \cup {r} ELSE reqs
          /\ pending' = pending \ F
          /\ UNCHANGED <<playerVars, pstate, strays>>
      BY <2>1, <2>4
    <3>2. joint \in Rooms /\ joint.state = "WaitStart" /\ joint.mode = m /\ joint.players = F \cup {p}
      BY <1>1, <2>2 DEF Rooms, RoomStates
    <3> HIDE DEF joint
    <3>3. Cardinality(F \cup {p}) <= PlayerMax[m]
      <4>1. F \subseteq Players /\ Cardinality(F) \in Nat
        BY <1>1, <2>2, PlayersFinite
      <4>2. Cardinality(F \cup {p}) = IF p \in F THEN Cardinality(F) ELSE Cardinality(F) + 1
        BY <4>1, PlayersFinite, FS_AddElement
      <4>3. ~(Cardinality(F) >= PlayerMax[m])
        BY <3>1
      <4> QED
        BY ONLY <1>1, <4>1, <4>2, <4>3
    <3>4. ~full => Cardinality(joint.players) < PlayerMax[joint.mode]
      <4>1. Cardinality(joint.players) <= PlayerMax[joint.mode]
        BY <3>2, <3>3
      <4>2. /\ expectedPlayerNum(joint) = PlayerMax[joint.mode] - Cardinality(joint.players)
            /\ Cardinality(joint.players) \in Nat /\ PlayerMax[joint.mode] \in Nat
        BY <3>2, <4>1, PlacesLeft
      <4> QED
        BY ONLY <4>1, <4>2
    <3> HIDE DEF full
    <3>5. /\ room.players = F \cup {p} /\ room.mode = m
          /\ room.state = IF full THEN "CreatingRoomServer" ELSE "WaitStart"
      BY <3>2 DEF Rooms
    <3> HIDE DEF room
    <3>6. /\ DOMAIN rooms' = DOMAIN rooms \cup {r} /\ rooms'[r] = room
          /\ \A x \in DOMAIN rooms : x # r => rooms'[x] = rooms[x]
      BY <3>1 DEF Put
    <3> QED
      BY <1>1, <2>2, <2>3, <3>1, <3>2, <3>3, <3>4, <3>5, <3>6, SeatedKeepsFilled DEF p
  <2> QED
    BY <1>2, <2>4
<1>6. CASE NoRoomFound(m)
  <2>1. /\ UNCHANGED <<playerVars, roomVars, pending, reqs, strays>> /\ NextMode(m)
        /\ ~call.create
    BY <1>6 DEF NoRoomFound
  <2>2. proom[p] # OBJECT_ID_INVALID \/ (call' # NoCall /\ call'.player = call.player)
    <3> SUFFICES ASSUME proom[p] = OBJECT_ID_INVALID
                 PROVE  call' # NoCall /\ call'.player = call.player
      OBVIOUS
    <3>1. call' = [call EXCEPT !.modes = @ \ {m}]
      BY <2>1 DEF NextMode, roomVars, p
    <3>2. call' \in Calls /\ call'.player = call.player
      BY <1>1, <3>1 DEF Calls
    <3> QED
      BY <3>2, NullAssumption
  <2> QED
    BY <2>1, <2>2, SameRoomsFilled DEF playerVars, roomVars, p
<1> QED
  BY <1>3, <1>4, <1>5, <1>6 DEF startMatch_

\* A room destroyed by a handler of its own.
LEMMA DestroyRoomFilled ==
  ASSUME Typed, Filled, NEW r \in DOMAIN rooms, DestroyRoom(r), call = NoCall,
         reqs' \subseteq reqs, UNCHANGED <<playerVars, pending, call, strays>>
  PROVE  Filled' /\ NobodyStarts
<1> DEFINE S == rooms[r].players
<1>1. S \subseteq Players
  BY DEF Typed, TypeOK, Rooms
<1>2. CASE ~AssertFails(rooms, proom, S)
  <2>1. /\ rooms' = Remove(rooms, r)
        /\ pstate' = [x \in Players |-> IF x \in S THEN "WaitStart" ELSE pstate[x]]
        /\ proom' = [x \in Players |-> IF x \in S THEN OBJECT_ID_INVALID ELSE proom[x]]
    BY <1>2 DEF DestroyRoom, destroy
  <2>2. /\ DOMAIN rooms' = DOMAIN rooms \ {r}
        /\ \A x \in DOMAIN rooms : x # r => rooms'[x] = rooms[x]
    BY <2>1 DEF Remove, Restrict
  <2> HIDE DEF S
  <2> QED
    BY <1>1, <2>1, <2>2, SentBackKeepsFilled
<1>3. CASE AssertFails(rooms, proom, S)
  BY <1>3, SameRoomsFilled DEF DestroyRoom, playerVars, roomVars
<1> QED
  BY <1>2, <1>3

\* A room that starts its game, as the answer to its request.
LEMMA StartGameFilled ==
  ASSUME Typed, Filled, NEW r \in DOMAIN rooms, StartGame(r), call = NoCall,
         reqs' = reqs \ {r}, UNCHANGED <<playerVars, pending, call, strays>>
  PROVE  Filled' /\ \A y \in DOMAIN rooms' : rooms'[y].state = "Playing" =>
                      y = r \/ (y \in DOMAIN rooms /\ rooms[y].state = "Playing")
<1> DEFINE S == rooms[r].players
<1>1. S \subseteq Players /\ rooms \in [DOMAIN rooms -> Rooms] /\ objects \subseteq Players
      /\ DOMAIN rooms \subseteq RoomIds
  BY DEF Typed, TypeOK, Rooms
<1>2. CASE ~AssertFails(rooms, proom, S)
  <2>1. /\ rooms' = [rooms EXCEPT ![r].state = "Playing"]
        /\ pstate' = [x \in Players |-> IF x \in S THEN "Playing" ELSE pstate[x]]
        /\ proom' = proom
    BY <1>2 DEF StartGame
  <2>2. /\ DOMAIN rooms' = DOMAIN rooms
        /\ \A y \in DOMAIN rooms : /\ rooms'[y].players = rooms[y].players
                                   /\ rooms'[y].mode = rooms[y].mode
        /\ \A y \in DOMAIN rooms : rooms'[y].state = IF y = r THEN "Playing" ELSE rooms[y].state
    BY <1>1, <2>1 DEF Rooms
  <2>3. Capacity'
    BY <2>2 DEF Filled, Capacity, Waiting
  <2>4. NobodyForgotten'
    BY <1>1, <2>1 DEF Filled, NobodyForgotten, playerVars
  <2>5. Asked'
    BY <2>2 DEF Filled, Asked
  <2> QED
    BY <2>2, <2>3, <2>4, <2>5 DEF Filled
<1>3. CASE AssertFails(rooms, proom, S)
  BY <1>3, SameRoomsFilled DEF StartGame, playerVars, roomVars, NobodyStarts
<1> QED
  BY <1>2, <1>3

\* A player that leaves makes place.
LEMMA OnDestroyTimerFilled ==
  ASSUME Typed, Filled, NEW p \in Players, onDestroyTimer(p)
  PROVE  Filled' /\ NobodyStarts
<1>1. /\ DOMAIN rooms \subseteq RoomIds /\ rooms \in [DOMAIN rooms -> Rooms]
      /\ pstate \in [Players -> PlayerStates] /\ objects \subseteq Players
      /\ proom \in [Players -> RoomIds \cup {OBJECT_ID_INVALID}]
  BY DEF Typed, TypeOK
<1>2. /\ objects' = objects \ {p} /\ pending' = pending \ {p} /\ call = NoCall
      /\ pstate' = [pstate EXCEPT ![p] = "WaitStart"]
      /\ UNCHANGED <<call, strays, reqs>>
  BY DEF onDestroyTimer, Idle
<1> DEFINE r == proom[p]
<1>3. /\ DOMAIN rooms' = DOMAIN rooms
      /\ \A y \in DOMAIN rooms : rooms'[y].state = rooms[y].state /\ rooms'[y].mode = rooms[y].mode
      /\ \A y \in DOMAIN rooms : rooms'[y].players \subseteq rooms[y].players
      /\ \A x \in Players \ {p} : proom'[x] = proom[x]
  <2>1. CASE r \in DOMAIN rooms /\ p \in rooms[r].players
    <3>1. /\ proom' = [proom EXCEPT ![p] = OBJECT_ID_INVALID]
          /\ rooms' = [rooms EXCEPT ![r].players = @ \ {p}]
      BY <2>1 DEF onDestroyTimer
    <3> QED
      BY <1>1, <2>1, <3>1 DEF Rooms
  <2>2. CASE ~(r \in DOMAIN rooms /\ p \in rooms[r].players)
    <3>1. UNCHANGED <<proom, rooms>>
      BY <2>2 DEF onDestroyTimer
    <3> QED
      BY <2>2, <3>1
  <2> QED
    BY <2>1, <2>2
<1> HIDE DEF r
<1>4. ASSUME NEW y \in DOMAIN rooms
      PROVE  Cardinality(rooms'[y].players) <= Cardinality(rooms[y].players)
             /\ Cardinality(rooms'[y].players) \in Nat /\ Cardinality(rooms[y].players) \in Nat
  <2>1. rooms[y].players \subseteq Players /\ rooms'[y].players \subseteq rooms[y].players
    BY <1>1, <1>3 DEF Rooms
  <2> QED
    BY <2>1, PlayersFinite, FS_Subset
<1>5. Capacity'
  <2> SUFFICES ASSUME NEW y \in DOMAIN rooms
               PROVE  /\ Cardinality(rooms'[y].players) <= PlayerMax[rooms[y].mode]
                      /\ rooms[y].state = "WaitStart" =>
                           Cardinality(rooms'[y].players) < PlayerMax[rooms[y].mode]
    BY <1>3 DEF Capacity, Waiting
  <2>1. /\ Cardinality(rooms[y].players) <= PlayerMax[rooms[y].mode]
        /\ rooms[y].state = "WaitStart" => Cardinality(rooms[y].players) < PlayerMax[rooms[y].mode]
    BY DEF Filled, Capacity, Waiting
  <2>2. PlayerMax[rooms[y].mode] \in Nat
    BY <1>1, PlayerMaxAssumption DEF Rooms
  <2> QED
    BY <1>4, <2>1, <2>2
<1>6. NobodyForgotten'
  BY <1>1, <1>2, <1>3 DEF Filled, NobodyForgotten
<1>7. Asked' /\ NobodyStarts
  BY <1>2, <1>3 DEF Filled, Asked, NobodyStarts
<1> QED
  BY <1>5, <1>6, <1>7 DEF Filled

\* What a step does: only the answer to a request starts a room.
Steps ==
  \/ NobodyStarts
  \/ \E r \in reqs :
       /\ r \in DOMAIN rooms /\ r \notin reqs'
       /\ \A y \in DOMAIN rooms' : rooms'[y].state = "Playing" =>
            y = r \/ (y \in DOMAIN rooms /\ rooms[y].state = "Playing")

LEMMA NextFilled == Typed /\ Filled /\ [Next]_vars => Filled' /\ Steps
<1> SUFFICES ASSUME Typed, Filled, [Next]_vars PROVE Filled' /\ Steps
  OBVIOUS
<1> USE DEF Steps
<1>1. ASSUME NEW p \in Players, onSessionQueryAccountCB(p) PROVE Filled' /\ NobodyStarts
  <2>1. /\ objects' = objects \cup {p} /\ strays' = strays \ {p}
        /\ pstate' = [pstate EXCEPT ![p] = "WaitStart"]
        /\ proom' = [proom EXCEPT ![p] = OBJECT_ID_INVALID]
        /\ call = NoCall /\ UNCHANGED <<pending, rooms, call, reqs>>
        /\ pstate \in [Players -> PlayerStates] /\ objects \subseteq Players
        /\ proom \in [Players -> RoomIds \cup {OBJECT_ID_INVALID}]
    BY <1>1 DEF onSessionQueryAccountCB, Idle, Typed, TypeOK
  <2>2. Capacity' /\ Asked' /\ NobodyStarts
    BY <2>1 DEF Filled, Capacity, Waiting, Asked, NobodyStarts
  <2>3. NobodyForgotten'
    BY <2>1 DEF Filled, NobodyForgotten
  <2> QED
    BY <2>2, <2>3 DEF Filled
<1>2. ASSUME NEW p \in Players, onDestroyTimer(p) PROVE Filled' /\ NobodyStarts
  BY <1>2, OnDestroyTimerFilled
<1>3. ASSUME NEW S \in SUBSET conn, onClientDisconnected(S) PROVE Filled' /\ NobodyStarts
  BY <1>3, SameRoomsFilled DEF onClientDisconnected, Idle, roomVars
<1>4. ASSUME NEW p \in Players, NEW g \in Modes \cup UnknownModes \cup {AnyMode},
             onSessionStartMatch(p, g)
      PROVE  Filled' /\ NobodyStarts
  <2>1. /\ call = NoCall /\ pstate' = [pstate EXCEPT ![p] = "StartMatching"]
        /\ UNCHANGED <<playerVars, proom, rooms, pending, reqs, strays>>
        /\ objects \subseteq Players /\ pstate \in [Players -> PlayerStates]
    BY <1>4 DEF onSessionStartMatch, Idle, Typed, TypeOK
  <2>2. UnknownModes = {} => call' # NoCall /\ call'.player = p
    <3> SUFFICES ASSUME UnknownModes = {} PROVE call' # NoCall /\ call'.player = p
      OBVIOUS
    <3>1. \/ g \in Modes /\ call' = [player |-> p, modes |-> {g}, create |-> TRUE]
          \/ call' = [player |-> p, modes |-> Modes, create |-> FALSE]
      BY <1>4 DEF onSessionStartMatch
    <3>2. CASE g \in Modes /\ call' = [player |-> p, modes |-> {g}, create |-> TRUE]
      <4>1. call' \in Calls /\ call'.player = p
        BY <3>2 DEF Calls
      <4> QED
        BY <4>1, NullAssumption
    <3>3. CASE call' = [player |-> p, modes |-> Modes, create |-> FALSE]
      <4>1. call' \in Calls /\ call'.player = p
        BY <3>3 DEF Calls
      <4> QED
        BY <4>1, NullAssumption
    <3> QED
      BY <3>1, <3>2, <3>3
  <2>3. Capacity' /\ Asked' /\ NobodyStarts
    BY <2>1 DEF Filled, Capacity, Waiting, Asked, NobodyStarts
  <2>4. NobodyForgotten'
    BY <2>1, <2>2 DEF Filled, NobodyForgotten, playerVars
  <2> QED
    BY <2>3, <2>4 DEF Filled
<1>5. ASSUME NEW m \in Modes, startMatch_(m) PROVE Filled' /\ NobodyStarts
  BY <1>5, StartMatchFilled
<1>6. CASE addPendingMatch
  BY <1>6, SameRoomsFilled DEF addPendingMatch, playerVars, roomVars
<1>7. ASSUME NEW r \in RoomIds, NEW ok \in BOOLEAN, onSessionRequestCreateRoomCB(r, ok)
      PROVE  Filled' /\ Steps
  <2>1. /\ call = NoCall /\ r \in reqs /\ reqs' = reqs \ {r}
        /\ UNCHANGED <<playerVars, pending, call, strays>>
    BY <1>7 DEF onSessionRequestCreateRoomCB, Idle
  <2>2. CASE UNCHANGED roomVars
    BY <2>1, <2>2, SameRoomsFilled DEF playerVars, roomVars
  <2>3. CASE r \in DOMAIN rooms /\ DestroyRoom(r)
    BY <2>1, <2>3, DestroyRoomFilled
  <2>4. CASE r \in DOMAIN rooms /\ StartGame(r)
    BY <2>1, <2>4, StartGameFilled
  <2> QED
    BY <1>7, <2>2, <2>3, <2>4 DEF onSessionRequestCreateRoomCB
<1>8. ASSUME NEW r \in RoomIds, LoseRequest(r) PROVE Filled' /\ NobodyStarts
  BY <1>8, SameRoomsFilled DEF LoseRequest, Idle, playerVars, roomVars
<1>9. ASSUME NEW r \in RoomIds, onTick(r) PROVE Filled' /\ NobodyStarts
  BY <1>9, DestroyRoomFilled DEF onTick, Idle
<1>10. CASE RoommgrChange
  BY <1>10, SameRoomsFilled DEF RoommgrChange, Idle, playerVars, roomVars
<1>11. CASE UNCHANGED vars
  BY <1>11, SameRoomsFilled DEF vars, playerVars, roomVars
<1> QED
  BY <1>1, <1>2, <1>3, <1>4, <1>5, <1>6, <1>7, <1>8, <1>9, <1>10, <1>11
     DEF Next, StartMatchStep

LEMMA InitFilled == Init => Filled
  BY DEF Init, Filled, Capacity, Waiting, NobodyForgotten, Asked

LEMMA FilledHolds == Spec => [](Typed /\ Filled)
<1>1. Init => Typed /\ Filled
  BY InitTyped, InitFilled
<1>2. Typed /\ Filled /\ [Next]_vars => (Typed /\ Filled)'
  BY NextTyped, NextFilled
<1> QED
  BY <1>1, <1>2, PTL DEF Spec

\* No room takes more than its playerMax players, and a full one does not wait for
\* players: Room::enter, movePendingMatchObjectsToRoom and startMatch_, with the caller
\* and the pending players that come in with it.
THEOREM RoomsKeepCapacity == Spec => []Capacity
<1>1. Filled => Capacity
  BY DEF Filled
<1> QED
  BY <1>1, FilledHolds, PTL

\* A player that asked for a mode the game has waits in a room or in pendingMatchs_, or
\* its startMatch() still runs, whatever rooms were destroyed around it.
THEOREM NobodyIsForgotten == Spec => []NobodyForgotten
<1>1. Filled => NobodyForgotten
  BY DEF Filled
<1> QED
  BY <1>1, FilledHolds, PTL

\* A room starts to play only with the answer to its own request, which is then used up
\* (Room::onCreateRoomServerCB).
THEOREM OnlyAnsweredRoomsPlay == Spec => PlaysOnlyWhenAnswered
<1> DEFINE A == \A r \in RoomIds :
       (r \in DOMAIN rooms' /\ rooms'[r].state = "Playing")
         /\ ~(r \in DOMAIN rooms /\ rooms[r].state = "Playing") =>
           r \in DOMAIN rooms /\ rooms[r].state = "CreatingRoomServer"
             /\ r \in reqs /\ r \notin reqs'
<1>1. Typed /\ Filled /\ [Next]_vars => [A]_vars
  <2> SUFFICES ASSUME Typed, Filled, [Next]_vars PROVE A
    OBVIOUS
  <2>1. Steps /\ Asked
    BY NextFilled DEF Filled
  <2> QED
    BY <2>1 DEF Steps, NobodyStarts, Asked
<1> QED
  BY <1>1, FilledHolds, PTL DEF Spec, PlaysOnlyWhenAnswered
-------------------------------------------------------------------------------
(* Nobody is left pending beside a room that waits.  A mode has one waiting    *)
(* room at most, and it is at the front of its vector, so a search that finds  *)
(* none at the front has looked at all of them.  An any-mode request adds its  *)
(* player to pendingMatchs_ only after the search of every mode; and a room    *)
(* that is opened while somebody is pending takes all of the pending players   *)
(* or fills up, because it lacks two players at most.                          *)

Small == \A m \in Modes : PlayerMax[m] <= 3

\* The connection to roommgr has not been lost.
Undisturbed == roommgrUp /\ strays = {}

\* A waiting room is the first of its vector.
InFront == \A r \in DOMAIN rooms : rooms[r].state = "WaitStart" =>
  pool[rooms[r].mode] # <<>> /\ pool[rooms[r].mode][1] = r

\* The modes a running any-mode request has been through have no waiting room.
Searched == call # NoCall =>
  /\ call.create => call.modes # {}
  /\ ~call.create => \A r \in DOMAIN rooms :
       rooms[r].state = "WaitStart" => rooms[r].mode \in call.modes

NoneWaits == pending # {} => \A r \in DOMAIN rooms : rooms[r].state # "WaitStart"

Queues == Undisturbed /\ InFront /\ Searched /\ NoneWaits

\* A room that waits lacks three players at most.
LEMMA FewPlaces ==
  ASSUME Small, NEW room \in Rooms, room.state = "WaitStart"
  PROVE  expectedPlayerNum(room) \in 0..3
<1>1. Cardinality(room.players) \in Nat
  BY PlayersFinite DEF Rooms
<1>2. PlayerMax[room.mode] \in Nat /\ PlayerMax[room.mode] <= 3
  BY PlayerMaxAssumption DEF Rooms, Small
<1> DEFINE c == Cardinality(room.players)
           M == PlayerMax[room.mode]
<1>3. expectedPlayerNum(room) = IF M - c < 0 THEN 0 ELSE M - c
  BY DEF expectedPlayerNum
<1> HIDE DEF c, M
<1>4. M - c < 0 \/ M - c \in 0..3
  BY <1>1, <1>2 DEF c, M
<1> QED
  BY <1>3, <1>4

\* std::sort brings the only waiting room to the front.
LEMMA SortedInFront ==
  ASSUME Small, NEW s \in Seq(RoomIds), IsInjective(s), NEW rms, NEW t \in Sorts(s, rms),
         NEW r \in Range(s), rms[r] \in Rooms, rms[r].state = "WaitStart",
         \A x \in Range(s) \ {r} : rms[x].state # "WaitStart"
  PROVE  t # <<>> /\ t[1] = r
<1>1. /\ t \in Seq(RoomIds) /\ Range(t) = Range(s) /\ IsInjective(t) /\ InOrder(t, rms)
  BY SortsFacts
<1>2. Len(t) \in Nat /\ DOMAIN t = 1..Len(t)
  BY <1>1, LenProperties
<1>3. PICK j \in DOMAIN t : t[j] = r
  BY <1>1 DEF Range
<1>4. 1 \in DOMAIN t /\ j \in 1..Len(t)
  BY <1>2, <1>3
<1>5. t # <<>>
  BY <1>2, <1>4, EmptySeq
<1>6. ASSUME t[1] # r PROVE FALSE
  <2>1. j # 1 /\ 1 < j
    BY <1>2, <1>3, <1>4, <1>6
  <2>2. expectedPlayerNum(rms[t[1]]) <= expectedPlayerNum(rms[r])
    BY <1>1, <1>3, <1>4, <2>1 DEF InOrder
  <2>3. t[1] \in Range(s) \ {r}
    BY <1>1, <1>4, <1>6 DEF Range
  <2>4. expectedPlayerNum(rms[t[1]]) = 999999
    BY <2>3 DEF expectedPlayerNum
  <2>5. expectedPlayerNum(rms[r]) \in 0..3
    BY FewPlaces
  <2> QED
    BY <2>2, <2>4, <2>5
<1> QED
  BY <1>5, <1>6

\* Erasing another room leaves the first of a vector in front.
LEMMA ErasedInFront ==
  ASSUME NEW s \in Seq(RoomIds), IsInjective(s), s # <<>>, NEW r, s[1] # r
  PROVE  Erase(s, r) # <<>> /\ Erase(s, r)[1] = s[1]
<1>1. Len(s) \in Nat /\ s \in [1..Len(s) -> RoomIds] /\ DOMAIN s = 1..Len(s)
  BY LenProperties
<1>2. CASE r \notin Range(s)
  BY <1>2 DEF Erase
<1>3. CASE r \in Range(s)
  <2> DEFINE First(j) == s[j] = r /\ \A k \in 1..(j - 1) : s[k] # r
             i == CHOOSE j \in DOMAIN s : First(j)
             e == [j \in 1..(Len(s) - 1) |-> IF j < i THEN s[j] ELSE s[j + 1]]
  <2>1. PICK j \in DOMAIN s : s[j] = r
    BY <1>3 DEF Range
  <2>2. \A k \in 1..(j - 1) : s[k] # r
    BY <1>1, <2>1 DEF IsInjective
  <2>3. i \in 1..Len(s) /\ s[i] = r
    BY <1>1, <2>1, <2>2
  <2>4. Erase(s, r) = e
    BY <1>3 DEF Erase
  <2> HIDE DEF i
  <2>5. 1 < i /\ 1 \in 1..(Len(s) - 1)
    BY <1>1, <2>3
  <2>6. e[1] = s[1] /\ DOMAIN e = 1..(Len(s) - 1)
    BY <2>5
  <2>7. e \in Seq(RoomIds)
    BY <2>4, EraseFacts
  <2>8. e # <<>>
    <3> HIDE DEF e
    <3>1. DOMAIN e = 1..Len(e) /\ Len(e) \in Nat /\ 1 \in DOMAIN e
      BY <2>5, <2>6, <2>7, LenProperties
    <3>2. Len(e) # 0
      BY <3>1
    <3> QED
      BY <3>2, EmptySeq
  <2> QED
    BY <2>4, <2>6, <2>8
<1> QED
  BY <1>2, <1>3

\* Fewer rooms wait after a handler that is not startMatch().
LEMMA FewerWait ==
  ASSUME Queues, call = NoCall, call' = NoCall, roommgrUp' = roommgrUp, strays' \subseteq strays,
         pending' \subseteq pending,
         \A r \in DOMAIN rooms' : rooms'[r].state = "WaitStart" =>
           /\ r \in DOMAIN rooms /\ rooms[r].state = "WaitStart"
           /\ pool'[rooms'[r].mode] # <<>> /\ pool'[rooms'[r].mode][1] = r
  PROVE  Queues'
<1>1. Undisturbed' /\ Searched'
  BY DEF Queues, Undisturbed, Searched
<1>2. InFront'
  BY DEF InFront
<1>3. NoneWaits'
  BY DEF Queues, NoneWaits
<1> QED
  BY <1>1, <1>2, <1>3 DEF Queues

\* A room destroyed by a handler of its own.
LEMMA DestroyRoomQueues ==
  ASSUME Typed, Queues, NEW r \in DOMAIN rooms, DestroyRoom(r), call = NoCall,
         UNCHANGED <<pending, roommgrUp, call, strays>>
  PROVE  Queues'
<1>1. CASE UNCHANGED roomVars
  BY <1>1, FewerWait DEF roomVars, Queues, InFront
<1>2. CASE /\ destroy(r, rooms, proom)
           /\ pool' = [pool EXCEPT ![rooms[r].mode] = Erase(@, r)]
  <2>1. /\ DOMAIN rooms' = DOMAIN rooms \ {r}
        /\ \A x \in DOMAIN rooms : x # r => rooms'[x] = rooms[x]
    BY <1>2 DEF destroy, Remove, Restrict
  <2>2. ASSUME NEW x \in DOMAIN rooms', rooms'[x].state = "WaitStart"
        PROVE  pool'[rooms'[x].mode] # <<>> /\ pool'[rooms'[x].mode][1] = x
    <3>1. /\ x # r /\ rooms'[x] = rooms[x] /\ x \in DOMAIN rooms
          /\ pool[rooms[x].mode] # <<>> /\ pool[rooms[x].mode][1] = x
      BY <2>1, <2>2 DEF Queues, InFront
    <3>2. /\ rooms[x].mode \in Modes /\ pool[rooms[x].mode] \in Seq(RoomIds)
          /\ IsInjective(pool[rooms[x].mode]) /\ pool \in [Modes -> Seq(RoomIds)]
      BY <3>1 DEF Typed, TypeOK, PoolMatchesRooms, Rooms
    <3>3. CASE rooms[x].mode = rooms[r].mode
      <4>1. pool'[rooms[x].mode] = Erase(pool[rooms[x].mode], r)
        BY <1>2, <3>2, <3>3
      <4> QED
        BY <3>1, <3>2, <4>1, ErasedInFront
    <3>4. CASE rooms[x].mode # rooms[r].mode
      BY <1>2, <3>1, <3>2, <3>4
    <3> QED
      BY <3>3, <3>4
  <2> QED
    BY <2>1, <2>2, FewerWait
<1> QED
  BY <1>1, <1>2 DEF DestroyRoom

LEMMA StartGameQueues ==
  ASSUME Typed, Queues, NEW r \in DOMAIN rooms, StartGame(r), call = NoCall,
         UNCHANGED <<pending, roommgrUp, call, strays>>
  PROVE  Queues'
<1>1. CASE UNCHANGED roomVars
  BY <1>1, FewerWait DEF roomVars, Queues, InFront
<1>2. CASE /\ rooms' = [rooms EXCEPT ![r].state = "Playing"]
           /\ UNCHANGED pool
  <2>1. /\ DOMAIN rooms' = DOMAIN rooms /\ rooms \in [DOMAIN rooms -> Rooms]
        /\ rooms'[r] = [rooms[r] EXCEPT !.state = "Playing"]
        /\ \A x \in DOMAIN rooms : x # r => rooms'[x] = rooms[x]
    BY <1>2 DEF Typed, TypeOK
  <2>2. rooms'[r].state # "WaitStart"
    BY <2>1 DEF Rooms
  <2> QED
    BY <1>2, <2>1, <2>2, FewerWait DEF Queues, InFront
<1> QED
  BY <1>1, <1>2 DEF StartGame

LEMMA OnDestroyTimerQueues ==
  ASSUME Typed, Queues, Small, NEW p \in Players, onDestroyTimer(p)
  PROVE  Queues'
<1>1. /\ call = NoCall /\ call' = NoCall /\ roommgrUp' = roommgrUp /\ strays' = strays
      /\ pending' \subseteq pending
  BY DEF onDestroyTimer, Idle
<1>2. CASE UNCHANGED <<rooms, pool>>
  BY <1>1, <1>2, FewerWait DEF Queues, InFront
<1>3. CASE LET r == proom[p] IN
             /\ r \in DOMAIN rooms
             /\ rooms' = [rooms EXCEPT ![r].players = @ \ {p}]
             /\ \E s \in Sorts(pool[rooms[r].mode], rooms') :
                  pool' = [pool EXCEPT ![rooms[r].mode] = s]
  <2>1. PICK r \in DOMAIN rooms :
             /\ rooms' = [rooms EXCEPT ![r].players = @ \ {p}]
             /\ \E s \in Sorts(pool[rooms[r].mode], rooms') :
                  pool' = [pool EXCEPT ![rooms[r].mode] = s]
    BY <1>3
  <2>2. PICK s \in Sorts(pool[rooms[r].mode], rooms') : pool' = [pool EXCEPT ![rooms[r].mode] = s]
    BY <2>1
  <2>3. rooms \in [DOMAIN rooms -> Rooms] /\ pool \in [Modes -> Seq(RoomIds)]
    BY DEF Typed, TypeOK
  <2>4. /\ DOMAIN rooms' = DOMAIN rooms
        /\ \A x \in DOMAIN rooms : /\ rooms'[x] \in Rooms
                                   /\ rooms'[x].state = rooms[x].state
                                   /\ rooms'[x].mode = rooms[x].mode
    <3>1. DOMAIN rooms' = DOMAIN rooms /\ \A x \in DOMAIN rooms : rooms[x] \in Rooms
      BY <2>1, <2>3
    <3>2. \A x \in DOMAIN rooms : x # r => rooms'[x] = rooms[x]
      BY <2>1
    <3>3. rooms'[r] = [rooms[r] EXCEPT !.players = @ \ {p}]
      BY <2>1, <2>3
    <3>4. rooms'[r] \in Rooms /\ rooms'[r].state = rooms[r].state /\ rooms'[r].mode = rooms[r].mode
      BY <3>1, <3>3 DEF Rooms
    <3> QED
      BY <3>1, <3>2, <3>4
  <2>5. ASSUME NEW x \in DOMAIN rooms, rooms[x].state = "WaitStart"
        PROVE  pool'[rooms[x].mode] # <<>> /\ pool'[rooms[x].mode][1] = x
    <3>1. pool[rooms[x].mode] # <<>> /\ pool[rooms[x].mode][1] = x /\ rooms[x].mode \in Modes
      BY <2>3, <2>5 DEF Queues, InFront, Rooms
    <3>2. CASE rooms[x].mode = rooms[r].mode
      <4> DEFINE q == pool[rooms[r].mode]
      <4>1. /\ q \in Seq(RoomIds) /\ IsInjective(q)
            /\ Range(q) = {y \in DOMAIN rooms : rooms[y].mode = rooms[x].mode}
        BY <2>3, <3>1, <3>2 DEF Typed, PoolMatchesRooms
      <4>2. x \in Range(q)
        BY <3>2, <4>1
      <4>3. \A y \in Range(q) \ {x} : rooms'[y].state # "WaitStart"
        BY <2>4, <3>1, <4>1 DEF Queues, InFront
      <4>4. rooms'[x] \in Rooms /\ rooms'[x].state = "WaitStart"
        BY <2>4, <2>5
      <4>5. s \in Sorts(q, rooms')
        BY <2>2
      <4>6. s # <<>> /\ s[1] = x
        <5> HIDE DEF q
        <5> QED
          BY <4>1, <4>2, <4>3, <4>4, <4>5, SortedInFront
      <4> QED
        BY <2>2, <2>3, <3>1, <3>2, <4>6
    <3>3. CASE rooms[x].mode # rooms[r].mode
      BY <2>2, <2>3, <3>1, <3>3
    <3> QED
      BY <3>2, <3>3
  <2> QED
    BY <1>1, <2>4, <2>5, FewerWait
<1> QED
  BY <1>2, <1>3 DEF onDestroyTimer

\* Whoever finds a room stops the search.
LEMMA SeatedStops ==
  ASSUME NEW m, NEW r \in RoomIds, proom'[call.player] = r \/ call.create, NextMode(m)
  PROVE  call' = NoCall
  BY NullAssumption DEF NextMode

\* Room::enter, with roommgr there: the room takes all pending players or fills up.
LEMMA EnterQueues ==
  ASSUME Typed, Queues, Small, call # NoCall,
         NEW r \in RoomIds, NEW room \in Rooms, NEW F \in SUBSET pending,
         NEW base \in Seq(RoomIds), IsInjective(base), room.state = "WaitStart",
         \A x \in RoomIds : x \in Range(base) <=>
           x = r \/ (x \in DOMAIN rooms /\ rooms[x].mode = room.mode),
         \A x \in DOMAIN rooms :
           x # r /\ rooms[x].mode = room.mode => rooms[x].state # "WaitStart",
         pending \subseteq F \/ expectedPlayerNum(room) = 0,
         enter(r, room, F, base)
  PROVE  Queues'
<1> DEFINE p     == call.player
           m     == room.mode
           full  == expectedPlayerNum(room) = 0
           prs   == [x \in Players |-> IF x \in F \cup {p} THEN r ELSE proom[x]]
           rms   == Put(rooms, r, room)
           going == [room EXCEPT !.state = "CreatingRoomServer"]
           asked == Put(rooms, r, going)
<1>1. /\ p \in Players /\ m \in Modes /\ prs[p] = r
      /\ pool \in [Modes -> Seq(RoomIds)] /\ DOMAIN rooms \subseteq RoomIds
      /\ rooms \in [DOMAIN rooms -> Rooms]
  BY DEF Typed, TypeOK, Calls, Rooms
<1>2. /\ DOMAIN rms = DOMAIN rooms \cup {r} /\ rms[r] = room
      /\ \A x \in DOMAIN rooms : x # r => rms[x] = rooms[x]
  BY DEF Put
<1>3. /\ DOMAIN asked = DOMAIN rooms \cup {r} /\ asked[r] = going
      /\ \A x \in DOMAIN rooms : x # r => asked[x] = rooms[x]
  BY DEF Put
<1>4. going.state = "CreatingRoomServer" /\ going.mode = m
  BY DEF Rooms
<1>5. roommgrUp /\ strays = {} /\ InFront /\ NoneWaits
  BY DEF Queues, Undisturbed
<1>6. \A x \in DOMAIN rooms : /\ rooms[x].mode \in Modes
                              /\ rooms[x].state = "WaitStart" =>
                                   /\ pool[rooms[x].mode] # <<>>
                                   /\ pool[rooms[x].mode][1] = x
  BY <1>1, <1>5 DEF InFront, Rooms
<1> HIDE DEF p, m, full, prs, rms, going, asked
<1>7. CASE /\ ~full
           /\ rooms' = rms
           /\ proom' = prs
           /\ \E s \in Sorts(base, rms) : pool' = [pool EXCEPT ![m] = s]
           /\ pending' = pending \ F
           /\ NextMode(m)
           /\ UNCHANGED <<playerVars, pstate, reqs, roommgrUp, strays, crashed>>
  <2>1. PICK s \in Sorts(base, rms) : pool' = [pool EXCEPT ![m] = s]
    BY <1>7
  <2>2. call' = NoCall
    BY <1>1, <1>7, SeatedStops DEF p
  <2>3. pending' = {}
    BY <1>7 DEF full
  <2>4. s # <<>> /\ s[1] = r
    <3>1. r \in Range(base) /\ \A x \in Range(base) \ {r} : rms[x].state # "WaitStart"
      <4>1. Range(base) \subseteq RoomIds
        BY LenProperties DEF Range
      <4> QED
        BY <1>2, <4>1 DEF m
    <3> QED
      BY <1>2, <3>1, SortedInFront
  <2>5. InFront'
    <3> SUFFICES ASSUME NEW x \in DOMAIN rooms', rooms'[x].state = "WaitStart"
                 PROVE  pool'[rooms'[x].mode] # <<>> /\ pool'[rooms'[x].mode][1] = x
      BY DEF InFront
    <3>1. CASE x = r
      BY <1>1, <1>2, <1>7, <2>1, <2>4, <3>1 DEF m
    <3>2. CASE x # r
      <4>1. x \in DOMAIN rooms /\ rooms'[x] = rooms[x] /\ rooms[x].mode # m
        BY <1>2, <1>7, <3>2 DEF m
      <4>2. rooms[x].state = "WaitStart" /\ rooms[x].mode \in Modes
        BY <1>6, <4>1
      <4>3. pool'[rooms[x].mode] = pool[rooms[x].mode]
        BY <1>1, <2>1, <4>1, <4>2
      <4> QED
        BY <1>6, <4>1, <4>2, <4>3
    <3> QED
      BY <3>1, <3>2
  <2> QED
    BY <1>5, <1>7, <2>2, <2>3, <2>5 DEF Queues, Undisturbed, Searched, NoneWaits
<1>8. CASE /\ full /\ roommgrUp
           /\ rooms' = asked
           /\ proom' = prs
           /\ \E s \in Sorts(base, asked) : pool' = [pool EXCEPT ![m] = s]
           /\ reqs' = reqs \cup {r}
           /\ pending' = pending \ F
           /\ NextMode(m)
           /\ UNCHANGED <<playerVars, pstate, roommgrUp, strays, crashed>>
  <2>1. PICK s \in Sorts(base, asked) : pool' = [pool EXCEPT ![m] = s]
    BY <1>8
  <2>2. call' = NoCall
    BY <1>1, <1>8, SeatedStops DEF p
  <2>3. ASSUME NEW x \in DOMAIN rooms', rooms'[x].state = "WaitStart"
        PROVE  /\ x \in DOMAIN rooms /\ rooms[x].state = "WaitStart"
               /\ pool'[rooms'[x].mode] # <<>> /\ pool'[rooms'[x].mode][1] = x
    <3>1. x # r
      BY <1>3, <1>4, <1>8, <2>3
    <3>2. x \in DOMAIN rooms /\ rooms'[x] = rooms[x] /\ rooms[x].mode # m
      BY <1>3, <1>8, <2>3, <3>1 DEF m
    <3>3. rooms[x].state = "WaitStart" /\ rooms[x].mode \in Modes
      BY <1>6, <2>3, <3>2
    <3>4. pool'[rooms[x].mode] = pool[rooms[x].mode]
      BY <1>1, <2>1, <3>2, <3>3
    <3> QED
      BY <1>6, <3>2, <3>3, <3>4
  <2>4. InFront' /\ NoneWaits'
    BY <1>5, <1>8, <2>3 DEF InFront, NoneWaits
  <2> QED
    BY <1>5, <1>8, <2>2, <2>4 DEF Queues, Undisturbed, Searched
<1> QED
  BY <1>5, <1>7, <1>8 DEF enter, p, m, full, prs, rms, going, asked

\* Who may be moved into an empty place: nobody, or as many as are needed, or everybody.
LEMMA MovableCounts ==
  ASSUME Typed, NEW room, NEW e \in Nat, expectedPlayerNum(room) = e, e >= 1, NEW F \in Movable(room)
  PROVE  /\ F \subseteq pending
         /\ Cardinality(pending) \in Nat /\ Cardinality(F) \in Nat
         /\ \/ F = {} /\ Cardinality(pending) < e - 1
            \/ Cardinality(F) = e
            \/ F = pending /\ e - 1 <= Cardinality(pending) /\ Cardinality(pending) <= e
<1>1. F \subseteq pending /\ pending \subseteq Players
  BY MovableFacts DEF Typed, TypeOK
<1>2. /\ IsFiniteSet(pending) /\ IsFiniteSet(F)
      /\ Cardinality(pending) \in Nat /\ Cardinality(F) \in Nat
  BY <1>1, PlayersFinite
<1> DEFINE n == Cardinality(pending)
<1>3. IF e = 0 \/ e - 1 > n THEN F = {} ELSE Cardinality(F) = IF e < n THEN e ELSE n
  BY DEF Movable
<1>4. CASE n < e - 1
  BY <1>1, <1>2, <1>3, <1>4
<1>5. CASE ~(n < e - 1) /\ e < n
  BY <1>1, <1>2, <1>3, <1>5
<1>6. CASE ~(n < e - 1) /\ ~(e < n)
  <2>1. Cardinality(F) = n
    BY <1>2, <1>3, <1>6
  <2>2. F = pending
    BY <1>1, <1>2, <2>1, FS_Subset
  <2> QED
    BY <1>1, <1>2, <1>6, <2>2
<1> QED
  BY <1>4, <1>5, <1>6

\* A room opened for the caller takes every pending player or fills up.
LEMMA OpenedTakesAll ==
  ASSUME Typed, NEW m \in Modes, PlayerMax[m] \in Nat, 1 <= PlayerMax[m], PlayerMax[m] <= 3,
         NEW p \in Players, p \notin pending,
         NEW opened \in Rooms, opened.mode = m, opened.state = "WaitStart", opened.players = {p},
         NEW F \in Movable(opened),
         NEW room \in Rooms, room.mode = m, room.state = "WaitStart", room.players = {p} \cup F
  PROVE  pending \subseteq F \/ expectedPlayerNum(room) = 0
<1> DEFINE M == PlayerMax[m]
           n == Cardinality(pending)
           k == Cardinality(F)
           a == Cardinality(room.players)
<1>1. Cardinality({p}) = 1 /\ IsFiniteSet({p})
  BY FS_Singleton
<1>2. F \subseteq pending /\ pending \subseteq Players
  BY MovableFacts DEF Typed, TypeOK
<1>3. IsFiniteSet(F) /\ IsFiniteSet(pending) /\ k \in Nat /\ n \in Nat
  BY <1>2, PlayersFinite
<1>4. expectedPlayerNum(opened) = M - 1
  BY <1>1, PlacesLeft
<1>5. a = k + 1
  <2>1. room.players = F \cup {p} /\ p \notin F
    BY <1>2
  <2> QED
    BY <1>3, <2>1, FS_AddElement
<1>6. ASSUME a = M PROVE expectedPlayerNum(room) = 0
  <2>1. Cardinality(room.players) <= PlayerMax[room.mode]
    BY <1>6
  <2>2. expectedPlayerNum(room) = PlayerMax[room.mode] - Cardinality(room.players)
    BY <2>1, PlacesLeft
  <2> QED
    BY <1>6, <2>2
<1>7. CASE M = 1
  <2>1. F = {}
    BY <1>4, <1>7 DEF Movable
  <2>2. k = 0
    BY <2>1, FS_EmptySet
  <2> QED
    BY <1>5, <1>6, <1>7, <2>2
<1>8. CASE M >= 2
  <2>1. M - 1 \in Nat /\ M - 1 >= 1
    BY <1>8
  <2>2. \/ F = {} /\ n < (M - 1) - 1
        \/ k = M - 1
        \/ F = pending
    BY <1>4, <2>1, MovableCounts
  <2>3. CASE F = {} /\ n < (M - 1) - 1
    <3>1. n = 0
      BY <1>3, <2>3
    <3> QED
      BY <1>3, <3>1, FS_EmptySet
  <2>4. CASE k = M - 1
    BY <1>3, <1>5, <1>6, <2>4
  <2> QED
    BY <2>2, <2>3, <2>4
<1> QED
  BY <1>7, <1>8

\* A room opened by an any-mode request and not filled by pending players alone is
\* full once the caller is in it.
LEMMA UnregisteredFills ==
  ASSUME Typed, NEW m \in Modes, PlayerMax[m] \in Nat, 1 <= PlayerMax[m],
         NEW p \in Players, p \notin pending,
         NEW empty \in Rooms, empty.mode = m, empty.state = "WaitStart", empty.players = {},
         NEW F \in Movable(empty), F # {}, ~(Cardinality(F) >= PlayerMax[m]),
         NEW room \in Rooms, room.mode = m, room.state = "WaitStart", room.players = F \cup {p}
  PROVE  expectedPlayerNum(room) = 0
<1> DEFINE M == PlayerMax[m]
           n == Cardinality(pending)
           k == Cardinality(F)
           a == Cardinality(room.players)
<1>1. F \subseteq pending /\ pending \subseteq Players
  BY MovableFacts DEF Typed, TypeOK
<1>2. IsFiniteSet(F) /\ k \in Nat /\ n \in Nat
  BY <1>1, PlayersFinite
<1>3. Cardinality(empty.players) = 0
  BY FS_EmptySet
<1>4. expectedPlayerNum(empty) = M
  <2>1. Cardinality(empty.players) <= PlayerMax[empty.mode]
    BY <1>3
  <2>2. expectedPlayerNum(empty) = PlayerMax[empty.mode] - Cardinality(empty.players)
    BY <2>1, PlacesLeft
  <2> QED
    BY <1>3, <2>2
<1>5. \/ F = {}
      \/ k = M
      \/ F = pending /\ M - 1 <= n
  BY <1>4, MovableCounts
<1>6. k = M - 1
  BY <1>2, <1>5
<1>7. a = k + 1
  <2>1. p \notin F
    BY <1>1
  <2> QED
    BY <1>2, <2>1, FS_AddElement
<1>8. a = M
  BY <1>2, <1>6, <1>7
<1>9. Cardinality(room.players) <= PlayerMax[room.mode]
  BY <1>8
<1>10. expectedPlayerNum(room) = PlayerMax[room.mode] - Cardinality(room.players)
  BY <1>9, PlacesLeft
<1> QED
  BY <1>8, <1>10

\* startMatch_, whichever of its branches is taken.
LEMMA StartMatchQueues ==
  ASSUME Typed, Records, Queues, Small, NEW m \in Modes, startMatch_(m)
  PROVE  Queues'
<1> DEFINE p == call.player
<1>1. /\ call # NoCall /\ call \in Calls /\ p \in Players /\ p \notin pending
      /\ pool \in [Modes -> Seq(RoomIds)] /\ pool[m] \in Seq(RoomIds) /\ IsInjective(pool[m])
      /\ \A x \in RoomIds : x \in Range(pool[m]) <=> x \in DOMAIN rooms /\ rooms[x].mode = m
      /\ DOMAIN rooms \subseteq RoomIds /\ rooms \in [DOMAIN rooms -> Rooms]
      /\ pending \subseteq Players
  <2>1. call # NoCall /\ call \in Calls /\ p \in Players /\ strays = {}
    BY DEF startMatch_, Typed, TypeOK, Calls, Queues, Undisturbed
  <2>2. p \notin pending
    BY <2>1 DEF Records, CallerIsUnplaced
  <2> QED
    BY <2>1, <2>2 DEF Typed, TypeOK, PoolMatchesRooms
<1>2. PlayerMax[m] \in Nat /\ 1 <= PlayerMax[m] /\ PlayerMax[m] <= 3
  <2>1. PlayerMax[m] \in Nat \ {0}
    BY PlayerMaxAssumption
  <2> QED
    BY <2>1 DEF Small
<1>3. /\ roommgrUp /\ strays = {} /\ InFront /\ NoneWaits /\ Searched
      /\ \A x \in DOMAIN rooms : rooms[x].mode = m /\ rooms[x].state = "WaitStart" =>
           FrontWaits(m) /\ pool[m][1] = x
  BY DEF Queues, Undisturbed, InFront, FrontWaits
<1> HIDE DEF p
<1>4. ASSUME Crash PROVE Queues'
  BY <1>4 DEF Crash, Queues, Undisturbed, InFront, NoneWaits, Searched, roomVars
<1>5. CASE JoinFront(m)
  <2> DEFINE r      == pool[m][1]
             joined == [rooms[r] EXCEPT !.players = @ \cup {p}]
  <2>1. PICK F \in Movable(joined) :
          enter(r, [joined EXCEPT !.players = @ \cup F], F, pool[m])
    BY <1>5, Zenon DEF JoinFront, p
  <2>2. F \in SUBSET pending
    BY MovableFacts
  <2>3. r \in DOMAIN rooms /\ rooms[r].mode = m /\ rooms[r].state = "WaitStart"
    BY <1>5, FrontIsRoom DEF JoinFront
  <2>4. pending = {}
    BY <1>3, <2>3 DEF NoneWaits
  <2>5. \A x \in DOMAIN rooms : x # r /\ rooms[x].mode = m => rooms[x].state # "WaitStart"
    BY <1>3
  <2> HIDE DEF r
  <2> DEFINE room == [joined EXCEPT !.players = @ \cup F]
  <2>6. room \in Rooms /\ room.mode = m /\ room.state = "WaitStart"
    <3>1. rooms[r] \in Rooms /\ F \subseteq Players
      BY <1>1, <2>2, <2>3
    <3> QED
      BY <1>1, <2>3, <3>1 DEF Rooms
  <2>7. enter(r, room, F, pool[m])
    BY <2>1
  <2> HIDE DEF room
  <2>8. /\ r \in RoomIds
        /\ \A x \in RoomIds : x \in Range(pool[m]) <=>
             x = r \/ (x \in DOMAIN rooms /\ rooms[x].mode = room.mode)
    BY <1>1, <2>3, <2>6
  <2>9. pending \subseteq F
    BY <2>4
  <2> QED
    BY <1>1, <2>2, <2>5, <2>6, <2>7, <2>8, <2>9, EnterQueues
<1>6. CASE OpenRoom(m)
  <2> DEFINE opened == [mode |-> m, state |-> "WaitStart", players |-> {p}]
  <2>1. PICK r \in FreshRooms, F \in Movable(opened) :
          enter(r, [opened EXCEPT !.players = @ \cup F], F, Append(pool[m], r))
    BY <1>6 DEF OpenRoom, p
  <2>2. F \in SUBSET pending /\ F \subseteq Players
    BY <1>1, MovableFacts
  <2>3. r \in RoomIds /\ r \notin DOMAIN rooms
    BY DEF FreshRooms
  <2> DEFINE room == [opened EXCEPT !.players = @ \cup F]
             base == Append(pool[m], r)
  <2>4. /\ base \in Seq(RoomIds)
        /\ Range(base) = Range(pool[m]) \cup {r}
        /\ IsInjective(base)
    BY <1>1, <2>3, AppendFacts
  <2>5. /\ room \in Rooms /\ room.mode = m /\ room.state = "WaitStart" /\ room.players = {p} \cup F
        /\ opened \in Rooms /\ opened.state = "WaitStart" /\ opened.mode = m /\ opened.players = {p}
    BY <1>1, <2>2 DEF Rooms, RoomStates
  <2>6. enter(r, room, F, base)
    BY <2>1
  <2>7. \A x \in RoomIds : x \in Range(base) <=>
          x = r \/ (x \in DOMAIN rooms /\ rooms[x].mode = room.mode)
    BY <1>1, <2>3, <2>4, <2>5
  <2>8. \A x \in DOMAIN rooms : x # r /\ rooms[x].mode = room.mode => rooms[x].state # "WaitStart"
    BY <1>3, <1>6, <2>5 DEF OpenRoom
  <2> HIDE DEF room, base, opened
  <2>9. pending \subseteq F \/ expectedPlayerNum(room) = 0
    BY <1>1, <1>2, <2>2, <2>5, OpenedTakesAll
  <2> QED
    BY <1>1, <2>2, <2>3, <2>4, <2>5, <2>6, <2>7, <2>8, <2>9, EnterQueues
<1>7. CASE OpenUnregisteredRoom(m)
  <2> DEFINE empty == [mode |-> m, state |-> "WaitStart", players |-> {}]
  <2>1. PICK r \in FreshRooms, F \in Movable(empty) :
          LET room  == [empty EXCEPT !.players = F \cup {p}]
              early == Cardinality(F) >= PlayerMax[m]
              full  == expectedPlayerNum(room) = 0
              state == IF full THEN "CreatingRoomServer" ELSE "WaitStart"
          IN  /\ F # {}
              /\ \/ (early \/ (full /\ ~roommgrUp)) /\ Crash
                 \/ /\ ~early /\ (full => roommgrUp)
                    /\ rooms' = Put(rooms, r, [room EXCEPT !.state = state])
                    /\ proom' = [x \in Players |-> IF x \in F \cup {p} THEN r ELSE proom[x]]
                    /\ \E s \in Sorts(pool[m], rooms) :
                         pool' = [pool EXCEPT ![m] = Append(s, r)]
                    /\ reqs' = IF full THEN reqs \cup {r} ELSE reqs
                    /\ pending' = pending \ F
                    /\ NextMode(m)
                    /\ UNCHANGED <<playerVars, pstate, roommgrUp, strays, crashed>>
    BY <1>7, ZenonT(60) DEF OpenUnregisteredRoom, p
  <2>2. F \in SUBSET pending /\ F \subseteq Players
    BY <1>1, MovableFacts
  <2>3. r \in RoomIds /\ r \notin DOMAIN rooms
    BY DEF FreshRooms
  <2> DEFINE seated == [empty EXCEPT !.players = F \cup {p}]
             room   == [seated EXCEPT !.state =
                          IF expectedPlayerNum(seated) = 0 THEN "CreatingRoomServer" ELSE "WaitStart"]
  <2>4. CASE ~Crash
    <3>1. /\ rooms' = Put(rooms, r, room)
          /\ proom' = [x \in Players |-> IF x \in F \cup {p} THEN r ELSE proom[x]]
          /\ pending' = pending \ F
          /\ NextMode(m)
          /\ UNCHANGED <<playerVars, pstate, roommgrUp, strays, crashed>>
          /\ F # {} /\ ~(Cardinality(F) >= PlayerMax[m])
      BY <2>1, <2>4
    <3>2. PICK s \in Sorts(pool[m], rooms) : pool' = [pool EXCEPT ![m] = Append(s, r)]
      BY <2>1, <2>4
    <3>3. /\ seated \in Rooms /\ seated.mode = m /\ seated.state = "WaitStart"
          /\ seated.players = F \cup {p}
          /\ empty \in Rooms /\ empty.mode = m /\ empty.state = "WaitStart" /\ empty.players = {}
      BY <1>1, <2>2 DEF Rooms, RoomStates
    <3> HIDE DEF seated, empty
    <3>4. expectedPlayerNum(seated) = 0
      BY <1>1, <1>2, <2>2, <3>1, <3>3, UnregisteredFills
    <3>5. room.state = "CreatingRoomServer" /\ room.mode = m
      BY <3>3, <3>4 DEF Rooms
    <3> HIDE DEF room
    <3>6. /\ DOMAIN rooms' = DOMAIN rooms \cup {r} /\ rooms'[r] = room
          /\ \A x \in DOMAIN rooms : x # r => rooms'[x] = rooms[x]
      BY <3>1 DEF Put
    <3>7. call' = NoCall
      BY <1>1, <2>3, <3>1, SeatedStops DEF p
    <3>8. ASSUME NEW x \in DOMAIN rooms', rooms'[x].state = "WaitStart"
          PROVE  /\ x \in DOMAIN rooms /\ rooms[x].state = "WaitStart"
                 /\ pool'[rooms'[x].mode] # <<>> /\ pool'[rooms'[x].mode][1] = x
      <4>1. x \in DOMAIN rooms /\ rooms'[x] = rooms[x] /\ rooms[x].state = "WaitStart"
        BY <3>5, <3>6, <3>8
      <4>2. rooms[x].mode # m
        BY <1>3, <1>7, <4>1 DEF OpenUnregisteredRoom
      <4>3. rooms[x].mode \in Modes
        BY <1>1, <4>1 DEF Rooms
      <4>4. pool'[rooms[x].mode] = pool[rooms[x].mode]
        BY <1>1, <3>2, <4>2, <4>3
      <4> QED
        BY <1>3, <4>1, <4>4 DEF InFront
    <3>9. InFront' /\ NoneWaits'
      BY <1>3, <3>1, <3>8 DEF InFront, NoneWaits
    <3> QED
      BY <1>3, <3>1, <3>7, <3>9 DEF Queues, Undisturbed, Searched
  <2> QED
    BY <1>4, <2>4
<1>8. CASE NoRoomFound(m)
  <2>1. /\ UNCHANGED <<roomVars, pending, roommgrUp, strays>> /\ NextMode(m) /\ ~call.create
        /\ ~FrontWaits(m)
    BY <1>8 DEF NoRoomFound
  <2>2. call' = NoCall \/ (call' = [call EXCEPT !.modes = @ \ {m}])
    BY <2>1 DEF NextMode
  <2>3. Searched'
    <3>1. CASE call' = NoCall
      BY <3>1 DEF Searched
    <3>2. CASE call' = [call EXCEPT !.modes = @ \ {m}]
      <4>1. call'.create = call.create /\ call'.modes = call.modes \ {m}
        BY <1>1, <3>2 DEF Calls
      <4>2. \A x \in DOMAIN rooms : rooms[x].state = "WaitStart" =>
              rooms[x].mode \in call.modes /\ rooms[x].mode # m
        BY <1>1, <1>3, <2>1 DEF Searched
      <4> QED
        BY <2>1, <4>1, <4>2 DEF Searched, roomVars
    <3> QED
      BY <2>2, <3>1, <3>2
  <2> QED
    BY <1>3, <2>1, <2>3 DEF Queues, Undisturbed, InFront, NoneWaits, roomVars
<1> QED
  BY <1>5, <1>6, <1>7, <1>8 DEF startMatch_

\* Losing the connection to roommgr apart, every step keeps the queues.
LEMMA NextQueues ==
  ASSUME Small, ~RoommgrMayFail, Typed, Records, Queues, [Next]_vars
  PROVE  Queues'
<1>1. ASSUME NEW p \in Players, onSessionQueryAccountCB(p) PROVE Queues'
  BY <1>1, FewerWait DEF onSessionQueryAccountCB, Idle, Queues, InFront
<1>2. ASSUME NEW p \in Players, onDestroyTimer(p) PROVE Queues'
  BY <1>2, OnDestroyTimerQueues
<1>3. ASSUME NEW S \in SUBSET conn, onClientDisconnected(S) PROVE Queues'
  BY <1>3, FewerWait DEF onClientDisconnected, Idle, roomVars, Queues, InFront
<1>4. ASSUME NEW p \in Players, NEW g \in Modes \cup UnknownModes \cup {AnyMode},
             onSessionStartMatch(p, g)
      PROVE  Queues'
  <2>1. /\ UNCHANGED <<rooms, pool, pending, roommgrUp, strays>>
        /\ \/ call' = NoCall
           \/ call' = [player |-> p, modes |-> {g}, create |-> TRUE]
           \/ call' = [player |-> p, modes |-> Modes, create |-> FALSE]
    BY <1>4 DEF onSessionStartMatch, Idle
  <2>2. \A r \in DOMAIN rooms : rooms[r].mode \in Modes
    BY DEF Typed, TypeOK, Rooms
  <2>3. Searched'
    <3>1. CASE call' = NoCall
      BY <3>1 DEF Searched
    <3>2. CASE call' = [player |-> p, modes |-> {g}, create |-> TRUE]
      BY <3>2 DEF Searched
    <3>3. CASE call' = [player |-> p, modes |-> Modes, create |-> FALSE]
      BY <2>1, <2>2, <3>3 DEF Searched
    <3> QED
      BY <2>1, <3>1, <3>2, <3>3
  <2> QED
    BY <2>1, <2>3 DEF Queues, Undisturbed, InFront, NoneWaits
<1>5. ASSUME NEW m \in Modes, startMatch_(m) PROVE Queues'
  BY <1>5, StartMatchQueues
<1>6. ASSUME addPendingMatch PROVE Queues'
  <2>1. /\ call # NoCall /\ call.modes = {} /\ call' = NoCall /\ call \in Calls
        /\ UNCHANGED <<roomVars, roommgrUp, strays>>
    BY <1>6 DEF addPendingMatch, Typed, TypeOK
  <2>2. ~call.create /\ \A r \in DOMAIN rooms : rooms[r].state # "WaitStart"
    BY <2>1 DEF Queues, Searched
  <2> QED
    BY <2>1, <2>2 DEF Queues, Undisturbed, InFront, Searched, NoneWaits, roomVars
<1>7. ASSUME NEW r \in RoomIds, NEW ok \in BOOLEAN, onSessionRequestCreateRoomCB(r, ok)
      PROVE  Queues'
  <2>1. call = NoCall /\ UNCHANGED <<playerVars, pending, roommgrUp, call, strays>>
    BY <1>7 DEF onSessionRequestCreateRoomCB, Idle
  <2>2. CASE UNCHANGED roomVars
    BY <2>1, <2>2, FewerWait DEF roomVars, Queues, InFront
  <2>3. CASE r \in DOMAIN rooms /\ DestroyRoom(r)
    BY <2>1, <2>3, DestroyRoomQueues
  <2>4. CASE r \in DOMAIN rooms /\ StartGame(r)
    BY <2>1, <2>4, StartGameQueues
  <2> QED
    BY <1>7, <2>2, <2>3, <2>4 DEF onSessionRequestCreateRoomCB
<1>8. ASSUME NEW r \in RoomIds, LoseRequest(r) PROVE Queues'
  BY <1>8, FewerWait DEF LoseRequest, Idle, roomVars, Queues, InFront
<1>9. ASSUME NEW r \in RoomIds, onTick(r) PROVE Queues'
  BY <1>9, DestroyRoomQueues DEF onTick, Idle
<1>10. ~RoommgrChange
  BY DEF RoommgrChange
<1>11. ASSUME UNCHANGED vars PROVE Queues'
  BY <1>11 DEF vars, roomVars, Queues, Undisturbed, InFront, Searched, NoneWaits
<1> QED
  BY <1>1, <1>2, <1>3, <1>4, <1>5, <1>6, <1>7, <1>8, <1>9, <1>10, <1>11
     DEF Next, StartMatchStep

LEMMA InitQueues == Init => Queues
  BY DEF Init, Queues, Undisturbed, InFront, Searched, NoneWaits

\* With games of up to three players and a roommgr that stays, no player is left
\* in pendingMatchs_ beside a room that waits for players (startMatch,
\* startMatch_, addPendingMatch and movePendingMatchObjectsToRoom).
THEOREM NobodyIsStranded ==
  ASSUME ~RoommgrMayFail
  PROVE  Spec => []NoStrandedPending
<1> DEFINE I == Typed /\ Records /\ (Small => Queues)
<1>1. Init => I
  BY InitTyped, InitRecords, InitQueues
<1>2. I /\ [Next]_vars => I'
  BY NextTyped, NextRecords, NextQueues DEF Small
<1>3. I => NoStrandedPending
  BY DEF Queues, NoneWaits, NoStrandedPending, Waiting, Small
<1> QED
  BY <1>1, <1>2, <1>3, PTL DEF Spec
===============================================================================
