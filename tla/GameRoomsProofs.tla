---------------------------- MODULE GameRoomsProofs ----------------------------
(***************************************************************************)
(* For any number of users, accounts, rooms and codes and any limit of at  *)
(* least two players: the invariants of GameRooms and, from the same       *)
(* inductive invariant, that a room disappears only after its host.        *)
(*                                                                         *)
(* Every part of the invariant is an operator of the values it reads,      *)
(* because most steps end in Settle, which turns values given to it into   *)
(* the next state: SettleGood proves once that it keeps the invariant, and *)
(* a step has to show only that the values it gives are good.              *)
(***************************************************************************)
EXTENDS GameRooms, FiniteSetTheorems, TLAPS

Typed(rm, rf, u, tb, h, k) ==
    /\ u \subseteq alive
    /\ rf \in [Session -> Room \cup {None}]
    /\ rm \in [Room -> GameRoom \cup {None}]
    /\ tb \in [Code -> Room \cup {None}]
    /\ h \in HandlerState /\ k \in CleanerState

\* A room that is held or referred to exists; only a user refers to a room.
HeldExist(rm, tb, h, k) ==
    /\ \A c \in Code : tb[c] # None => rm[tb[c]] # None
    /\ \A r \in h.copy : rm[r] # None
    /\ h.r # None => rm[h.r] # None
    /\ k.r # None => rm[k.r] # None

ReferredExist(rm, rf) ==
    \A s \in Session : rf[s] # None => rm[rf[s]] # None /\ s \in alive

\* The threads' users exist, and no two users have one name.
UsersHeld(u, h, k) ==
    /\ h.s # None => h.s \in alive
    /\ k.s # None => k.s \in u
    /\ \A s, t \in u \cup ({h.s} \ {None}) : Name[s] = Name[t] => s = t

\* Nobody but its host is in a room that is being created.
OwnNew(rm, rf, h, k) ==
    h.pc \in {"insert", "enter"} =>
        /\ ~rm[h.r].closing
        /\ Listed(rm[h.r]) \subseteq {Name[h.s]}
        /\ k.r # h.r
        /\ \A s \in Session : rf[s] # h.r

\* A room is found by its own code; the cleaner forgets rooms that are closing.
CodesMatch(rm, tb, k) ==
    /\ \A c \in Code : tb[c] # None => rm[tb[c]].code = c
    /\ k.pc = "forget" => rm[k.r].closing

\* The properties of GameRooms, of given values.
Limited(rm) == \A r \in Room : rm[r] # None => Cardinality(Listed(rm[r])) <= MaxPlayer

OwnListed(rm, rf, u) ==
    \A s \in u : rf[s] # None => rm[rf[s]] # None /\ Name[s] \in Listed(rm[rf[s]])

Removes(r, h, k) ==
    \/ h.pc = "check" /\ h.r = r
    \/ k.pc \in {"check", "forget"} /\ k.r = r

Removed(rm, tb, h, k) ==
    \A c \in Code : (tb[c] # None /\ rm[tb[c]].closing) => Removes(tb[c], h, k)

Good(rm, rf, u, tb, h, k) ==
    /\ Typed(rm, rf, u, tb, h, k)
    /\ HeldExist(rm, tb, h, k)
    /\ ReferredExist(rm, rf)
    /\ UsersHeld(u, h, k)
    /\ OwnNew(rm, rf, h, k)
    /\ CodesMatch(rm, tb, k)
    /\ Limited(rm)
    /\ OwnListed(rm, rf, u)
    /\ Removed(rm, tb, h, k)

Inv ==
    /\ dead \subseteq user /\ alive \subseteq Session
    /\ fault \in {"none", "null_pointer", "end_iterator", "dangling", "race"}
    /\ Good(room, ref, user, table, hnd, cln)

-----------------------------------------------------------------------------
(* Beginnings: the first state, and the one after a fault.                 *)


LEMMA InvInit == Init => Inv
<1>. SUFFICES ASSUME Init PROVE Inv
  OBVIOUS
<1>1. hnd = HandlerIdle /\ hnd \in HandlerState /\ hnd.pc = "idle" /\ hnd.s = None
      /\ hnd.r = None /\ hnd.copy = {}
  BY DEF Init, HandlerIdle, HandlerState
<1>2. cln \in CleanerState /\ cln.pc = "sleep" /\ cln.s = None /\ cln.r = None
  BY DEF Init, Asleep, CleanerState
<1>3. Typed(room, ref, user, table, hnd, cln)
  BY <1>1, <1>2 DEF Init, Typed
<1>4. /\ HeldExist(room, table, hnd, cln) /\ ReferredExist(room, ref)
      /\ UsersHeld(user, hnd, cln) /\ OwnNew(room, ref, hnd, cln)
      /\ CodesMatch(room, table, cln) /\ Limited(room)
      /\ OwnListed(room, ref, user) /\ Removed(room, table, hnd, cln)
  BY <1>1, <1>2 DEF Init, HeldExist, ReferredExist, UsersHeld, OwnNew, CodesMatch, Limited,
     OwnListed, Removed
<1>5. QED BY <1>3, <1>4 DEF Init, Inv, Good

\* A process that is lost holds nothing.
LEMMA InvCrash ==
    ASSUME NEW why \in {"null_pointer", "end_iterator", "dangling", "race"}, Crash(why)
    PROVE  Inv'
<1>1. hnd' = HandlerIdle /\ hnd' \in HandlerState /\ hnd'.pc = "idle" /\ hnd'.s = None
      /\ hnd'.r = None /\ hnd'.copy = {}
  BY DEF Crash, HandlerIdle, HandlerState
<1>2. cln' \in CleanerState /\ cln'.pc = "sleep" /\ cln'.s = None /\ cln'.r = None
  BY DEF Crash, Asleep, CleanerState
<1>3. Typed(room, ref, user, table, hnd, cln)'
  BY <1>1, <1>2 DEF Crash, Typed
<1>4. /\ HeldExist(room, table, hnd, cln)' /\ ReferredExist(room, ref)'
      /\ UsersHeld(user, hnd, cln)' /\ OwnNew(room, ref, hnd, cln)'
      /\ CodesMatch(room, table, cln)' /\ Limited(room)'
      /\ OwnListed(room, ref, user)' /\ Removed(room, table, hnd, cln)'
  BY <1>1, <1>2 DEF Crash, HeldExist, ReferredExist, UsersHeld, OwnNew, CodesMatch, Limited,
     OwnListed, Removed
<1>5. QED BY <1>3, <1>4 DEF Crash, Inv, Good

-----------------------------------------------------------------------------
(* Settle keeps what it is given good.                                     *)

\* The threads' states have these components.
LEMMA HandlerFields ==
    ASSUME NEW h \in HandlerState
    PROVE  /\ h.s \in Session \cup {None} /\ h.r \in Room \cup {None} /\ h.copy \subseteq Room
           /\ h.pc \in {"insert", "enter", "created", "join", "leave", "check"} =>
                  h.s \in Session /\ h.r \in Room
           /\ h.pc \in {"idle", "insert", "enter", "created", "join", "leave", "check", "return"}
           /\ h.pc = "idle" => h = HandlerIdle
           /\ h.pc = "return" => h.s = None /\ h.r \in Room /\ h.copy = {}
BY DEF HandlerState, HandlerIdle

LEMMA CleanerFields ==
    ASSUME NEW k \in CleanerState
    PROVE  /\ k.s \in Session \cup {None} /\ k.r \in Room \cup {None}
           /\ k.snap \subseteq Session /\ k.todo \subseteq Session
           /\ k.pc \in {"sleep", "reap", "leave", "check", "forget", "erase"}
           /\ k.pc \in {"leave", "check", "forget"} => k.s \in Session /\ k.r \in Room
           /\ k.pc \in {"sleep", "reap"} => k.s = None /\ k.r = None
           /\ k.pc = "erase" => k.s \in Session
BY DEF CleanerState

\* A room does not stop to be one, or to list a name, when users are destroyed.
LEMMA WithoutUsersRoom ==
    ASSUME NEW rec \in GameRoom, NEW us \in SUBSET Session
    PROVE  /\ WithoutUsers(rec, us) \in GameRoom
           /\ WithoutUsers(rec, us) # None
           /\ WithoutUsers(rec, us).code = rec.code
           /\ WithoutUsers(rec, us).closing = rec.closing
           /\ Listed(WithoutUsers(rec, us)) = Listed(rec)
<1>. DEFINE new == WithoutUsers(rec, us)
<1>1. /\ rec.code \in Code /\ rec.closing \in BOOLEAN /\ rec.host \in Session \cup {None}
      /\ rec.players \in [Account -> Session \cup {None, Gone}]
  BY DEF GameRoom
<1>2. /\ new.code = rec.code /\ new.closing = rec.closing
      /\ new.host = IF rec.host \in us THEN None ELSE rec.host
      /\ new.players = [a \in Account |-> Expire(rec.players[a], us)]
      /\ new \in GameRoom
  BY <1>1 DEF WithoutUsers, GameRoom, Expire
<1>3. ASSUME NEW a \in Account
      PROVE  new.players[a] # None <=> rec.players[a] # None
  BY <1>1, <1>2, ObjectAssumption DEF Expire
<1>4. Listed(new) = Listed(rec)
  BY <1>3 DEF Listed
<1>5. QED BY <1>2, <1>4, RoomAssumption

\* What the objects, tables and threads are once Settle is done: the rooms that
\* end are held by nobody, so whoever reads a room still finds it as it was.
LEMMA SettleGood ==
    ASSUME dead \subseteq user, alive \subseteq Session,
           fault \in {"none", "null_pointer", "end_iterator", "dangling", "race"},
           NEW rm, NEW rf, NEW u, NEW tb, NEW h, NEW k,
           Good(rm, rf, u, tb, h, k),
           Settle(rm, rf, u, tb, h, k)
    PROVE  Inv'
<1>. DEFINE held == {tb[c] : c \in Code} \cup h.copy \cup {h.r, k.r}
            ends == {r \in Room : rm[r] # None /\ r \notin held}
            lists(r, p) == \E a \in Account : rm[r].players[a] = p
            reset == {s \in Session : rf[s] \in ends \/ \E r \in ends : lists(r, s)}
            die == alive \ (u \cup k.snap \cup {h.s})
            ended(r) == rm[r] = None \/ r \in ends
<1>1. CASE Crash("null_pointer")
  BY <1>1, InvCrash
<1>2. CASE ~Crash("null_pointer")
  <2>1. /\ hnd' = h /\ cln' = k /\ user' = u /\ table' = tb
        /\ room' = [r \in Room |-> IF ended(r) THEN None ELSE WithoutUsers(rm[r], die)]
        /\ ref' = [s \in Session |-> IF s \in reset \cup die THEN None ELSE rf[s]]
        /\ alive' = alive \ die /\ dead' = dead \cap u
        /\ fault' = fault
    BY <1>2 DEF Settle
  <2>. HIDE DEF ends, reset, die
  <2>2. Typed(rm, rf, u, tb, h, k)
    BY DEF Good
  <2>3. die \in SUBSET Session /\ u \cap die = {} /\ h.s \notin die
    BY DEF die
  <2>4. ASSUME NEW r \in Room, rm[r] # None
        PROVE  /\ rm[r] \in GameRoom
               /\ WithoutUsers(rm[r], die) \in GameRoom
               /\ WithoutUsers(rm[r], die) # None
               /\ WithoutUsers(rm[r], die).code = rm[r].code
               /\ WithoutUsers(rm[r], die).closing = rm[r].closing
               /\ Listed(WithoutUsers(rm[r], die)) = Listed(rm[r])
    <3>1. rm[r] \in GameRoom
      BY <2>2, <2>4 DEF Typed
    <3>2. QED BY <2>3, <3>1, WithoutUsersRoom
  <2>5. ASSUME NEW r \in Room, ~ended(r)
        PROVE  /\ room'[r] # None /\ room'[r] \in GameRoom /\ rm[r] # None
               /\ room'[r].code = rm[r].code
               /\ room'[r].closing = rm[r].closing
               /\ Listed(room'[r]) = Listed(rm[r])
    <3>1. room'[r] = WithoutUsers(rm[r], die)
      BY <2>1, <2>5
    <3>2. QED BY <2>4, <2>5, <3>1
  <2>6. \A r \in Room : ended(r) => room'[r] = None
    BY <2>1
  <2>7. \A r \in Room : r \in held /\ rm[r] # None => ~ended(r)
    BY DEF ends
  <2>8. ASSUME NEW s \in Session, ref'[s] # None
        PROVE  /\ ref'[s] = rf[s] /\ rf[s] \in Room /\ rm[rf[s]] # None
               /\ ~ended(rf[s]) /\ s \notin die /\ s \in alive
    <3>1. ref'[s] = rf[s] /\ s \notin reset /\ s \notin die
      BY <2>1, <2>8
    <3>2. rf[s] \notin ends
      BY <3>1 DEF reset
    <3>3. rf[s] \in Room
      BY <2>2, <2>8, <3>1 DEF Typed
    <3>4. rm[rf[s]] # None /\ s \in alive
      BY <2>8, <3>1 DEF Good, ReferredExist
    <3>5. QED BY <3>1, <3>2, <3>3, <3>4
  <2>9. Typed(room, ref, user, table, hnd, cln)'
    <3>1. room' \in [Room -> GameRoom \cup {None}]
      BY <2>1, <2>5, <2>6
    <3>2. ref' \in [Session -> Room \cup {None}]
      BY <2>1, <2>2 DEF Typed
    <3>3. QED BY <2>1, <2>2, <2>3, <3>1, <3>2 DEF Typed
  <2>10. HeldExist(room, table, hnd, cln)'
    <3>1. HeldExist(rm, tb, h, k)
      BY DEF Good
    <3>2. /\ \A c \in Code : tb[c] \in Room \cup {None}
          /\ h.copy \subseteq Room /\ h.r \in Room \cup {None} /\ k.r \in Room \cup {None}
      BY <2>2, HandlerFields, CleanerFields DEF Typed
    <3>3. QED BY <2>1, <2>5, <2>7, <3>1, <3>2 DEF HeldExist
  <2>11. ReferredExist(room, ref)'
    BY <2>1, <2>5, <2>8 DEF ReferredExist
  <2>12. UsersHeld(user, hnd, cln)'
    BY <2>1, <2>3 DEF Good, UsersHeld
  <2>13. OwnNew(room, ref, hnd, cln)'
    <3>1. SUFFICES ASSUME h.pc \in {"insert", "enter"}
                   PROVE  OwnNew(room, ref, hnd, cln)'
      BY <2>1 DEF OwnNew
    <3>2. h.r \in Room /\ rm[h.r] # None /\ h.r \in held
      BY <2>2, <3>1, HandlerFields, ObjectAssumption DEF Typed, Good, HeldExist
    <3>3. OwnNew(rm, rf, h, k)
      BY DEF Good
    <3>4. \A s \in Session : ref'[s] # h.r
      BY <2>8, <3>1, <3>2, <3>3, ObjectAssumption DEF OwnNew
    <3>5. QED BY <2>1, <2>5, <2>7, <3>1, <3>2, <3>3, <3>4 DEF OwnNew
  <2>14. CodesMatch(room, table, cln)'
    <3>1. CodesMatch(rm, tb, k) /\ HeldExist(rm, tb, h, k)
      BY DEF Good
    <3>2. ASSUME NEW c \in Code, tb[c] # None
          PROVE  room'[tb[c]].code = c
      BY <2>2, <2>5, <2>7, <3>1, <3>2 DEF Typed, CodesMatch, HeldExist
    <3>3. ASSUME k.pc = "forget"
          PROVE  room'[k.r].closing
      <4>1. k.r \in Room
        BY <2>2, <3>3, CleanerFields DEF Typed
      <4>2. rm[k.r] # None
        BY <3>1, <4>1, ObjectAssumption DEF HeldExist
      <4>3. QED BY <2>5, <2>7, <3>1, <3>3, <4>1, <4>2 DEF CodesMatch
    <3>4. QED BY <2>1, <3>2, <3>3 DEF CodesMatch
  <2>15. Limited(room)'
    BY <2>5, <2>6 DEF Good, Limited
  <2>16. OwnListed(room, ref, user)'
    <3>1. ASSUME NEW s \in u, ref'[s] # None
          PROVE  room'[ref'[s]] # None /\ Name[s] \in Listed(room'[ref'[s]])
      <4>1. s \in Session
        BY <2>2 DEF Typed
      <4>2. /\ ref'[s] = rf[s] /\ rf[s] \in Room /\ rm[rf[s]] # None /\ ~ended(rf[s])
        BY <2>8, <3>1, <4>1
      <4>3. Name[s] \in Listed(rm[rf[s]])
        BY <3>1, <4>2 DEF Good, OwnListed
      <4>4. QED BY <2>5, <4>2, <4>3
    <3>2. QED BY <2>1, <3>1 DEF OwnListed
  <2>17. Removed(room, table, hnd, cln)'
    <3>1. Removed(rm, tb, h, k) /\ HeldExist(rm, tb, h, k)
      BY DEF Good
    <3>2. ASSUME NEW c \in Code, tb[c] # None
          PROVE  room'[tb[c]].closing = rm[tb[c]].closing
      BY <2>2, <2>5, <2>7, <3>1, <3>2 DEF Typed, HeldExist
    <3>3. QED BY <2>1, <3>1, <3>2 DEF Removed, Removes
  <2>18. alive' \subseteq Session /\ dead' \subseteq user'
    BY <2>1
  <2>19. QED BY <2>1, <2>9, <2>10, <2>11, <2>12, <2>13, <2>14, <2>15, <2>16, <2>17, <2>18
         DEF Inv, Good
<1>3. QED BY <1>1, <1>2

\* Values that are good make a good next state if the users stay.
LEMMA SameGood ==
    ASSUME NEW rm, NEW rf, NEW u, NEW tb, NEW h, NEW k,
           Good(rm, rf, u, tb, h, k),
           room' = rm, ref' = rf, user' = u, table' = tb, hnd' = h, cln' = k,
           UNCHANGED alive
    PROVE  Good(room, ref, user, table, hnd, cln)'
BY DEF Good, Typed, HeldExist, ReferredExist, UsersHeld, OwnNew, CodesMatch, Limited,
   OwnListed, Removed, Removes

-----------------------------------------------------------------------------
(* What Enter and Quit do to the rooms.                                    *)

LEMMA ListedFinite ==
    ASSUME NEW rec
    PROVE  /\ Listed(rec) \subseteq Account /\ IsFiniteSet(Listed(rec))
           /\ Cardinality(Listed(rec)) \in Nat
<1>1. Listed(rec) \subseteq Account
  BY DEF Listed
<1>2. QED BY <1>1, AccountAssumption, FS_Subset, FS_CardinalityType

\* Entering adds the user's name to one room, if it is not there.
LEMMA InsertedRooms ==
    ASSUME room \in [Room -> GameRoom \cup {None}],
           NEW r \in Room, room[r] # None, NEW s \in Session
    PROVE  /\ Inserted(r, s) \in [Room -> GameRoom \cup {None}]
           /\ \A q \in Room \ {r} : Inserted(r, s)[q] = room[q]
           /\ Inserted(r, s)[r] # None
           /\ Inserted(r, s)[r].code = room[r].code
           /\ Inserted(r, s)[r].closing = room[r].closing
           /\ Listed(Inserted(r, s)[r]) = Listed(room[r]) \cup {Name[s]}
<1>. DEFINE a == Name[s]
            new == Inserted(r, s)[r]
<1>1. /\ room[r] \in GameRoom /\ a \in Account
      /\ room[r].players \in [Account -> Session \cup {None, Gone}]
  BY AccountAssumption DEF GameRoom
<1>2. /\ new = [room[r] EXCEPT !.players[a] = IF @ = None THEN s ELSE @]
      /\ \A q \in Room \ {r} : Inserted(r, s)[q] = room[q]
      /\ Inserted(r, s) = [room EXCEPT ![r] = new]
  BY DEF Inserted
<1>3. new.players = [room[r].players EXCEPT ![a] = IF @ = None THEN s ELSE @]
  BY <1>1, <1>2 DEF GameRoom
<1>4. new.code = room[r].code /\ new.closing = room[r].closing /\ new \in GameRoom
  BY <1>1, <1>2 DEF GameRoom
<1>5. s # None
  BY ObjectAssumption
<1>6. Listed(new) = Listed(room[r]) \cup {a}
  BY <1>1, <1>3, <1>5 DEF Listed
<1>7. QED BY <1>2, <1>4, <1>6, RoomAssumption

\* Leaving closes the room, for the host, or else takes the user's name away.
LEMMA LeftRooms ==
    ASSUME room \in [Room -> GameRoom \cup {None}],
           NEW r \in Room, room[r] # None, NEW s \in Session
    PROVE  /\ Left(r, s) \in [Room -> GameRoom \cup {None}]
           /\ \A q \in Room \ {r} : Left(r, s)[q] = room[q]
           /\ Left(r, s)[r] # None
           /\ Left(r, s)[r].code = room[r].code
           /\ room[r].closing => Left(r, s)[r].closing
           /\ Listed(Left(r, s)[r]) \subseteq Listed(room[r])
           /\ Listed(room[r]) \subseteq Listed(Left(r, s)[r]) \cup {Name[s]}
<1>. DEFINE new == Left(r, s)[r]
<1>1. /\ room[r] \in GameRoom /\ Name[s] \in Account
      /\ room[r].players \in [Account -> Session \cup {None, Gone}]
  BY AccountAssumption DEF GameRoom
<1>2. CASE room[r].host = s
  <2>1. Left(r, s) = [room EXCEPT ![r].closing = TRUE]
    BY <1>2 DEF Left
  <2>2. new = [room[r] EXCEPT !.closing = TRUE] /\ Left(r, s) = [room EXCEPT ![r] = new]
    BY <2>1
  <2>3. new \in GameRoom /\ new.code = room[r].code /\ new.closing /\ new.players = room[r].players
    BY <1>1, <2>2 DEF GameRoom
  <2>4. Listed(new) = Listed(room[r])
    BY <2>3 DEF Listed
  <2>5. QED BY <2>2, <2>3, <2>4, RoomAssumption
<1>3. CASE room[r].host # s
  <2>1. Left(r, s) = [room EXCEPT ![r].players[Name[s]] = None]
    BY <1>3 DEF Left
  <2>2. /\ new = [room[r] EXCEPT !.players[Name[s]] = None]
        /\ Left(r, s) = [room EXCEPT ![r] = new]
    BY <2>1
  <2>3. /\ new \in GameRoom /\ new.code = room[r].code /\ new.closing = room[r].closing
        /\ new.players = [room[r].players EXCEPT ![Name[s]] = None]
    BY <1>1, <2>2 DEF GameRoom
  <2>4. /\ Listed(new) \subseteq Listed(room[r])
        /\ Listed(room[r]) \subseteq Listed(new) \cup {Name[s]}
    BY <1>1, <2>3 DEF Listed
  <2>5. QED BY <2>2, <2>3, <2>4, RoomAssumption
<1>4. QED BY <1>2, <1>3

-----------------------------------------------------------------------------
(* Clients, logins and logouts.                                            *)

LEMMA InvDie ==
    ASSUME Inv, NEW s \in Session, Die(s)
    PROVE  Inv'
BY DEF Die, Inv, Good, Typed, HeldExist, ReferredExist, UsersHeld, OwnNew, CodesMatch,
   Limited, OwnListed, Removed, Removes

\* The new user refers to no room: only users that exist do.
LEMMA InvLogin ==
    ASSUME Inv, NEW s \in Session, Login(s)
    PROVE  Inv'
<1>1. /\ hnd = HandlerIdle /\ hnd.s = None /\ ref[s] = None
      /\ user' = user \cup {s} /\ alive' = alive \cup {s}
      /\ UNCHANGED <<dead, ref, room, table, hnd, cln, fault>>
  BY DEF Login, HandlerIdle, Inv, Good, ReferredExist
<1>2. Typed(room, ref, user, table, hnd, cln)' /\ alive' \subseteq Session
  BY <1>1 DEF Inv, Good, Typed
<1>3. UsersHeld(user, hnd, cln)'
  BY <1>1 DEF Login, Inv, Good, UsersHeld
<1>4. OwnListed(room, ref, user)' /\ ReferredExist(room, ref)'
  BY <1>1 DEF Inv, Good, OwnListed, ReferredExist
<1>5. /\ HeldExist(room, table, hnd, cln)' /\ OwnNew(room, ref, hnd, cln)'
      /\ CodesMatch(room, table, cln)' /\ Limited(room)' /\ Removed(room, table, hnd, cln)'
  BY <1>1 DEF Inv, Good, HeldExist, OwnNew, CodesMatch, Limited, Removed, Removes
<1>6. QED BY <1>1, <1>2, <1>3, <1>4, <1>5 DEF Inv, Good

LEMMA InvLogout ==
    ASSUME Inv, NEW s \in Session, Logout(s)
    PROVE  Inv'
<1>1. cln.s = None
  BY CleanerFields DEF Logout, LockFree, Inv, Good, Typed
<1>2. Good(room, ref, user \ {s}, table, hnd, cln)
  BY <1>1 DEF Inv, Good, Typed, UsersHeld, OwnListed
<1>3. QED BY <1>2, SettleGood DEF Logout, Inv

-----------------------------------------------------------------------------
(* Creating a room.                                                        *)

\* The new room's identity was held and referred to by nobody.
LEMMA InvCreateGameRoom ==
    ASSUME Inv, NEW s \in Session, CreateGameRoom(s)
    PROVE  Inv'
<1>1. PICK r \in Room, c \in Code :
        /\ room[r] = None /\ table[c] = None
        /\ room' = [room EXCEPT ![r] =
             [code |-> c, closing |-> FALSE, host |-> s,
              players |-> [a \in Account |-> IF a = Name[s] THEN s ELSE None]]]
        /\ hnd' = [pc |-> "insert", s |-> s, r |-> r, copy |-> {table[d] : d \in Code} \ {None}]
  BY DEF CreateGameRoom
<1>2. s \in user /\ hnd = HandlerIdle /\ UNCHANGED <<user, alive, dead, ref, table, cln, fault>>
  BY DEF CreateGameRoom, Request
<1>3. Typed(room, ref, user, table, hnd, cln)
  BY DEF Inv, Good
<1>4. /\ room'[r] \in GameRoom /\ room'[r] # None /\ ~room'[r].closing
      /\ Listed(room'[r]) = {Name[s]}
      /\ \A q \in Room \ {r} : room'[q] = room[q]
      /\ room' \in [Room -> GameRoom \cup {None}]
  <2>. DEFINE new == [code |-> c, closing |-> FALSE, host |-> s,
                      players |-> [a \in Account |-> IF a = Name[s] THEN s ELSE None]]
  <2>1. new \in GameRoom /\ ~new.closing
    BY DEF GameRoom
  <2>2. Listed(new) = {Name[s]}
    <3>1. Name[s] \in Account /\ s # None
      BY AccountAssumption, ObjectAssumption
    <3>2. QED BY <3>1 DEF Listed
  <2>3. room'[r] = new /\ \A q \in Room \ {r} : room'[q] = room[q]
    BY <1>1, <1>3 DEF Typed
  <2>4. room' \in [Room -> GameRoom \cup {None}]
    BY <1>1, <1>3, <2>1 DEF Typed
  <2>. HIDE DEF new
  <2>5. QED BY <2>1, <2>2, <2>3, <2>4, RoomAssumption
<1>5. /\ \A q \in Room : room[q] # None => q # r
      /\ \A t \in Session : ref[t] # None => ref[t] # r
      /\ cln.r # r
  BY <1>1, <1>3, ObjectAssumption DEF Inv, Good, ReferredExist, HeldExist
<1>6. Typed(room, ref, user, table, hnd, cln)'
  <2>1. hnd' \in HandlerState
    BY <1>1, <1>3 DEF HandlerState, Typed
  <2>2. QED BY <1>2, <1>3, <1>4, <2>1 DEF Typed
<1>7. HeldExist(room, table, hnd, cln)'
  <2>1. \A q \in Room : room[q] # None => room'[q] # None
    BY <1>4, <1>5
  <2>2. /\ \A d \in Code : table[d] \in Room \cup {None}
        /\ cln.r \in Room \cup {None}
    BY <1>3, CleanerFields DEF Typed
  <2>3. \A q \in hnd'.copy : room'[q] # None
    BY <1>1, <2>1, <2>2 DEF Inv, Good, HeldExist
  <2>4. QED BY <1>1, <1>2, <1>4, <2>1, <2>2, <2>3 DEF Inv, Good, HeldExist
<1>8. ReferredExist(room, ref)'
  BY <1>2, <1>3, <1>4, <1>5 DEF Inv, Good, ReferredExist, Typed
<1>9. UsersHeld(user, hnd, cln)'
  BY <1>1, <1>2, <1>3 DEF Inv, Good, UsersHeld, Typed
<1>10. OwnNew(room, ref, hnd, cln)'
  BY <1>1, <1>2, <1>4, <1>5, ObjectAssumption DEF OwnNew
<1>11. CodesMatch(room, table, cln)'
  BY <1>2, <1>3, <1>4, <1>5, CleanerFields, ObjectAssumption
     DEF Inv, Good, CodesMatch, HeldExist, Typed
<1>12. Limited(room)'
  <2>1. Cardinality(Listed(room'[r])) = 1
    BY <1>4, FS_Singleton
  <2>2. QED BY <1>4, <2>1, LimitAssumption DEF Inv, Good, Limited
<1>13. OwnListed(room, ref, user)'
  BY <1>2, <1>3, <1>4, <1>5 DEF Inv, Good, OwnListed, Typed
<1>14. Removed(room, table, hnd, cln)'
  BY <1>1, <1>2, <1>3, <1>4, <1>5
     DEF Inv, Good, Removed, Removes, HeldExist, Typed, HandlerIdle
<1>15. QED BY <1>2, <1>6, <1>7, <1>8, <1>9, <1>10, <1>11, <1>12, <1>13, <1>14 DEF Inv, Good

\* The room that is entered in the table is not closing.
LEMMA InvInsertRoom ==
    ASSUME Inv, InsertRoom
    PROVE  Inv'
<1>1. /\ table' = [table EXCEPT ![room[hnd.r].code] = IF @ = None THEN hnd.r ELSE @]
      /\ hnd' = [hnd EXCEPT !.pc = "enter"] /\ hnd.pc = "insert"
      /\ UNCHANGED <<user, alive, dead, ref, room, cln, fault>>
  BY DEF InsertRoom, Objects
<1>2. Typed(room, ref, user, table, hnd, cln)
  BY DEF Inv, Good
<1>3. /\ hnd.r \in Room /\ hnd.s \in Session /\ room[hnd.r] # None
      /\ room[hnd.r].code \in Code /\ hnd.copy \subseteq Room
  <2>1. hnd.r \in Room /\ hnd.s \in Session /\ hnd.copy \subseteq Room
    BY <1>1, <1>2, HandlerFields DEF Typed
  <2>2. room[hnd.r] # None
    BY <2>1, ObjectAssumption DEF Inv, Good, HeldExist
  <2>3. QED BY <1>2, <2>1, <2>2 DEF Typed, GameRoom
<1>4. /\ hnd'.pc = "enter" /\ hnd'.s = hnd.s /\ hnd'.r = hnd.r /\ hnd'.copy = hnd.copy
      /\ hnd' \in HandlerState
  BY <1>1, <1>2 DEF Typed, HandlerState, HandlerIdle
<1>5. /\ table' \in [Code -> Room \cup {None}]
      /\ \A c \in Code : table'[c] # None =>
           table'[c] = table[c] \/ (table'[c] = hnd.r /\ c = room[hnd.r].code)
  <2>. DEFINE d == room[hnd.r].code
              x == IF table[d] = None THEN hnd.r ELSE table[d]
  <2>1. table' = [table EXCEPT ![d] = x]
    BY <1>1
  <2>2. /\ d \in Code /\ d = room[hnd.r].code
        /\ x \in Room \cup {None} /\ (x = hnd.r \/ x = table[d])
    BY <1>2, <1>3 DEF Typed
  <2>. HIDE DEF d, x
  <2>3. /\ table' \in [Code -> Room \cup {None}]
        /\ \A c \in Code : table'[c] = table[c] \/ (table'[c] = x /\ c = d)
    BY <1>2, <2>1, <2>2 DEF Typed
  <2>4. ASSUME NEW c \in Code, table'[c] # table[c]
        PROVE  table'[c] = hnd.r /\ c = room[hnd.r].code
    BY <2>2, <2>3, <2>4
  <2>5. QED BY <2>3, <2>4
<1>6. Typed(room, ref, user, table, hnd, cln)'
  BY <1>1, <1>2, <1>4, <1>5 DEF Typed
<1>7. HeldExist(room, table, hnd, cln)' /\ ReferredExist(room, ref)'
  BY <1>1, <1>3, <1>4, <1>5 DEF Inv, Good, HeldExist, ReferredExist
<1>8. UsersHeld(user, hnd, cln)' /\ OwnNew(room, ref, hnd, cln)'
  BY <1>1, <1>4 DEF Inv, Good, UsersHeld, OwnNew
<1>9. CodesMatch(room, table, cln)' /\ Limited(room)' /\ OwnListed(room, ref, user)'
  BY <1>1, <1>5 DEF Inv, Good, CodesMatch, Limited, OwnListed
<1>10. Removed(room, table, hnd, cln)'
  BY <1>1, <1>4, <1>5 DEF Inv, Good, Removed, Removes, OwnNew
<1>11. QED BY <1>1, <1>6, <1>7, <1>8, <1>9, <1>10 DEF Inv, Good

\* Who enters is listed by the room it refers to from then on, and the limit is
\* kept if it is kept with that name; h is the handler's next state.
LEMMA EnterGood ==
    ASSUME Inv, hnd.pc \in {"enter", "join"}, NEW h \in HandlerState,
           h.pc \notin {"insert", "enter"}, h.s \in {None, hnd.s}, h.r \in {None, hnd.r},
           h.copy \subseteq hnd.copy,
           Cardinality(Listed(room[hnd.r]) \cup {Name[hnd.s]}) <= MaxPlayer
    PROVE  Good(Inserted(hnd.r, hnd.s), Referring(hnd.r, hnd.s), user, table, h, cln)
<1>. DEFINE rm == Inserted(hnd.r, hnd.s)
            rf == Referring(hnd.r, hnd.s)
<1>1. Typed(room, ref, user, table, hnd, cln)
  BY DEF Inv, Good
<1>2. /\ hnd.r \in Room /\ hnd.s \in Session /\ hnd.copy \subseteq Room /\ hnd.s \in alive
      /\ hnd.r # None /\ hnd.s # None /\ room[hnd.r] # None
  <2>1. hnd.r \in Room /\ hnd.s \in Session /\ hnd.copy \subseteq Room
    BY <1>1, HandlerFields DEF Typed
  <2>2. QED BY <2>1, ObjectAssumption DEF Inv, Good, HeldExist, UsersHeld
<1>3. /\ rm \in [Room -> GameRoom \cup {None}]
      /\ \A q \in Room \ {hnd.r} : rm[q] = room[q]
      /\ rm[hnd.r] # None /\ rm[hnd.r].code = room[hnd.r].code
      /\ rm[hnd.r].closing = room[hnd.r].closing
      /\ Listed(rm[hnd.r]) = Listed(room[hnd.r]) \cup {Name[hnd.s]}
  BY <1>1, <1>2, InsertedRooms DEF Typed
<1>4. /\ rf \in [Session -> Room \cup {None}] /\ rf[hnd.s] = hnd.r
      /\ \A s \in Session \ {hnd.s} : rf[s] = ref[s]
  BY <1>1, <1>2 DEF Referring, Typed
<1>. HIDE DEF rm, rf
<1>5. \A q \in Room : room[q] # None => /\ rm[q] # None
                                         /\ rm[q].code = room[q].code
                                         /\ rm[q].closing = room[q].closing
  BY <1>3
<1>6. /\ \A d \in Code : table[d] \in Room \cup {None}
      /\ cln.r \in Room \cup {None}
  BY <1>1, CleanerFields DEF Typed
<1>7. Typed(rm, rf, user, table, h, cln)
  BY <1>1, <1>3, <1>4 DEF Typed
<1>8. HeldExist(rm, table, h, cln) /\ ReferredExist(rm, rf)
  BY <1>1, <1>2, <1>3, <1>4, <1>5, <1>6 DEF Inv, Good, HeldExist, ReferredExist, Typed
<1>9. UsersHeld(user, h, cln) /\ OwnNew(rm, rf, h, cln)
  BY DEF Inv, Good, UsersHeld, OwnNew
<1>10. CodesMatch(rm, table, cln)
  <2>1. cln.pc = "forget" => cln.r \in Room /\ cln.r # None
    BY <1>1, CleanerFields, ObjectAssumption DEF Typed
  <2>2. QED BY <1>5, <1>6, <2>1 DEF Inv, Good, HeldExist, CodesMatch
<1>11. Removed(rm, table, h, cln)
  BY <1>5, <1>6 DEF Inv, Good, HeldExist, Removed, Removes
<1>12. Limited(rm)
  BY <1>3 DEF Inv, Good, Limited
<1>13. OwnListed(rm, rf, user)
  <2>1. ASSUME NEW s \in user, rf[s] # None
        PROVE  rm[rf[s]] # None /\ Name[s] \in Listed(rm[rf[s]])
    <3>1. CASE s = hnd.s
      BY <1>3, <1>4, <3>1
    <3>2. CASE s # hnd.s
      <4>1. rf[s] = ref[s] /\ ref[s] \in Room
        BY <1>1, <1>4, <2>1, <3>2 DEF Typed, Inv
      <4>2. room[ref[s]] # None /\ Name[s] \in Listed(room[ref[s]])
        BY <2>1, <4>1 DEF Inv, Good, OwnListed
      <4>3. QED BY <1>3, <4>1, <4>2
    <3>3. QED BY <3>1, <3>2
  <2>2. QED BY <2>1 DEF OwnListed
<1>14. Good(rm, rf, user, table, h, cln)
  BY <1>7, <1>8, <1>9, <1>10, <1>11, <1>12, <1>13 DEF Good
<1>15. QED BY <1>14 DEF rm, rf

\* The host is the only one the new room lists.
LEMMA InvHostEnters ==
    ASSUME Inv, HostEnters
    PROVE  Inv'
<1>1. /\ hnd.pc = "enter" /\ room' = Inserted(hnd.r, hnd.s) /\ ref' = Referring(hnd.r, hnd.s)
      /\ hnd' = [hnd EXCEPT !.pc = "created"]
      /\ UNCHANGED <<user, alive, dead, table, cln, fault>>
  BY DEF HostEnters
<1>2. /\ hnd'.pc = "created" /\ hnd'.s = hnd.s /\ hnd'.r = hnd.r /\ hnd'.copy = hnd.copy
      /\ hnd' \in HandlerState
  BY <1>1 DEF Inv, Good, Typed, HandlerState, HandlerIdle
<1>3. Cardinality(Listed(room[hnd.r]) \cup {Name[hnd.s]}) <= MaxPlayer
  <2>1. Listed(room[hnd.r]) \cup {Name[hnd.s]} = {Name[hnd.s]}
    BY <1>1 DEF Inv, Good, OwnNew
  <2>2. Cardinality({Name[hnd.s]}) = 1
    BY FS_Singleton
  <2>3. QED BY <2>1, <2>2, LimitAssumption
<1>4. Good(Inserted(hnd.r, hnd.s), Referring(hnd.r, hnd.s), user, table, hnd', cln)
  BY <1>1, <1>2, <1>3, EnterGood
<1>5. QED BY <1>1, <1>4, SameGood DEF Inv

LEMMA InvCreated ==
    ASSUME Inv, Created \/ CreateAnswered
    PROVE  Inv'
<1>1. Typed(room, ref, user, table, hnd, cln) /\ dead \subseteq user /\ alive \subseteq Session
      /\ fault \in {"none", "null_pointer", "end_iterator", "dangling", "race"}
  BY DEF Inv, Good
<1>2. CASE Created
  <2>. DEFINE h == [pc |-> "return", s |-> None, r |-> hnd.r, copy |-> {}]
  <2>0. /\ hnd.pc = "created"
        /\ hnd \in [pc : {"insert", "enter", "created", "join", "leave", "check"},
                   s : Session, r : Room, copy : SUBSET Room]
    BY <1>1, <1>2 DEF Created, Typed, HandlerState, HandlerIdle
  <2>1. /\ h \in HandlerState /\ h.pc = "return" /\ h.s = None /\ h.copy = {} /\ h.r = hnd.r
    BY <2>0 DEF HandlerState
  <2>. HIDE DEF h
  <2>2. Good(room, ref, user, table, h, cln)
    BY <2>0, <2>1 DEF Inv, Good, Typed, HeldExist, UsersHeld, OwnNew, Removed, Removes
  <2>3. Settle(room, ref, user, table, h, cln)
    BY <1>2 DEF Created, h
  <2>4. QED BY <1>1, <2>2, <2>3, SettleGood
<1>3. CASE CreateAnswered
  <2>1. /\ HandlerIdle \in HandlerState /\ HandlerIdle.pc = "idle" /\ HandlerIdle.s = None
        /\ HandlerIdle.r = None /\ HandlerIdle.copy = {} /\ hnd.pc = "return"
    BY <1>3 DEF CreateAnswered, HandlerIdle, HandlerState
  <2>2. Good(room, ref, user, table, HandlerIdle, cln)
    BY <2>1 DEF Inv, Good, Typed, HeldExist, UsersHeld, OwnNew, Removed, Removes
  <2>3. QED BY <1>1, <1>3, <2>2, SettleGood DEF CreateAnswered
<1>4. QED BY <1>2, <1>3

-----------------------------------------------------------------------------
(* Joining a room.                                                         *)

LEMMA InvJoinGameRoom ==
    ASSUME Inv, NEW s \in Session, JoinGameRoom(s)
    PROVE  Inv'
<1>1. PICK c \in Code :
        /\ table[c] # None
        /\ hnd' = [pc |-> "join", s |-> s, r |-> table[c], copy |-> {}]
  BY DEF JoinGameRoom
<1>2. /\ hnd = HandlerIdle /\ hnd.pc = "idle" /\ hnd.s = None /\ s \in user
      /\ UNCHANGED <<user, alive, dead, ref, room, table, cln, fault>>
  BY DEF JoinGameRoom, Request, Objects, HandlerIdle
<1>3. hnd' \in HandlerState
  BY <1>1 DEF HandlerState, Inv, Good, Typed
<1>4. Good(room, ref, user, table, hnd', cln)
  BY <1>1, <1>2, <1>3
     DEF Inv, Good, Typed, HeldExist, UsersHeld, OwnNew, Removed, Removes
<1>5. QED BY <1>2, <1>4, SameGood DEF Inv

LEMMA IdleFields ==
    /\ HandlerIdle \in HandlerState /\ HandlerIdle.pc = "idle" /\ HandlerIdle.s = None
    /\ HandlerIdle.r = None /\ HandlerIdle.copy = {}
BY DEF HandlerIdle, HandlerState

\* A room that is not full has a place for one more name.
LEMMA InvPlayerEnters ==
    ASSUME Inv, PlayerEnters
    PROVE  Inv'
<1>1. Cardinality(Listed(room[hnd.r]) \cup {Name[hnd.s]}) <= MaxPlayer
  <2>. DEFINE names == Listed(room[hnd.r])
  <2>1. IsFiniteSet(names) /\ Cardinality(names) \in Nat
    BY ListedFinite
  <2>2. ~(Cardinality(names) >= MaxPlayer)
    BY DEF PlayerEnters, Full
  <2>3. Cardinality(names \cup {Name[hnd.s]}) <= Cardinality(names) + 1
    BY <2>1, FS_AddElement
  <2>4. Cardinality(names \cup {Name[hnd.s]}) \in Nat
    BY <2>1, FS_AddElement, FS_CardinalityType
  <2>5. QED BY <2>1, <2>2, <2>3, <2>4, LimitAssumption
<1>2. Good(Inserted(hnd.r, hnd.s), Referring(hnd.r, hnd.s), user, table, HandlerIdle, cln)
  BY <1>1, IdleFields, EnterGood DEF PlayerEnters
<1>3. QED BY <1>2, SettleGood DEF PlayerEnters, Inv

LEMMA InvRoomIsFull ==
    ASSUME Inv, RoomIsFull
    PROVE  Inv'
<1>1. Good(room, ref, user, table, HandlerIdle, cln)
  BY IdleFields
     DEF RoomIsFull, Inv, Good, Typed, HeldExist, UsersHeld, OwnNew, Removed, Removes
<1>2. QED BY <1>1, SettleGood DEF RoomIsFull, Inv

-----------------------------------------------------------------------------
(* Leaving a room, by its player or for a player that is dead.             *)

\* Nobody else loses its place: no other user has the name, and the room is not
\* new.  Whoever closes the room goes on to remove it (h, k).
LEMMA QuitGood ==
    ASSUME Inv, NEW r \in Room, NEW s \in Session, room[r] # None,
           s \in user \cup {hnd.s}, hnd.pc \in {"insert", "enter"} => r # hnd.r,
           NEW h \in HandlerState, h.s = hnd.s, h.r = hnd.r, h.copy = hnd.copy,
           h.pc = hnd.pc \/ h.pc \notin {"insert", "enter"},
           NEW k \in CleanerState, k.s = cln.s, k.r = cln.r, k.pc = "forget" => k = cln,
           Removes(r, h, k),
           \A q \in Room : Removes(q, hnd, cln) => Removes(q, h, k)
    PROVE  Good(Left(r, s), [ref EXCEPT ![s] = None], user, table, h, k)
<1>. DEFINE rm == Left(r, s)
            rf == [ref EXCEPT ![s] = None]
<1>1. Typed(room, ref, user, table, hnd, cln)
  BY DEF Inv, Good
<1>2. /\ rm \in [Room -> GameRoom \cup {None}]
      /\ \A q \in Room \ {r} : rm[q] = room[q]
      /\ rm[r] # None /\ rm[r].code = room[r].code
      /\ (room[r].closing => rm[r].closing)
      /\ Listed(rm[r]) \subseteq Listed(room[r])
      /\ Listed(room[r]) \subseteq Listed(rm[r]) \cup {Name[s]}
  BY <1>1, LeftRooms DEF Typed
<1>3. /\ rf \in [Session -> Room \cup {None}] /\ rf[s] = None
      /\ \A t \in Session \ {s} : rf[t] = ref[t]
  BY <1>1 DEF Typed
<1>. HIDE DEF rm, rf
<1>4. /\ \A d \in Code : table[d] \in Room \cup {None}
      /\ cln.r \in Room \cup {None} /\ hnd.r \in Room \cup {None} /\ hnd.copy \subseteq Room
  BY <1>1, CleanerFields, HandlerFields DEF Typed
<1>5. \A q \in Room : room[q] # None => /\ rm[q] # None
                                         /\ rm[q].code = room[q].code
                                         /\ (room[q].closing => rm[q].closing)
  BY <1>2
<1>6. Typed(rm, rf, user, table, h, k)
  BY <1>1, <1>2, <1>3 DEF Typed
<1>7. HeldExist(rm, table, h, k) /\ ReferredExist(rm, rf)
  <2>1. HeldExist(rm, table, h, k)
    BY <1>4, <1>5 DEF Inv, Good, HeldExist
  <2>2. ASSUME NEW t \in Session, rf[t] # None
        PROVE  rm[rf[t]] # None /\ t \in alive
    <3>1. rf[t] = ref[t] /\ ref[t] \in Room
      BY <1>1, <1>3, <2>2 DEF Typed
    <3>2. QED BY <1>5, <2>2, <3>1 DEF Inv, Good, ReferredExist
  <2>3. QED BY <2>1, <2>2 DEF ReferredExist
<1>8. UsersHeld(user, h, k)
  BY DEF Inv, Good, UsersHeld
<1>9. OwnNew(rm, rf, h, k)
  <2>1. SUFFICES ASSUME h.pc \in {"insert", "enter"} PROVE OwnNew(rm, rf, h, k)
    BY DEF OwnNew
  <2>2. OwnNew(room, ref, hnd, cln) /\ hnd.pc \in {"insert", "enter"} /\ hnd.r \in Room
    BY <1>1, <2>1, HandlerFields DEF Inv, Good, Typed
  <2>3. rm[hnd.r] = room[hnd.r] /\ hnd.r # None
    BY <1>2, <2>2, ObjectAssumption
  <2>4. QED BY <1>3, <2>2, <2>3 DEF OwnNew
<1>10. CodesMatch(rm, table, k)
  <2>1. CodesMatch(room, table, cln) /\ HeldExist(room, table, hnd, cln)
    BY DEF Inv, Good
  <2>2. ASSUME k.pc = "forget"
        PROVE  rm[k.r].closing
    <3>1. cln.pc = "forget" /\ k.r = cln.r /\ cln.r \in Room /\ cln.r # None
      BY <1>1, <2>2, CleanerFields, ObjectAssumption DEF Typed
    <3>2. QED BY <1>5, <2>1, <3>1 DEF HeldExist, CodesMatch
  <2>3. QED BY <1>4, <1>5, <2>1, <2>2 DEF HeldExist, CodesMatch
<1>11. Removed(rm, table, h, k)
  <2>1. ASSUME NEW c \in Code, table[c] # None, rm[table[c]].closing
        PROVE  Removes(table[c], h, k)
    <3>1. CASE table[c] = r
      BY <3>1
    <3>2. CASE table[c] # r
      BY <1>2, <1>4, <2>1, <3>2 DEF Inv, Good, Removed
    <3>3. QED BY <3>1, <3>2
  <2>2. QED BY <2>1 DEF Removed
<1>12. Limited(rm)
  <2>1. Cardinality(Listed(rm[r])) <= Cardinality(Listed(room[r]))
    BY <1>2, ListedFinite, FS_Subset
  <2>2. /\ Cardinality(Listed(room[r])) <= MaxPlayer
        /\ Cardinality(Listed(rm[r])) \in Nat /\ Cardinality(Listed(room[r])) \in Nat
    BY ListedFinite DEF Inv, Good, Limited
  <2>3. QED BY <1>2, <2>1, <2>2, LimitAssumption DEF Inv, Good, Limited
<1>13. OwnListed(rm, rf, user)
  <2>1. ASSUME NEW t \in user, rf[t] # None
        PROVE  rm[rf[t]] # None /\ Name[t] \in Listed(rm[rf[t]])
    <3>1. t \in Session /\ t # s /\ rf[t] = ref[t] /\ ref[t] \in Room
      BY <1>1, <1>3, <2>1 DEF Inv, Typed
    <3>2. Name[t] # Name[s]
      BY <3>1, ObjectAssumption DEF Inv, Good, UsersHeld
    <3>3. room[ref[t]] # None /\ Name[t] \in Listed(room[ref[t]])
      BY <2>1, <3>1 DEF Inv, Good, OwnListed
    <3>4. QED BY <1>2, <3>1, <3>2, <3>3
  <2>2. QED BY <2>1 DEF OwnListed
<1>14. Good(rm, rf, user, table, h, k)
  BY <1>6, <1>7, <1>8, <1>9, <1>10, <1>11, <1>12, <1>13 DEF Good
<1>15. QED BY <1>14 DEF rm, rf

LEMMA InvQuitGameRoom ==
    ASSUME Inv, NEW s \in Session, QuitGameRoom(s)
    PROVE  Inv'
<1>1. /\ hnd' = [pc |-> "leave", s |-> s, r |-> ref[s], copy |-> {}] /\ ref[s] # None
      /\ hnd = HandlerIdle /\ s \in user
      /\ UNCHANGED <<user, alive, dead, ref, room, table, cln, fault>>
  BY DEF QuitGameRoom, Request, Objects
<1>2. hnd' \in HandlerState
  BY <1>1 DEF HandlerState, Inv, Good, Typed
<1>3. Good(room, ref, user, table, hnd', cln)
  BY <1>1, <1>2, IdleFields
     DEF Inv, Good, Typed, HeldExist, ReferredExist, UsersHeld, OwnNew, Removed, Removes
<1>4. QED BY <1>1, <1>3, SameGood DEF Inv

\* The handler looks at the room's state next.
LEMMA InvPlayerQuits ==
    ASSUME Inv, PlayerQuits
    PROVE  Inv'
<1>1. /\ hnd.pc = "leave" /\ room' = Left(hnd.r, hnd.s)
      /\ ref' = [ref EXCEPT ![hnd.s] = None]
      /\ hnd' = [hnd EXCEPT !.pc = "check"]
      /\ UNCHANGED <<user, alive, dead, table, cln, fault>>
  BY DEF PlayerQuits, Quit
<1>2. /\ hnd'.pc = "check" /\ hnd'.s = hnd.s /\ hnd'.r = hnd.r /\ hnd'.copy = hnd.copy
      /\ hnd' \in HandlerState
  BY <1>1 DEF Inv, Good, Typed, HandlerState, HandlerIdle
<1>3. hnd.r \in Room /\ hnd.s \in Session /\ cln \in CleanerState
  BY <1>1, HandlerFields DEF Inv, Good, Typed
<1>4. room[hnd.r] # None
  BY <1>3, ObjectAssumption DEF Inv, Good, HeldExist
<1>5. Removes(hnd.r, hnd', cln) /\ \A q \in Room : Removes(q, hnd, cln) => Removes(q, hnd', cln)
  BY <1>1, <1>2 DEF Removes
<1>6. Good(Left(hnd.r, hnd.s), [ref EXCEPT ![hnd.s] = None], user, table, hnd', cln)
  BY <1>1, <1>2, <1>3, <1>4, <1>5, QuitGood
<1>7. QED BY <1>1, <1>6, SameGood DEF Inv

\* What is closing loses its code, and the handler has removed its room.
LEMMA InvCheckQuit ==
    ASSUME Inv, CheckQuit
    PROVE  Inv'
<1>. DEFINE tb == Remaining(hnd.r)
<1>1. Typed(room, ref, user, table, hnd, cln) /\ hnd.pc = "check"
  BY DEF Inv, Good, CheckQuit
<1>2. hnd.r \in Room /\ room[hnd.r] # None /\ room[hnd.r].code \in Code
  <2>1. hnd.r \in Room
    BY <1>1, HandlerFields DEF Typed
  <2>2. room[hnd.r] # None
    BY <2>1, ObjectAssumption DEF Inv, Good, HeldExist
  <2>3. QED BY <1>1, <2>1, <2>2 DEF Typed, GameRoom
<1>3. /\ tb \in [Code -> Room \cup {None}]
      /\ \A c \in Code : tb[c] # None => tb[c] = table[c]
      /\ room[hnd.r].closing => tb[room[hnd.r].code] = None
  BY <1>1, <1>2 DEF Remaining, Without, Typed
<1>. HIDE DEF tb
<1>4. Removed(room, tb, HandlerIdle, cln)
  <2>1. ASSUME NEW c \in Code, tb[c] # None, room[tb[c]].closing
        PROVE  Removes(tb[c], HandlerIdle, cln)
    <3>1. tb[c] = table[c] /\ Removes(tb[c], hnd, cln) /\ room[tb[c]].code = c
      BY <1>3, <2>1 DEF Inv, Good, Removed, CodesMatch
    <3>2. tb[c] # hnd.r
      BY <1>3, <2>1, <3>1
    <3>3. QED BY <3>1, <3>2 DEF Removes
  <2>2. QED BY <2>1 DEF Removed
<1>5. Good(room, ref, user, tb, HandlerIdle, cln)
  BY <1>1, <1>3, <1>4, IdleFields
     DEF Inv, Good, Typed, HeldExist, UsersHeld, OwnNew, CodesMatch
<1>6. Settle(room, ref, user, tb, HandlerIdle, cln)
  BY DEF CheckQuit, tb
<1>7. QED BY <1>5, <1>6, SettleGood DEF Inv

-----------------------------------------------------------------------------
(* The cleaner.                                                            *)

LEMMA InvSnapshot ==
    ASSUME Inv, Snapshot
    PROVE  Inv'
<1>. DEFINE k == [cln EXCEPT !.pc = NextVictim(Invalid), !.snap = user, !.todo = Invalid]
<1>1. cln.pc = "sleep" /\ cln.s = None /\ cln.r = None /\ user \subseteq Session
      /\ dead \subseteq Session /\ Typed(room, ref, user, table, hnd, cln)
  BY CleanerFields DEF Snapshot, Inv, Good, Typed
<1>2. k \in CleanerState /\ k.pc \in {"sleep", "reap"} /\ k.s = None /\ k.r = None
  <2>1. cln \in [pc : {"sleep", "reap"}, snap : SUBSET Session, todo : SUBSET Session,
                 s : {None}, r : {None}]
    BY <1>1 DEF Typed, CleanerState
  <2>2. NextVictim(Invalid) \in {"sleep", "reap"} /\ Invalid \subseteq Session
    BY <1>1 DEF NextVictim, Invalid
  <2>3. QED BY <1>1, <2>1, <2>2 DEF CleanerState
<1>. HIDE DEF k
<1>3. Good(room, ref, user, table, hnd, k)
  BY <1>1, <1>2
     DEF Inv, Good, Typed, HeldExist, UsersHeld, OwnNew, CodesMatch, Removed, Removes
<1>4. Settle(room, ref, user, table, hnd, k)
  BY DEF Snapshot, k
<1>5. QED BY <1>3, <1>4, SettleGood DEF Inv

\* A room that a user refers to is not new.
LEMMA InvReap ==
    ASSUME Inv, NEW s \in Session, Reap(s)
    PROVE  Inv'
<1>1. /\ cln.pc = "reap" /\ s \in user
      /\ cln' = [cln EXCEPT !.pc = IF ref[s] = None THEN "erase" ELSE "leave",
                            !.s = s, !.r = ref[s]]
      /\ UNCHANGED <<user, alive, dead, ref, room, table, hnd, fault>>
  BY DEF Reap, Objects
<1>2. Typed(room, ref, user, table, hnd, cln)
  BY DEF Inv, Good
<1>3. /\ cln' \in CleanerState /\ cln'.pc \in {"erase", "leave"}
      /\ cln'.s = s /\ cln'.r = ref[s]
  <2>1. cln \in [pc : {"sleep", "reap"}, snap : SUBSET Session, todo : SUBSET Session,
                 s : {None}, r : {None}]
    BY <1>1, <1>2 DEF Typed, CleanerState
  <2>2. ref[s] \in Room \cup {None}
    BY <1>2 DEF Typed
  <2>3. QED BY <1>1, <2>1, <2>2 DEF CleanerState
<1>4. hnd.pc \in {"insert", "enter"} => ref[s] # hnd.r
  BY DEF Inv, Good, OwnNew
<1>5. Good(room, ref, user, table, hnd, cln')
  BY <1>1, <1>2, <1>3, <1>4
     DEF Inv, Good, Typed, HeldExist, ReferredExist, UsersHeld, OwnNew, CodesMatch, Removed,
         Removes
<1>6. QED BY <1>1, <1>5, SameGood DEF Inv

\* The cleaner looks at the room's state next.
LEMMA InvDeadPlayerQuits ==
    ASSUME Inv, DeadPlayerQuits
    PROVE  Inv'
<1>1. /\ cln.pc = "leave" /\ room' = Left(cln.r, cln.s)
      /\ ref' = [ref EXCEPT ![cln.s] = None]
      /\ cln' = [cln EXCEPT !.pc = "check"]
      /\ UNCHANGED <<user, alive, dead, table, hnd, fault>>
  BY DEF DeadPlayerQuits, Quit
<1>2. cln'.pc = "check" /\ cln'.s = cln.s /\ cln'.r = cln.r /\ cln' \in CleanerState
  <2>1. cln \in [pc : {"leave", "check", "forget"}, snap : SUBSET Session,
                 todo : SUBSET Session, s : Session, r : Room]
    BY <1>1 DEF Inv, Good, Typed, CleanerState
  <2>2. QED BY <1>1, <2>1 DEF CleanerState
<1>3. /\ cln.r \in Room /\ cln.s \in Session /\ hnd \in HandlerState
  BY <1>1, CleanerFields DEF Inv, Good, Typed
<1>4. /\ room[cln.r] # None /\ cln.s \in user
      /\ hnd.pc \in {"insert", "enter"} => cln.r # hnd.r
  BY <1>3, ObjectAssumption DEF Inv, Good, HeldExist, UsersHeld, OwnNew
<1>5. Removes(cln.r, hnd, cln') /\ \A q \in Room : Removes(q, hnd, cln) => Removes(q, hnd, cln')
  BY <1>1, <1>2 DEF Removes
<1>6. Good(Left(cln.r, cln.s), [ref EXCEPT ![cln.s] = None], user, table, hnd, cln')
  BY <1>1, <1>2, <1>3, <1>4, <1>5, QuitGood
<1>7. QED BY <1>1, <1>6, SameGood DEF Inv

\* A closing room is going to be forgotten, another one is not closing.
LEMMA InvCheckDeadQuit ==
    ASSUME Inv, CheckDeadQuit
    PROVE  Inv'
<1>1. /\ cln.pc = "check" /\ cln' = [cln EXCEPT !.pc = AfterQuit]
      /\ UNCHANGED <<user, alive, dead, ref, room, table, hnd, fault>>
  BY DEF CheckDeadQuit, Objects
<1>2. /\ cln' \in CleanerState /\ cln'.s = cln.s /\ cln'.r = cln.r
      /\ cln'.pc = IF room[cln.r].closing THEN "forget" ELSE "erase"
  <2>1. cln \in [pc : {"leave", "check", "forget"}, snap : SUBSET Session,
                 todo : SUBSET Session, s : Session, r : Room]
    BY <1>1 DEF Inv, Good, Typed, CleanerState
  <2>2. AfterQuit \in {"forget", "erase"}
    BY DEF AfterQuit
  <2>3. cln'.pc = AfterQuit /\ cln'.s = cln.s /\ cln'.r = cln.r /\ cln' \in CleanerState
    BY <1>1, <2>1, <2>2 DEF CleanerState
  <2>4. QED BY <2>3 DEF AfterQuit
<1>3. Removed(room, table, hnd, cln')
  BY <1>1, <1>2 DEF Inv, Good, Removed, Removes
<1>4. Good(room, ref, user, table, hnd, cln')
  BY <1>1, <1>2, <1>3 DEF Inv, Good, Typed, HeldExist, UsersHeld, OwnNew, CodesMatch
<1>5. QED BY <1>1, <1>4, SameGood DEF Inv

LEMMA InvForgetRoom ==
    ASSUME Inv, ForgetRoom
    PROVE  Inv'
<1>1. /\ cln.pc = "forget" /\ table' = [table EXCEPT ![room[cln.r].code] = None]
      /\ cln' = [cln EXCEPT !.pc = "erase"]
      /\ UNCHANGED <<user, alive, dead, ref, room, hnd, fault>>
  BY DEF ForgetRoom, Without, Objects
<1>2. Typed(room, ref, user, table, hnd, cln)
  BY DEF Inv, Good
<1>3. cln' \in CleanerState /\ cln'.pc = "erase" /\ cln'.s = cln.s /\ cln'.r = cln.r
  <2>1. cln \in [pc : {"leave", "check", "forget"}, snap : SUBSET Session,
                 todo : SUBSET Session, s : Session, r : Room]
    BY <1>1, <1>2 DEF Typed, CleanerState
  <2>2. QED BY <1>1, <2>1 DEF CleanerState
<1>4. /\ table' \in [Code -> Room \cup {None}]
      /\ \A c \in Code : table'[c] # None => table'[c] = table[c] /\ c # room[cln.r].code
  BY <1>1, <1>2 DEF Typed
<1>5. Removed(room, table', hnd, cln')
  BY <1>1, <1>3, <1>4 DEF Inv, Good, Removed, Removes, CodesMatch
<1>6. Good(room, ref, user, table', hnd, cln')
  BY <1>1, <1>2, <1>3, <1>4, <1>5
     DEF Inv, Good, Typed, HeldExist, UsersHeld, OwnNew, CodesMatch
<1>7. QED BY <1>1, <1>6, SameGood DEF Inv

LEMMA InvErase ==
    ASSUME Inv, Erase
    PROVE  Inv'
<1>. DEFINE rest == cln.todo \ {cln.s}
            u == user \ {cln.s}
            k == [pc |-> NextVictim(rest), snap |-> cln.snap, todo |-> rest, s |-> None, r |-> None]
<1>1. cln.pc = "erase" /\ Typed(room, ref, user, table, hnd, cln)
  BY DEF Erase, Inv, Good
<1>2. k \in CleanerState /\ k.pc \in {"sleep", "reap"} /\ k.s = None /\ k.r = None
  <2>1. cln \in [pc : {"erase"}, snap : SUBSET Session, todo : SUBSET Session,
                 s : Session, r : Room \cup {None}]
    BY <1>1 DEF Typed, CleanerState
  <2>2. NextVictim(rest) \in {"sleep", "reap"} /\ rest \subseteq Session
    BY <2>1 DEF NextVictim
  <2>3. QED BY <2>1, <2>2 DEF CleanerState
<1>. HIDE DEF k
<1>3. Good(room, ref, u, table, hnd, k)
  <2>1. Typed(room, ref, u, table, hnd, k) /\ OwnListed(room, ref, u)
    BY <1>2 DEF Inv, Good, Typed, OwnListed
  <2>2. HeldExist(room, table, hnd, k) /\ UsersHeld(u, hnd, k)
    BY <1>2 DEF Inv, Good, HeldExist, UsersHeld
  <2>3. OwnNew(room, ref, hnd, k)
    BY <1>1, <1>2, HandlerFields, ObjectAssumption DEF Inv, Good, Typed, OwnNew
  <2>4. CodesMatch(room, table, k) /\ Removed(room, table, hnd, k)
    BY <1>1, <1>2 DEF Inv, Good, CodesMatch, Removed, Removes
  <2>5. QED BY <2>1, <2>2, <2>3, <2>4 DEF Inv, Good
<1>4. Settle(room, ref, u, table, hnd, k)
  BY DEF Erase, k
<1>5. QED BY <1>3, <1>4, SettleGood DEF Inv

-----------------------------------------------------------------------------
(* The invariant, and what follows from it.                                *)

LEMMA InvFaults ==
    ASSUME Inv,
           Race \/ Restart
             \/ \E s \in Session : RequestFails(s) \/ QuitNowhere(s) \/ ReapFails(s)
    PROVE  Inv'
<1>1. CASE Race \/ \E s \in Session : RequestFails(s) \/ QuitNowhere(s) \/ ReapFails(s)
  <2>1. \E why \in {"null_pointer", "end_iterator", "dangling", "race"} : Crash(why)
    BY <1>1 DEF Race, RequestFails, QuitNowhere, ReapFails
  <2>2. QED BY <2>1, InvCrash
<1>2. CASE Restart
  BY <1>2
     DEF Restart, Objects, Inv, Good, Typed, HeldExist, ReferredExist, UsersHeld, OwnNew,
         CodesMatch, Limited, OwnListed, Removed, Removes
<1>3. QED BY <1>1, <1>2

LEMMA InvNext == Inv /\ [Next]_vars => Inv'
<1>. SUFFICES ASSUME Inv, [Next]_vars PROVE Inv'
  OBVIOUS
<1>1. CASE UNCHANGED vars
  BY <1>1 DEF vars, Inv, Good, Typed, HeldExist, ReferredExist, UsersHeld, OwnNew, CodesMatch,
     Limited, OwnListed, Removed, Removes
<1>2. CASE \E s \in Session : Die(s)
  BY <1>2, InvDie
<1>3. CASE Handler
  <2>1. CASE Continue
    BY <2>1, InvInsertRoom, InvHostEnters, InvCreated, InvPlayerEnters, InvRoomIsFull,
       InvPlayerQuits, InvCheckQuit DEF Continue
  <2>2. ASSUME NEW s \in Session,
               \/ Login(s) \/ Logout(s) \/ RequestFails(s) \/ CreateGameRoom(s)
               \/ JoinGameRoom(s) \/ QuitGameRoom(s) \/ QuitNowhere(s)
        PROVE  Inv'
    BY <2>2, InvLogin, InvLogout, InvFaults, InvCreateGameRoom, InvJoinGameRoom, InvQuitGameRoom
  <2>3. QED BY <1>3, <2>1, <2>2 DEF Handler
<1>4. CASE Cleaner
  <2>1. ASSUME NEW s \in Session, Reap(s) \/ ReapFails(s)
        PROVE  Inv'
    BY <2>1, InvReap, InvFaults
  <2>2. QED BY <1>4, <2>1, InvSnapshot, InvDeadPlayerQuits, InvCheckDeadQuit, InvForgetRoom,
               InvErase DEF Cleaner
<1>5. CASE Race \/ Restart
  BY <1>5, InvFaults
<1>6. QED BY <1>1, <1>2, <1>3, <1>4, <1>5 DEF Next

LEMMA InvAlways == Spec => []Inv
BY InvInit, InvNext, PTL DEF Spec

LEMMA InvImplies == Inv => RoomsTypeOK /\ WithinLimit /\ ListedInOwnRoom /\ ClosingIsRemoved
<1>. SUFFICES ASSUME Inv PROVE RoomsTypeOK /\ WithinLimit /\ ListedInOwnRoom /\ ClosingIsRemoved
  OBVIOUS
<1>1. RoomsTypeOK
  BY DEF Inv, Good, Typed, RoomsTypeOK
<1>2. WithinLimit /\ ListedInOwnRoom
  BY DEF Inv, Good, Limited, OwnListed, WithinLimit, ListedInOwnRoom
<1>3. ClosingIsRemoved
  BY ObjectAssumption DEF Inv, Good, Removed, Removes, ClosingIsRemoved, Removing, Open
<1>4. QED BY <1>1, <1>2, <1>3

\* A step erases at most one code, that of a room the thread found closing.
LEMMA EndsStep ==
    ASSUME Inv, [Next]_vars, Running', NEW c \in Code, table[c] # None, table'[c] # table[c]
    PROVE  \/ room[table[c]].closing
           \/ \E r \in Room \ {table[c]} : Removing(r) /\ room[r].code = c
<1>1. Typed(room, ref, user, table, hnd, cln)
  BY DEF Inv, Good
<1>2. \A why \in {"null_pointer", "end_iterator", "dangling", "race"} : ~Crash(why)
  BY DEF Crash, Running
<1>3. \/ CheckQuit /\ table' = Remaining(hnd.r)
      \/ ForgetRoom
  <2>1. \A rm, rf, u, h, k : Settle(rm, rf, u, table, h, k) => table' = table
    BY <1>2 DEF Settle
  <2>2. InsertRoom => table'[c] = table[c]
    BY <1>1 DEF InsertRoom, Typed
  <2>3. CheckQuit => table' = Remaining(hnd.r)
    BY <1>2 DEF CheckQuit, Settle
  <2>4. CASE Continue
    BY <2>1, <2>2, <2>3, <2>4 DEF Continue, HostEnters, Created, CreateAnswered, PlayerEnters,
       RoomIsFull, PlayerQuits
  <2>5. ASSUME NEW s \in Session,
               \/ Login(s) \/ Logout(s) \/ RequestFails(s) \/ CreateGameRoom(s)
               \/ JoinGameRoom(s) \/ QuitGameRoom(s) \/ QuitNowhere(s) \/ Die(s)
               \/ Reap(s) \/ ReapFails(s)
        PROVE  FALSE
    BY <1>2, <2>1, <2>5 DEF Login, Logout, RequestFails, CreateGameRoom, JoinGameRoom,
       QuitGameRoom, QuitNowhere, Die, Reap, ReapFails
  <2>6. CASE Snapshot \/ DeadPlayerQuits \/ CheckDeadQuit \/ Erase
    BY <2>1, <2>6 DEF Snapshot, DeadPlayerQuits, CheckDeadQuit, Erase
  <2>7. ~Race /\ ~Restart /\ ~UNCHANGED vars
    BY <1>2 DEF Race, Restart, vars
  <2>8. QED BY <2>4, <2>5, <2>6, <2>7 DEF Next, Handler, Cleaner
<1>4. CASE CheckQuit /\ table' = Remaining(hnd.r)
  <2>1. hnd.pc = "check" /\ hnd.r \in Room
    BY <1>1, <1>4, HandlerFields DEF CheckQuit, Typed
  <2>2. room[hnd.r].closing /\ room[hnd.r].code = c
    BY <1>1, <1>4 DEF Remaining, Without, Typed
  <2>3. QED BY <2>1, <2>2 DEF Removing
<1>5. CASE ForgetRoom
  <2>1. cln.pc = "forget" /\ cln.r \in Room /\ room[cln.r].closing
    BY <1>1, <1>5, CleanerFields DEF ForgetRoom, Typed, Inv, Good, CodesMatch
  <2>2. room[cln.r].code = c
    BY <1>1, <1>5 DEF ForgetRoom, Without, Typed
  <2>3. QED BY <2>1, <2>2 DEF Removing
<1>6. QED BY <1>3, <1>4, <1>5

\* Rooms, users, tables and threads keep their types.
THEOREM RoomsTyped == Spec => []RoomsTypeOK
BY InvAlways, InvImplies, PTL

\* No room ever lists more than MAX_PLAYER_NUM players, whatever the limit.
THEOREM RoomsWithinLimit == Spec => []WithinLimit
BY InvAlways, InvImplies, PTL

\* The room a user refers to exists and lists its name.
THEOREM UsersListed == Spec => []ListedInOwnRoom
BY InvAlways, InvImplies, PTL

\* A room that is DESTROYING and can still be found is being removed.
THEOREM ClosingRoomsRemoved == Spec => []ClosingIsRemoved
BY InvAlways, InvImplies, PTL

\* A room disappears only after its host has left it, or with the code of an
\* earlier room.
THEOREM RoomsEndAfterHost == Spec => EndsAfterHost
<1>1. Inv /\ [Next]_vars =>
        [Running' => \A c \in Code :
           (table[c] # None /\ table'[c] # table[c]) =>
               \/ room[table[c]].closing
               \/ \E r \in Room \ {table[c]} : Removing(r) /\ room[r].code = c]_vars
  BY EndsStep
<1>2. QED BY <1>1, InvAlways, PTL DEF Spec, EndsAfterHost
=============================================================================
