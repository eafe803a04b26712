------------------------ MODULE WorldSessionMgr_proofs ------------------------
(***************************************************************************)
(* Theorems about WorldSessionMgr, for any accounts, characters, sessions  *)
(* and limits: the type invariant, the ownership of session objects, the   *)
(* uniqueness of the holder of a character and of the character an account *)
(* has in the world, the end of all of them at shutdown, the stay of an    *)
(* abandoned character, and the login queue as AdmissionQueue promises it. *)
(***************************************************************************)
EXTENDS WorldSessionMgr, CollectionLemmas

-----------------------------------------------------------------------------
(***************************************************************************)
(* The inductive invariant.  TypeOK alone is not inductive: what a login   *)
(* assigns is well typed only because the session being updated is listed  *)
(* and its account is therefore known.                                     *)
(***************************************************************************)

\* New sessions wait once and hold nothing.
NewOwned ==
  /\ \A i, j \in DOMAIN addQueue : addQueue[i] = addQueue[j] => i = j
  /\ \A i \in DOMAIN addQueue :
       LET s == addQueue[i]
           a == ses[s].acct
       IN /\ a \in Accounts /\ sessions[a] # s /\ offline[a] # s
          /\ ses[s].player = Null /\ ses[s].want = Null

\* A listed or offline session belongs to the account it is found under, and is
\* not both; an offline one loads nothing and shares no character.
MapsOwned ==
  \A a \in Accounts :
    /\ sessions[a] # Null => ses[sessions[a]].acct = a /\ sessions[a] # offline[a]
    /\ offline[a] # Null => ses[offline[a]].acct = a /\ ses[offline[a]].want = Null
    /\ sessions[a] # Null /\ offline[a] # Null =>
         \A c \in Chars : ses[offline[a]].player = c =>
           ses[sessions[a]].player # c /\ ses[sessions[a]].want # c

\* Every session object is free or has an owner, and its character is its account's.
SessionOwned(s) ==
  LET r == ses[s] IN
  /\ r.acct = Null => r.player = Null /\ r.want = Null
  /\ r.acct # Null => \/ \E i \in DOMAIN addQueue : addQueue[i] = s
                     \/ sessions[r.acct] = s \/ offline[r.acct] = s
  /\ r.player # Null => Owner[r.player] = r.acct /\ r.want = Null
  /\ r.want # Null => Owner[r.want] = r.acct
  /\ r.load = "none" <=> r.want = Null

\* Where the thread stands: the session in hand and those still to visit are listed.
ThreadOwned ==
  /\ pc \in {"packets", "callbacks"} =>
       /\ cur \in Sessions /\ ses[cur].acct \in Accounts
       /\ sessions[ses[cur].acct] = cur /\ ses[cur].acct \notin todo
  /\ pc \in {"check", "packets", "callbacks"} => \A a \in todo : sessions[a] # Null
  /\ pc \in {"idle", "add", "halted"} => todo = {}

Inv == /\ TypeOK /\ NewOwned /\ MapsOwned /\ ThreadOwned
       /\ \A s \in Sessions : SessionOwned(s)

-----------------------------------------------------------------------------
(* The operations on a session yield sessions. *)

\* The bounds of the ages.
LEMMA Bounds ==
  /\ -1 \in -1..LogoutDelay /\ 0 \in -1..LogoutDelay
  /\ 0 \in 0..(Grace + 1)
  /\ 0 \in 0..Tolerance /\ Tolerance \in 0..Tolerance
  /\ \A d \in {0, 1} :
       /\ \A x \in 0..Tolerance : UpTo(x + d, Tolerance) \in 0..Tolerance
       /\ \A x \in 0..(Grace + 1) : UpTo(x + d, Grace + 1) \in 0..(Grace + 1)
       /\ \A x \in -1..LogoutDelay : x # -1 => UpTo(x + d, LogoutDelay) \in -1..LogoutDelay
BY ConstantsAssumption DEF UpTo

LEMMA SessionTypes ==
  /\ NoSession \in Session
  /\ \A a \in Accounts : Fresh(a) \in Session
  /\ \A r \in Session : /\ Closed(r) \in Session /\ Kicked(r) \in Session
                        /\ LoggedOut(r) \in Session /\ Abandon(r) \in Session
<1>1. NoSession \in Session
  BY Bounds DEF NoSession, Session, Query
<1>2. \A a \in Accounts : Fresh(a) \in Session
  BY <1>1 DEF Fresh, Session
<1>3. \A r \in Session : Closed(r) \in Session
  BY DEF Closed, Session
<1>4. \A r \in Session : Kicked(r) \in Session
  BY ZenonT(40), <1>3 DEF Kicked, Session
<1>5. \A r \in Session : LoggedOut(r) \in Session
  <2>1. Null \in Chars \cup {Null} /\ -1 \in -1..LogoutDelay
    BY Bounds
  <2> QED BY <2>1 DEF LoggedOut, Session
<1>6. \A r \in Session : Abandon(r) \in Session
  BY Bounds DEF Abandon, Session
<1> QED BY <1>1, <1>2, <1>3, <1>4, <1>5, <1>6

\* What the handlers and callbacks assign to a session.
LEMMA UpdateTypes ==
  ASSUME NEW r \in Session
  PROVE  /\ [r EXCEPT !.sock = "closed"] \in Session
         /\ [r EXCEPT !.away = ~@] \in Session
         /\ \A t \in {-1, 0} : [r EXCEPT !.logout = t] \in Session
         /\ [r EXCEPT !.roster = "sent"] \in Session
         /\ [r EXCEPT !.roster = "listed"] \in Session
         /\ [r EXCEPT !.init = "none", !.inQueue = FALSE] \in Session
         /\ [r EXCEPT !.init = "sent"] \in Session
         /\ [r EXCEPT !.inQueue = TRUE] \in Session
         /\ \A c \in Chars : [r EXCEPT !.load = "sent", !.want = c] \in Session
         /\ \A c \in Chars, w \in BOOLEAN : [r EXCEPT !.player = c, !.away = w] \in Session
         /\ [r EXCEPT !.player = Null, !.away = FALSE] \in Session
         /\ \A c \in Chars \cup {Null}, w \in BOOLEAN :
              [r EXCEPT !.load = "none", !.want = Null, !.player = c, !.away = w] \in Session
         /\ [r EXCEPT !.load = "none", !.want = Null, !.player = Null] \in Session
<1>1. [r EXCEPT !.sock = "closed"] \in Session
  BY DEF Session
<1>2. [r EXCEPT !.away = ~@] \in Session
  BY DEF Session
<1>3. \A t \in {-1, 0} : [r EXCEPT !.logout = t] \in Session
  <2>1. \A t \in {-1, 0} : t \in -1..LogoutDelay
    BY Bounds
  <2> QED BY <2>1 DEF Session
<1>4. /\ [r EXCEPT !.roster = "sent"] \in Session
      /\ [r EXCEPT !.roster = "listed"] \in Session
  BY DEF Session, Query
<1>5. /\ [r EXCEPT !.init = "none", !.inQueue = FALSE] \in Session
      /\ [r EXCEPT !.init = "sent"] \in Session
      /\ [r EXCEPT !.inQueue = TRUE] \in Session
  BY DEF Session, Query
<1>6. /\ \A c \in Chars : [r EXCEPT !.load = "sent", !.want = c] \in Session
      /\ \A c \in Chars, w \in BOOLEAN : [r EXCEPT !.player = c, !.away = w] \in Session
      /\ [r EXCEPT !.player = Null, !.away = FALSE] \in Session
  BY DEF Session, Query
<1>7. /\ \A c \in Chars \cup {Null}, w \in BOOLEAN :
           [r EXCEPT !.load = "none", !.want = Null, !.player = c, !.away = w] \in Session
      /\ [r EXCEPT !.load = "none", !.want = Null, !.player = Null] \in Session
  BY DEF Session, Query
<1> QED BY <1>1, <1>2, <1>3, <1>4, <1>5, <1>6, <1>7

LEMMA SesAfterType ==
  ASSUME TypeOK, NEW gone, NEW left, NEW promoted
  PROVE  SesAfter(gone, left, promoted) \in [Sessions -> Session]
<1> SUFFICES ASSUME NEW t \in Sessions
             PROVE  SesAfter(gone, left, promoted)[t] \in Session
  BY DEF SesAfter
<1>1. ses[t] \in Session
  BY DEF TypeOK
<1>2. Abandon(ses[t]) \in Session /\ NoSession \in Session
  BY <1>1, SessionTypes
<1>3. [ses[t] EXCEPT !.init = "sent"] \in Session
  BY <1>1, UpdateTypes
<1> QED BY <1>1, <1>2, <1>3 DEF SesAfter

\* Leaving the queue and the promotion of its head keep a sequence of sessions.
LEMMA QueueAfterType ==
  ASSUME TypeOK, NEW s
  PROVE  QueueAfter(s) \in Seq(Sessions)
<1>1. QueueWithout(s) \in Seq(Sessions)
  BY RemoveFirstType DEF TypeOK, QueueWithout
<1>2. Admits(s) => Tail(QueueWithout(s)) \in Seq(Sessions)
  BY <1>1, HeadTailProperties DEF Admits
<1> QED BY <1>1, <1>2 DEF QueueAfter

LEMMA RecentAfterType ==
  ASSUME TypeOK, NEW s, NEW a
  PROVE  RecentAfter(s, a) \in [Accounts -> 0..Tolerance]
BY Bounds DEF TypeOK, RecentAfter

-----------------------------------------------------------------------------
(* Type correctness. *)

LEMMA InitTypeOK == Init => TypeOK
<1> SUFFICES ASSUME Init PROVE TypeOK
  OBVIOUS
<1>1. ses \in [Sessions -> Session]
  BY SessionTypes DEF Init
<1>2. recent \in [Accounts -> 0..Tolerance]
  BY Bounds DEF Init
<1>3. <<>> \in Seq(Sessions)
  BY EmptySeq
<1> QED BY <1>1, <1>2, <1>3 DEF Init, TypeOK

\* Entering a session in the maps keeps the types.
LEMMA EnlistType ==
  ASSUME TypeOK, NEW s \in Sessions, NEW a, NEW base \in [Sessions -> Session],
         NEW q \in Seq(Sessions), NEW rec \in [Accounts -> 0..Tolerance],
         Enlist(s, a, base, q, rec)
  PROVE  /\ sessions' \in [Accounts -> Sessions \cup {Null}]
         /\ recent' \in [Accounts -> 0..Tolerance]
         /\ queue' \in Seq(Sessions)
         /\ ses' \in [Sessions -> Session]
<1>1. Append(q, s) \in Seq(Sessions)
  BY AppendProperties
<1>2. /\ [base EXCEPT ![s].inQueue = TRUE] \in [Sessions -> Session]
      /\ [base EXCEPT ![s].init = "sent"] \in [Sessions -> Session]
  BY UpdateTypes
<1> QED BY <1>1, <1>2 DEF Enlist, TypeOK

\* One step of any party keeps the types.
LEMMA NextTypeOK == TypeOK /\ ThreadOwned /\ [Next]_vars => TypeOK'
<1> SUFFICES ASSUME TypeOK, ThreadOwned, [Next]_vars PROVE TypeOK'
  OBVIOUS
<1>0. /\ \A r \in Session : r \in Session
      /\ addQueue # <<>> => Head(addQueue) \in Sessions /\ Tail(addQueue) \in Seq(Sessions)
  BY HeadTailProperties DEF TypeOK
<1>1. CASE \E d \in {0, 1} : BeginUpdate(d)
  <2> PICK d \in {0, 1} : BeginUpdate(d)
    BY <1>1
  <2>1. recent' \in [Accounts -> 0..Tolerance]
    BY Bounds DEF TypeOK, BeginUpdate
  <2>2. ASSUME NEW s \in Sessions
        PROVE  ses'[s] \in Session
    <3>1. ses[s] \in Session
      BY DEF TypeOK
    <3> DEFINE l == IF ses[s].logout = -1 THEN -1 ELSE UpTo(ses[s].logout + d, LogoutDelay)
               g == IF s \in Abandoned THEN UpTo(ses[s].age + d, Grace + 1) ELSE ses[s].age
    <3>2. l \in -1..LogoutDelay /\ g \in 0..(Grace + 1)
      BY <3>1, Bounds DEF Session
    <3>3. ses'[s] = [ses[s] EXCEPT !.logout = l, !.age = g]
      BY DEF BeginUpdate
    <3> HIDE DEF l, g
    <3> QED BY <3>1, <3>2, <3>3 DEF Session
  <2> QED BY <2>1, <2>2 DEF TypeOK, BeginUpdate, net
<1>2. CASE StopNow
  BY <1>2 DEF TypeOK, StopNow, net, thread
<1>3. CASE KickAll
  <2>1. ses' \in [Sessions -> Session]
    BY <1>3, SessionTypes DEF TypeOK, KickAll
  <2> QED BY <1>3, <2>1 DEF TypeOK, KickAll, net
<1>4. CASE RejectSession
  BY <1>0, <1>4, SessionTypes DEF TypeOK, RejectSession, thread
<1>5. CASE AddSession
  <2>1. /\ sessions' \in [Accounts -> Sessions \cup {Null}]
        /\ recent' \in [Accounts -> 0..Tolerance]
        /\ queue' \in Seq(Sessions)
        /\ ses' \in [Sessions -> Session]
    BY <1>0, <1>5, EnlistType DEF AddSession, TypeOK
  <2> QED BY <1>0, <1>5, <2>1 DEF AddSession, TypeOK, thread
<1>6. CASE ReplaceSession
  <2> DEFINE s == Head(addQueue)
             a == ses[s].acct
             old == sessions[a]
             stays == StaysInWorld(Closed(ses[old]))
             base == IF stays THEN SesAfter({offline[a]}, {old}, Promoted(old))
                              ELSE SesAfter({old}, {}, Promoted(old))
  <2>1. /\ s \in Sessions /\ Tail(addQueue) \in Seq(Sessions)
        /\ base \in [Sessions -> Session]
        /\ QueueAfter(old) \in Seq(Sessions)
        /\ RecentAfter(old, a) \in [Accounts -> 0..Tolerance]
    BY <1>0, <1>6, SesAfterType, QueueAfterType, RecentAfterType DEF ReplaceSession
  <2>2. /\ Enlist(s, a, base, QueueAfter(old), RecentAfter(old, a))
        /\ offline' = IF stays THEN [offline EXCEPT ![a] = old] ELSE offline
        /\ old # Null
    BY <1>6 DEF ReplaceSession
  <2>3. offline' \in [Accounts -> Sessions \cup {Null}]
    BY <2>2 DEF TypeOK
  <2> HIDE DEF s, a, old, base
  <2>4. /\ sessions' \in [Accounts -> Sessions \cup {Null}]
        /\ recent' \in [Accounts -> 0..Tolerance]
        /\ queue' \in Seq(Sessions)
        /\ ses' \in [Sessions -> Session]
    BY <2>1, <2>2, EnlistType
  <2> QED BY <1>6, <2>1, <2>3, <2>4 DEF ReplaceSession, TypeOK, thread
<1>7. CASE EndAdd
  BY <1>7 DEF TypeOK, EndAdd, Listed, net
<1>8. CASE LoopStep
  <2>1. ASSUME NEW a \in Accounts, AbandonSession(a) PROVE TypeOK'
    <3>1. /\ ses' \in [Sessions -> Session] /\ queue' \in Seq(Sessions)
          /\ recent' \in [Accounts -> 0..Tolerance]
      BY <2>1, SesAfterType, QueueAfterType, RecentAfterType DEF AbandonSession
    <3> QED BY <2>1, <3>1 DEF AbandonSession, TypeOK, net
  <2>2. ASSUME NEW a \in Accounts, NEW idle \in BOOLEAN, BeginSessionUpdate(a, idle)
        PROVE  TypeOK'
    <3>1. ses' \in [Sessions -> Session]
      BY <2>2, SessionTypes DEF BeginSessionUpdate, TypeOK
    <3> QED BY <2>2, <3>1 DEF BeginSessionUpdate, TypeOK, net
  <2>3. CASE EndPackets
    BY <2>3 DEF EndPackets, TypeOK, net
  <2>4. CASE InitializeSessionCallback \/ HandleCharEnum
    <3>1. ASSUME NEW s \in Sessions
          PROVE  /\ [ses[s] EXCEPT !.init = "none", !.inQueue = FALSE] \in Session
                 /\ [ses[s] EXCEPT !.roster = "listed"] \in Session
      BY UpdateTypes DEF TypeOK
    <3>2. ses' \in [Sessions -> Session]
      <4>1. CASE InitializeSessionCallback
        BY <3>1, <4>1 DEF InitializeSessionCallback, TypeOK
      <4>2. CASE HandleCharEnum
        BY <3>1, <4>2 DEF HandleCharEnum, TypeOK
      <4> QED BY <2>4, <4>1, <4>2
    <3> QED BY <2>4, <3>2
        DEF InitializeSessionCallback, HandleCharEnum, TypeOK, net, thread
  <2>5. ASSUME NEW away \in BOOLEAN, LoginFromDB(away) PROVE TypeOK'
    <3>1. cur \in Sessions => ses[cur].want \in Chars \cup {Null}
      BY DEF TypeOK, Session
    <3>2. ses' \in [Sessions -> Session]
      BY <2>5, <3>1, UpdateTypes DEF LoginFromDB, TypeOK
    <3> QED BY <2>5, <3>2 DEF LoginFromDB, TypeOK, net, thread
  <2>6. CASE LoadFromDBFails
    <3>1. ses' \in [Sessions -> Session]
      BY <2>6, UpdateTypes, SessionTypes DEF LoadFromDBFails, TypeOK
    <3> QED BY <2>6, <3>1 DEF LoadFromDBFails, TypeOK, net, thread
  <2>7. CASE KeepSession
    <3>1. ses' \in [Sessions -> Session]
      BY <2>7, SessionTypes DEF KeepSession, TypeOK
    <3> QED BY <2>7, <3>1 DEF KeepSession, TypeOK, net
  <2>8. CASE DeleteSession
    <3>1. /\ ses' \in [Sessions -> Session] /\ queue' \in Seq(Sessions)
          /\ recent' \in [Accounts -> 0..Tolerance]
      BY <2>8, SesAfterType, QueueAfterType, RecentAfterType DEF DeleteSession
    <3> QED BY <2>8, <3>1 DEF DeleteSession, TypeOK, net
  <2>9. CASE EndUpdate
    <3>1. ses' \in [Sessions -> Session]
      BY <2>9, SesAfterType DEF EndUpdate
    <3> QED BY <2>9, <3>1 DEF EndUpdate, TypeOK, net
  <2> QED BY <1>8, <2>1, <2>2, <2>3, <2>4, <2>5, <2>6, <2>7, <2>8, <2>9 DEF LoopStep
<1>9. CASE Packet
  <2> SUFFICES ASSUME ses' \in [Sessions -> Session],
                      UNCHANGED <<net, sessions, offline, queue, recent, thread,
                                  stopped, final>>
               PROVE  TypeOK'
    <3>1. ASSUME NEW s \in Sessions, NEW c \in Chars,
                 LoginKicked(s, c) \/ LoginRequested(s, c)
          PROVE  ses' \in [Sessions -> Session]
      <4>1. \A t \in Sessions : /\ Kicked(ses[t]) \in Session
                               /\ [ses[t] EXCEPT !.load = "sent", !.want = c] \in Session
        BY UpdateTypes, SessionTypes DEF TypeOK
      <4>2. CASE LoginKicked(s, c)
        BY <4>1, <4>2 DEF LoginKicked, TypeOK
      <4>3. CASE LoginRequested(s, c)
        BY <4>1, <4>3 DEF LoginRequested, TypeOK
      <4> QED BY <3>1, <4>2, <4>3
    <3>2. ASSUME NEW s \in Sessions, NEW c \in Chars, Reclaim(s, c)
          PROVE  ses' \in [Sessions -> Session]
      <4> DEFINE o == offline[ses[s].acct]
      <4>1. PICK away \in {FALSE, ses[o].away} :
              ses' = [ses EXCEPT ![s] = [@ EXCEPT !.player = c, !.away = away],
                                 ![o] = [@ EXCEPT !.player = Null, !.away = FALSE]]
        BY <3>2 DEF Reclaim
      <4>2. o \in Sessions /\ ses[o].away \in BOOLEAN
        <5>1. ses[s].acct \in Accounts /\ o # Null
          BY <3>2 DEF Reclaim, MayLogIn, Receives, ThreadOwned
        <5>2. o \in Sessions
          BY <5>1 DEF TypeOK
        <5> QED BY <5>2 DEF TypeOK, Session
      <4> HIDE DEF o
      <4>3. /\ [ses[s] EXCEPT !.player = c, !.away = away] \in Session
            /\ \A r \in Session : [r EXCEPT !.player = Null, !.away = FALSE] \in Session
        BY <4>2, UpdateTypes DEF TypeOK
      <4> QED BY <4>1, <4>2, <4>3 DEF TypeOK
    <3>3. ASSUME NEW s \in Sessions, NEW t \in {-1, 0},
                 CharEnum(s) \/ InstantLogout(s) \/ SetLogoutStartTime(s, t)
          PROVE  ses' \in [Sessions -> Session]
      <4>1. /\ [ses[s] EXCEPT !.roster = "sent"] \in Session
            /\ [ses[s] EXCEPT !.logout = t] \in Session
            /\ LoggedOut(ses[s]) \in Session
        BY UpdateTypes, SessionTypes DEF TypeOK
      <4> QED BY <3>3, <4>1 DEF CharEnum, InstantLogout, SetLogoutStartTime, TypeOK
    <3> QED BY <1>9, <3>1, <3>2, <3>3 DEF Packet, LoginKicked, LoginRequested,
               Reclaim, CharEnum, InstantLogout, SetLogoutStartTime
  <2> QED BY DEF TypeOK, net, thread
<1>10. CASE Other
  <2>1. ASSUME NEW s \in Sessions, NEW a \in Accounts, NewSession(s, a) PROVE TypeOK'
    <3>1. ses' \in [Sessions -> Session] /\ addQueue' \in Seq(Sessions)
      BY <2>1, SessionTypes, AppendProperties DEF NewSession, TypeOK
    <3> QED BY <2>1, <3>1 DEF NewSession, TypeOK, thread
  <2>2. ASSUME NEW s \in Sessions, SocketClose(s) \/ KickPlayer(s) \/ MovePlayer(s)
        PROVE  TypeOK'
    <3>1. ses' \in [Sessions -> Session]
      <4>1. /\ [ses[s] EXCEPT !.sock = "closed"] \in Session
            /\ [ses[s] EXCEPT !.away = ~@] \in Session
            /\ Kicked(ses[s]) \in Session
        BY UpdateTypes, SessionTypes DEF TypeOK
      <4> QED BY <2>2, <4>1 DEF SocketClose, KickPlayer, MovePlayer, TypeOK
    <3> QED BY <2>2, <3>1 DEF SocketClose, KickPlayer, MovePlayer, TypeOK, net, thread
  <2> QED BY <1>10, <2>1, <2>2 DEF Other
<1>11. CASE UNCHANGED vars
  BY <1>11 DEF TypeOK, vars, net, thread
<1> QED BY <1>1, <1>2, <1>3, <1>4, <1>5, <1>6, <1>7, <1>8, <1>9, <1>10, <1>11
        DEF Next, AddStep, Halted

-----------------------------------------------------------------------------
(* Ownership. *)

LEMMA CoreTypes ==
  ASSUME TypeOK
  PROVE  /\ \A s \in Sessions : /\ ses[s].acct \in Accounts \cup {Null}
                                /\ ses[s].player \in Chars \cup {Null}
                                /\ ses[s].want \in Chars \cup {Null}
                                /\ ses[s].load \in {"none", "sent"}
         /\ \A a \in Accounts : /\ sessions[a] \in Sessions \cup {Null}
                                /\ offline[a] \in Sessions \cup {Null}
         /\ \A i \in DOMAIN addQueue : addQueue[i] \in Sessions
         /\ Null \notin Accounts /\ Null \notin Chars /\ Null \notin Sessions
<1>1. \A i \in DOMAIN addQueue : addQueue[i] \in Sessions
  BY ElementOfSeq, LenProperties DEF TypeOK
<1> QED BY <1>1, ConstantsAssumption DEF TypeOK, Session, Query

\* A step that leaves the maps alone and, of the characters, at most takes some
\* out of the world or gives up loading them.
LEMMA CoreKept ==
  ASSUME Inv, UNCHANGED <<addQueue, sessions, offline>>,
         \A s \in Sessions : /\ ses'[s].acct = ses[s].acct
                             /\ ses'[s].player \in {ses[s].player, Null}
                             /\ ses'[s].want \in {ses[s].want, Null}
                             /\ ses'[s].load = "none" <=> ses'[s].want = Null
  PROVE  NewOwned' /\ MapsOwned' /\ \A s \in Sessions : SessionOwned(s)'
<1>1. NewOwned'
  BY CoreTypes DEF Inv, NewOwned
<1>2. MapsOwned'
  BY CoreTypes DEF Inv, MapsOwned
<1>3. \A s \in Sessions : SessionOwned(s)'
  BY CoreTypes DEF Inv, SessionOwned
<1> QED BY <1>1, <1>2, <1>3

\* What SesAfter keeps of the sessions that are not deleted.
LEMMA SesAfterCore ==
  ASSUME TypeOK, NEW gone, NEW left, NEW promoted, NEW t \in Sessions
  PROVE  /\ t \in gone => SesAfter(gone, left, promoted)[t] = NoSession
         /\ t \notin gone =>
              /\ SesAfter(gone, left, promoted)[t].acct = ses[t].acct
              /\ SesAfter(gone, left, promoted)[t].player = ses[t].player
              /\ SesAfter(gone, left, promoted)[t].want = ses[t].want
              /\ SesAfter(gone, left, promoted)[t].load = ses[t].load
BY DEF SesAfter, Abandon, TypeOK, Session

LEMMA InitInv == Init => Inv
<1> SUFFICES ASSUME Init PROVE Inv
  OBVIOUS
<1>1. TypeOK
  BY InitTypeOK
<1>2. DOMAIN addQueue = {}
  BY EmptySeq DEF Init
<1>3. \A s \in Sessions : SessionOwned(s)
  BY <1>1, CoreTypes DEF Init, SessionOwned, NoSession
<1>4. NewOwned /\ MapsOwned /\ ThreadOwned
  BY <1>2 DEF Init, NewOwned, MapsOwned, ThreadOwned
<1> QED BY <1>1, <1>3, <1>4 DEF Inv

\* Steps that keep the maps and lose characters at most.
QuietStep ==
  \/ \E d \in {0, 1} : BeginUpdate(d)
  \/ StopNow \/ KickAll \/ EndAdd \/ EndPackets
  \/ InitializeSessionCallback \/ HandleCharEnum \/ LoadFromDBFails \/ KeepSession
  \/ \E a \in Accounts, idle \in BOOLEAN : BeginSessionUpdate(a, idle)
  \/ \E s \in Sessions :
       \/ \E c \in Chars : LoginKicked(s, c)
       \/ CharEnum(s) \/ InstantLogout(s)
       \/ \E t \in {-1, 0} : SetLogoutStartTime(s, t)
       \/ SocketClose(s) \/ KickPlayer(s) \/ MovePlayer(s)
  \/ UNCHANGED vars

\* What CoreKept asks of session s.
Kept(s) == /\ ses'[s].acct = ses[s].acct
           /\ ses'[s].player \in {ses[s].player, Null}
           /\ ses'[s].want \in {ses[s].want, Null}
           /\ ses'[s].load = "none" <=> ses'[s].want = Null

LEMMA QuietKept ==
  ASSUME Inv, QuietStep, NEW s \in Sessions
  PROVE  Kept(s)
<1>1. /\ ses \in [Sessions -> Session] /\ ses[s] \in Session
      /\ ses[s].load = "none" <=> ses[s].want = Null
  BY DEF Inv, TypeOK, SessionOwned
<1>2. ASSUME NEW r \in Session
      PROVE  /\ Closed(r).acct = r.acct /\ Closed(r).player = r.player
             /\ Closed(r).want = r.want /\ Closed(r).load = r.load
             /\ Kicked(r).acct = r.acct /\ Kicked(r).player = r.player
             /\ Kicked(r).want = r.want /\ Kicked(r).load = r.load
             /\ LoggedOut(r).acct = r.acct /\ LoggedOut(r).player = Null
             /\ LoggedOut(r).want = r.want /\ LoggedOut(r).load = r.load
  BY DEF Closed, Kicked, LoggedOut, Session
<1>3. CASE \E d \in {0, 1} : BeginUpdate(d)
  <2> PICK d \in {0, 1} : BeginUpdate(d)
    BY <1>3
  <2> DEFINE l == IF ses[s].logout = -1 THEN -1 ELSE UpTo(ses[s].logout + d, LogoutDelay)
             g == IF s \in Abandoned THEN UpTo(ses[s].age + d, Grace + 1) ELSE ses[s].age
  <2>1. ses'[s] = [ses[s] EXCEPT !.logout = l, !.age = g]
    BY DEF BeginUpdate
  <2> HIDE DEF l, g
  <2> QED BY <1>1, <2>1 DEF Session, Kept
<1>4. CASE KickAll
  BY <1>1, <1>2, <1>4 DEF KickAll, Kept
<1>5. CASE StopNow \/ EndAdd \/ EndPackets \/ UNCHANGED vars
  BY <1>1, <1>5 DEF StopNow, EndAdd, EndPackets, vars, Kept
<1>6. CASE InitializeSessionCallback \/ HandleCharEnum
  <2>1. ses'[s] \in {ses[s], [ses[s] EXCEPT !.init = "none", !.inQueue = FALSE],
                   [ses[s] EXCEPT !.roster = "listed"]}
    BY <1>1, <1>6 DEF InitializeSessionCallback, HandleCharEnum
  <2> QED BY <1>1, <2>1 DEF Session, Kept
<1>7. CASE LoadFromDBFails
  BY <1>1, <1>2, <1>7, SessionTypes DEF LoadFromDBFails, Session, Kept
<1>8. CASE KeepSession
  BY <1>1, <1>2, <1>8 DEF KeepSession, Kept
<1>9. CASE \E a \in Accounts, idle \in BOOLEAN : BeginSessionUpdate(a, idle)
  BY <1>1, <1>2, <1>9 DEF BeginSessionUpdate, Kept
<1>10. ASSUME NEW t \in Sessions, NEW c \in Chars, LoginKicked(t, c) PROVE Kept(s)
  BY <1>1, <1>2, <1>10 DEF LoginKicked, Kept
<1>11. ASSUME NEW t \in Sessions, InstantLogout(t) \/ KickPlayer(t) PROVE Kept(s)
  BY <1>1, <1>2, <1>11 DEF InstantLogout, KickPlayer, Kept
<1>12. ASSUME NEW t \in Sessions, CharEnum(t) \/ SocketClose(t) \/ MovePlayer(t)
       PROVE  Kept(s)
  BY <1>1, <1>12 DEF CharEnum, SocketClose, MovePlayer, Session, Kept
<1>13. ASSUME NEW t \in Sessions, NEW l \in {-1, 0}, SetLogoutStartTime(t, l)
       PROVE  Kept(s)
  BY <1>1, <1>13 DEF SetLogoutStartTime, Session, Kept
<1> QED BY <1>3, <1>4, <1>5, <1>6, <1>7, <1>8, <1>9, <1>10, <1>11, <1>12, <1>13
        DEF QuietStep

\* The thread only takes listed sessions in hand.
LEMMA QuietThread ==
  ASSUME Inv, QuietStep, \A s \in Sessions : Kept(s)
  PROVE  UNCHANGED <<addQueue, sessions, offline>> /\ ThreadOwned'
<1>1. UNCHANGED <<addQueue, sessions, offline>>
  BY DEF QuietStep, BeginUpdate, StopNow, KickAll, EndAdd, EndPackets,
         InitializeSessionCallback, HandleCharEnum, LoadFromDBFails, KeepSession,
         BeginSessionUpdate, LoginKicked, CharEnum, InstantLogout,
         SetLogoutStartTime, SocketClose, KickPlayer, MovePlayer, vars, net
<1>2. TypeOK /\ ThreadOwned /\ MapsOwned /\ \A s \in Sessions : ses'[s].acct = ses[s].acct
  BY DEF Inv, Kept
<1>3. CASE \E d \in {0, 1} : BeginUpdate(d)
  BY <1>1, <1>2, <1>3 DEF BeginUpdate, ThreadOwned
<1>4. CASE KickAll
  BY <1>1, <1>2, <1>4 DEF KickAll, ThreadOwned
<1>5. CASE EndAdd
  BY <1>1, <1>2, <1>5 DEF EndAdd, ThreadOwned, Listed
<1>6. CASE \E a \in Accounts, idle \in BOOLEAN : BeginSessionUpdate(a, idle)
  BY <1>1, <1>2, <1>6, CoreTypes DEF BeginSessionUpdate, ThreadOwned, MapsOwned
<1>7. CASE KeepSession \/ EndPackets
  BY <1>1, <1>2, <1>7 DEF KeepSession, EndPackets, ThreadOwned
<1>8. CASE UNCHANGED <<pc, todo, cur>>
  BY <1>1, <1>2, <1>8 DEF ThreadOwned
<1> QED
  BY <1>3, <1>4, <1>5, <1>6, <1>7, <1>8
     DEF QuietStep, StopNow, InitializeSessionCallback, HandleCharEnum,
         LoadFromDBFails, LoginKicked, CharEnum, InstantLogout, SetLogoutStartTime,
         SocketClose, KickPlayer, MovePlayer, thread, vars

LEMMA QuietInv ==
  ASSUME Inv, TypeOK', QuietStep
  PROVE  Inv'
<1>1. \A s \in Sessions : Kept(s)
  BY QuietKept
<1>2. UNCHANGED <<addQueue, sessions, offline>> /\ ThreadOwned'
  BY <1>1, QuietThread
<1>3. NewOwned' /\ MapsOwned' /\ \A s \in Sessions : SessionOwned(s)'
  BY <1>1, <1>2, CoreKept DEF Kept
<1> QED BY <1>2, <1>3 DEF Inv

\* A login: the character asked for is the account's, and nobody holds it.
LEMMA LoginRequestedInv ==
  ASSUME Inv, TypeOK', NEW s \in Sessions, NEW c \in Chars, LoginRequested(s, c)
  PROVE  Inv'
<1> DEFINE a == ses[s].acct
           o == offline[a]
<1>1. /\ pc = "packets" /\ cur = s /\ a \in Accounts /\ sessions[a] = s
      /\ ses[s].load = "none" /\ ses[s].player = Null /\ Owner[c] = a
      /\ o # Null => ses[o].player # c
      /\ UNCHANGED <<addQueue, sessions, offline, pc, todo, cur>>
  BY DEF LoginRequested, MayLogIn, Receives, Legit, Inv, ThreadOwned, net, thread
<1>2. \A t \in Sessions :
        /\ ses'[t].acct = ses[t].acct /\ ses'[t].player = ses[t].player
        /\ t # s => ses'[t].want = ses[t].want /\ ses'[t].load = ses[t].load
        /\ t = s => ses'[t].want = c /\ ses'[t].load = "sent"
  <2>1. \A t \in Sessions : ses[t] \in Session
    BY DEF Inv, TypeOK
  <2>2. ses' = [t \in Sessions |->
             IF t = s THEN [ses[s] EXCEPT !.load = "sent", !.want = c]
             ELSE IF t = o THEN Kicked(ses[o]) ELSE ses[t]]
    BY DEF LoginRequested
  <2> QED BY <2>1, <2>2 DEF Session, Kicked, Closed
<1>3. TypeOK /\ NewOwned /\ MapsOwned /\ ThreadOwned /\ \A t \in Sessions : SessionOwned(t)
  BY DEF Inv
<1> HIDE DEF a, o
<1>4. NewOwned'
  BY <1>1, <1>2, <1>3, CoreTypes DEF NewOwned, a
<1>5. MapsOwned'
  BY <1>1, <1>2, <1>3, CoreTypes DEF MapsOwned, o
<1>6. \A t \in Sessions : SessionOwned(t)'
  BY <1>1, <1>2, <1>3, CoreTypes DEF SessionOwned, a
<1>7. ThreadOwned'
  BY <1>1, <1>2, <1>3, CoreTypes DEF ThreadOwned
<1> QED BY <1>4, <1>5, <1>6, <1>7 DEF Inv

\* A reconnection: the character changes hands between two sessions of its account.
LEMMA ReclaimInv ==
  ASSUME Inv, TypeOK', NEW s \in Sessions, NEW c \in Chars, Reclaim(s, c)
  PROVE  Inv'
<1> DEFINE a == ses[s].acct
           o == offline[a]
<1>1. /\ pc = "packets" /\ cur = s /\ a \in Accounts /\ sessions[a] = s
      /\ ses[s].load = "none" /\ ses[s].player = Null /\ Owner[c] = a
      /\ o # Null /\ ses[o].player = c
      /\ UNCHANGED <<addQueue, sessions, offline, pc, todo, cur>>
  BY DEF Reclaim, MayLogIn, Receives, Legit, Inv, ThreadOwned, net, thread
<1>2. \A t \in Sessions :
        /\ ses'[t].acct = ses[t].acct /\ ses'[t].want = ses[t].want
        /\ ses'[t].load = ses[t].load
        /\ ses'[t].player = IF t = o THEN Null ELSE IF t = s THEN c ELSE ses[t].player
  <2>1. ses \in [Sessions -> Session]
    BY DEF Inv, TypeOK
  <2>2. PICK away \in {FALSE, ses[o].away} :
          ses' = [ses EXCEPT ![s] = [@ EXCEPT !.player = c, !.away = away],
                             ![o] = [@ EXCEPT !.player = Null, !.away = FALSE]]
    BY DEF Reclaim
  <2>3. o # s
    BY <1>1 DEF Inv, MapsOwned
  <2> HIDE DEF o
  <2> QED BY ZenonT(40), <2>1, <2>2, <2>3 DEF Session
<1>3. TypeOK /\ NewOwned /\ MapsOwned /\ ThreadOwned /\ \A t \in Sessions : SessionOwned(t)
  BY DEF Inv
<1> HIDE DEF a, o
<1>4. NewOwned'
  BY <1>1, <1>2, <1>3, CoreTypes DEF NewOwned, a
<1>5. MapsOwned'
  BY <1>1, <1>2, <1>3, CoreTypes DEF MapsOwned, o
<1>6. \A t \in Sessions : SessionOwned(t)'
  BY <1>1, <1>2, <1>3, CoreTypes DEF SessionOwned, a
<1>7. ThreadOwned'
  BY <1>1, <1>2, <1>3, CoreTypes DEF ThreadOwned
<1> QED BY <1>4, <1>5, <1>6, <1>7 DEF Inv

\* The end of a login: the character that was wanted is held.
LEMMA LoginFromDBInv ==
  ASSUME Inv, TypeOK', NEW away \in BOOLEAN, LoginFromDB(away)
  PROVE  Inv'
<1>1. /\ pc = "callbacks" /\ cur \in Sessions /\ ses[cur].acct \in Accounts
      /\ sessions[ses[cur].acct] = cur /\ ses[cur].load = "sent"
      /\ UNCHANGED <<addQueue, sessions, offline, pc, todo, cur>>
  BY DEF LoginFromDB, Inv, ThreadOwned, net, thread
<1>2. \A t \in Sessions :
        /\ ses'[t].acct = ses[t].acct
        /\ t # cur => /\ ses'[t].player = ses[t].player
                      /\ ses'[t].want = ses[t].want /\ ses'[t].load = ses[t].load
        /\ t = cur => /\ ses'[t].player = ses[t].want
                      /\ ses'[t].want = Null /\ ses'[t].load = "none"
  <2>1. ses \in [Sessions -> Session]
    BY DEF Inv, TypeOK
  <2>2. ses' = [ses EXCEPT ![cur] = [@ EXCEPT !.load = "none", !.want = Null,
                                          !.player = ses[cur].want, !.away = away]]
    BY DEF LoginFromDB
  <2> QED BY <2>1, <2>2 DEF Session
<1>3. TypeOK /\ NewOwned /\ MapsOwned /\ ThreadOwned /\ \A t \in Sessions : SessionOwned(t)
  BY DEF Inv
<1>4. NewOwned'
  BY <1>1, <1>2, <1>3, CoreTypes DEF NewOwned
<1>5. MapsOwned'
  BY <1>1, <1>2, <1>3, CoreTypes DEF MapsOwned
<1>6. \A t \in Sessions : SessionOwned(t)'
  BY <1>1, <1>2, <1>3, CoreTypes DEF SessionOwned
<1>7. ThreadOwned'
  BY <1>1, <1>2, <1>3, CoreTypes DEF ThreadOwned
<1> QED BY <1>4, <1>5, <1>6, <1>7 DEF Inv

\* The sessions of gone are free after the step; of the others the step keeps the
\* account, the character and the login.
Deleted(gone) ==
  \A t \in Sessions :
    /\ t \in gone => /\ ses'[t].acct = Null /\ ses'[t].player = Null
                     /\ ses'[t].want = Null /\ ses'[t].load = "none"
    /\ t \notin gone => /\ ses'[t].acct = ses[t].acct /\ ses'[t].player = ses[t].player
                        /\ ses'[t].want = ses[t].want /\ ses'[t].load = ses[t].load

LEMMA SesAfterDeleted ==
  ASSUME TypeOK, NEW gone, NEW left, NEW promoted, ses' = SesAfter(gone, left, promoted)
  PROVE  Deleted(gone)
BY SesAfterCore DEF Deleted, NoSession

\* A session that is gone was in one of the places it could be found in, and no
\* other session was there.
LEMMA OnePlace ==
  ASSUME Inv
  PROVE  /\ \A a, b \in Accounts :
              /\ sessions[a] # Null /\ sessions[a] = sessions[b] => a = b
              /\ offline[a] # Null /\ offline[a] = offline[b] => a = b
              /\ sessions[a] # Null => sessions[a] # offline[b]
         /\ \A i \in DOMAIN addQueue, a \in Accounts :
              addQueue[i] # sessions[a] /\ addQueue[i] # offline[a]
BY CoreTypes DEF Inv, NewOwned, MapsOwned

LEMMA AddQueueTail ==
  ASSUME TypeOK, addQueue # <<>>
  PROVE  /\ 1 \in DOMAIN addQueue /\ Head(addQueue) = addQueue[1]
         /\ \A i \in DOMAIN Tail(addQueue) : /\ i + 1 \in DOMAIN addQueue /\ i + 1 # 1
                                             /\ Tail(addQueue)[i] = addQueue[i + 1]
         /\ \A i \in DOMAIN addQueue \ {1} : /\ i - 1 \in DOMAIN Tail(addQueue)
                                             /\ addQueue[i] = Tail(addQueue)[i - 1]
         /\ \A i, j \in DOMAIN Tail(addQueue) : i + 1 = j + 1 => i = j
<1>1. addQueue \in Seq(Sessions) /\ Len(addQueue) \in Nat \ {0} /\ DOMAIN addQueue = 1..Len(addQueue)
  BY EmptySeq, LenProperties DEF TypeOK
<1>2. /\ Tail(addQueue) \in Seq(Sessions) /\ Len(Tail(addQueue)) = Len(addQueue) - 1
      /\ \A i \in 1..Len(Tail(addQueue)) : Tail(addQueue)[i] = addQueue[i + 1]
  BY <1>1, HeadTailProperties
<1>3. DOMAIN Tail(addQueue) = 1..(Len(addQueue) - 1)
  BY <1>2, LenProperties
<1>4. Head(addQueue) = addQueue[1]
  BY <1>1
<1> QED BY <1>1, <1>2, <1>3, <1>4

LEMMA NewSessionInv ==
  ASSUME Inv, TypeOK', NEW s \in Sessions, NEW a \in Accounts, NewSession(s, a)
  PROVE  Inv'
<1>1. TypeOK /\ NewOwned /\ MapsOwned /\ ThreadOwned /\ \A t \in Sessions : SessionOwned(t)
  BY DEF Inv
<1>2. /\ UNCHANGED <<sessions, offline, pc, todo, cur>> /\ ses[s].acct = Null
      /\ \A t \in Sessions : t # s => ses'[t] = ses[t]
      /\ ses'[s].acct = a /\ ses'[s].player = Null /\ ses'[s].want = Null
      /\ ses'[s].load = "none"
  BY <1>1 DEF NewSession, TypeOK, Fresh, NoSession, thread
<1>3. /\ DOMAIN addQueue' = DOMAIN addQueue \cup {Len(addQueue) + 1}
      /\ Len(addQueue) + 1 \notin DOMAIN addQueue
      /\ \A i \in DOMAIN addQueue : addQueue'[i] = addQueue[i]
      /\ addQueue'[Len(addQueue) + 1] = s
  <2>1. addQueue \in Seq(Sessions) /\ addQueue' = Append(addQueue, s)
    BY <1>1 DEF NewSession, TypeOK
  <2>2. /\ addQueue' \in Seq(Sessions) /\ Len(addQueue') = Len(addQueue) + 1
        /\ \A i \in 1..Len(addQueue) : addQueue'[i] = addQueue[i]
        /\ addQueue'[Len(addQueue) + 1] = s
    BY <2>1, AppendProperties
  <2>3. /\ DOMAIN addQueue = 1..Len(addQueue) /\ Len(addQueue) \in Nat
        /\ DOMAIN addQueue' = 1..(Len(addQueue) + 1)
    BY <2>1, <2>2, LenProperties
  <2> QED BY <2>2, <2>3
<1>4. /\ \A i \in DOMAIN addQueue : addQueue[i] # s
      /\ \A x \in Accounts : sessions[x] # s /\ offline[x] # s
  BY <1>1, <1>2, CoreTypes DEF NewOwned, MapsOwned
<1>5. NewOwned'
  BY <1>1, <1>2, <1>3, <1>4, CoreTypes DEF NewOwned
<1>6. MapsOwned'
  BY <1>1, <1>2, <1>4, CoreTypes DEF MapsOwned
<1>7. \A t \in Sessions : SessionOwned(t)'
  BY <1>1, <1>2, <1>3, <1>4, CoreTypes DEF SessionOwned
<1>8. ThreadOwned'
  BY <1>1, <1>2, CoreTypes DEF ThreadOwned
<1> QED BY <1>5, <1>6, <1>7, <1>8 DEF Inv

LEMMA RejectSessionInv ==
  ASSUME Inv, TypeOK', RejectSession
  PROVE  Inv'
<1> DEFINE s == Head(addQueue)
<1>1. TypeOK /\ NewOwned /\ MapsOwned /\ ThreadOwned /\ \A t \in Sessions : SessionOwned(t)
  BY DEF Inv
<1>2. /\ UNCHANGED <<sessions, offline, pc, todo, cur>> /\ pc = "add"
      /\ addQueue # <<>> /\ addQueue' = Tail(addQueue)
      /\ ses' = [ses EXCEPT ![s] = NoSession]
  BY DEF RejectSession, thread
<1>3. Deleted({s})
  BY <1>1, <1>2 DEF Deleted, TypeOK, NoSession
<1>4. s = addQueue[1] /\ 1 \in DOMAIN addQueue
  BY <1>1, <1>2, AddQueueTail
<1> HIDE DEF s
<1>5. NewOwned'
  BY <1>1, <1>2, <1>3, <1>4, AddQueueTail, CoreTypes DEF NewOwned, Deleted
<1>6. MapsOwned'
  BY <1>1, <1>2, <1>3, <1>4, OnePlace, CoreTypes DEF MapsOwned, Deleted
<1>7. \A t \in Sessions : SessionOwned(t)'
  <2>1. ASSUME NEW t \in Sessions, t # s, NEW i \in DOMAIN addQueue, addQueue[i] = t
        PROVE  \E j \in DOMAIN addQueue' : addQueue'[j] = t
    <3>1. i # 1 /\ addQueue # <<>>
      BY <1>2, <1>4, <2>1
    <3>2. i - 1 \in DOMAIN Tail(addQueue) /\ addQueue[i] = Tail(addQueue)[i - 1]
      BY <1>1, <3>1, AddQueueTail
    <3> QED BY <1>2, <2>1, <3>2
  <2> QED BY <1>1, <1>2, <1>3, <2>1, CoreTypes DEF SessionOwned, Deleted
<1>8. ThreadOwned'
  BY <1>1, <1>2 DEF ThreadOwned
<1> QED BY <1>5, <1>6, <1>7, <1>8 DEF Inv

LEMMA AbandonSessionInv ==
  ASSUME Inv, TypeOK', NEW a \in Accounts, AbandonSession(a)
  PROVE  Inv'
<1> DEFINE s == sessions[a]
<1>1. TypeOK /\ NewOwned /\ MapsOwned /\ ThreadOwned /\ \A t \in Sessions : SessionOwned(t)
  BY DEF Inv
<1>2. /\ UNCHANGED <<addQueue, pc, cur>> /\ pc = "check" /\ todo' = todo \ {a}
      /\ s # Null /\ ses[s].player # Null
      /\ \A x \in Accounts : /\ offline'[x] = IF x = a THEN s ELSE offline[x]
                             /\ sessions'[x] = IF x = a THEN Null ELSE sessions[x]
  BY <1>1 DEF AbandonSession, ThreadOwned, StaysInWorld, net, TypeOK
<1>3. Deleted({offline[a]})
  BY <1>1, SesAfterDeleted DEF AbandonSession
<1>4. s \in Sessions /\ ses[s].want = Null /\ ses[s].acct = a
  BY <1>1, <1>2, CoreTypes DEF SessionOwned, MapsOwned
<1> HIDE DEF s
<1>5. NewOwned'
  BY <1>1, <1>2, <1>3, <1>4, OnePlace, CoreTypes DEF NewOwned, Deleted, s
<1>6. MapsOwned'
  BY <1>1, <1>2, <1>3, <1>4, OnePlace, CoreTypes DEF MapsOwned, Deleted, s
<1>7. \A t \in Sessions : SessionOwned(t)'
  BY <1>1, <1>2, <1>3, <1>4, OnePlace, CoreTypes DEF SessionOwned, MapsOwned, Deleted, s
<1>8. ThreadOwned'
  BY <1>1, <1>2, CoreTypes DEF ThreadOwned, TypeOK
<1> QED BY <1>5, <1>6, <1>7, <1>8 DEF Inv

LEMMA DeleteSessionInv ==
  ASSUME Inv, TypeOK', DeleteSession
  PROVE  Inv'
<1> DEFINE a == ses[cur].acct
<1>1. TypeOK /\ NewOwned /\ MapsOwned /\ ThreadOwned /\ \A t \in Sessions : SessionOwned(t)
  BY DEF Inv
<1>2. /\ UNCHANGED <<addQueue, offline, todo>> /\ pc = "callbacks" /\ pc' = "check"
      /\ cur \in Sessions /\ a \in Accounts /\ sessions[a] = cur /\ a \notin todo
      /\ \A x \in Accounts : sessions'[x] = IF x = a THEN Null ELSE sessions[x]
  BY <1>1 DEF DeleteSession, ThreadOwned, net, TypeOK
<1>3. Deleted({cur})
  BY <1>1, SesAfterDeleted DEF DeleteSession
<1> HIDE DEF a
<1>4. NewOwned'
  BY <1>1, <1>2, <1>3, OnePlace, CoreTypes DEF NewOwned, Deleted
<1>5. MapsOwned'
  BY <1>1, <1>2, <1>3, OnePlace, CoreTypes DEF MapsOwned, Deleted
<1>6. \A t \in Sessions : SessionOwned(t)'
  BY <1>1, <1>2, <1>3, OnePlace, CoreTypes DEF SessionOwned, Deleted, a
<1>7. ThreadOwned'
  BY <1>1, <1>2, CoreTypes DEF ThreadOwned, TypeOK
<1> QED BY <1>4, <1>5, <1>6, <1>7 DEF Inv

LEMMA EndUpdateInv ==
  ASSUME Inv, TypeOK', EndUpdate
  PROVE  Inv'
<1> DEFINE gone == {o \in Abandoned : Expired(o)}
<1>1. TypeOK /\ NewOwned /\ MapsOwned /\ ThreadOwned /\ \A t \in Sessions : SessionOwned(t)
  BY DEF Inv
<1>2. /\ UNCHANGED <<addQueue, sessions, todo>> /\ pc' \in {"halted", "idle"} /\ todo = {}
      /\ \A a \in Accounts : offline'[a] = IF offline[a] \in gone THEN Null ELSE offline[a]
  <2>1. \A a \in Accounts : offline[a] \in gone <=> offline[a] # Null /\ Expired(offline[a])
    BY <1>1, CoreTypes DEF Abandoned
  <2> QED BY <2>1 DEF EndUpdate, net
<1>3. Deleted(gone)
  BY <1>1, SesAfterDeleted DEF EndUpdate
<1>4. \A o \in gone : \E a \in Accounts : offline[a] # Null /\ o = offline[a]
  BY DEF Abandoned
<1> HIDE DEF gone
<1>5. NewOwned'
  BY <1>1, <1>2, <1>3, <1>4, OnePlace, CoreTypes DEF NewOwned, Deleted
<1>6. MapsOwned'
  BY <1>1, <1>2, <1>3, <1>4, OnePlace, CoreTypes DEF MapsOwned, Deleted
<1>7. \A t \in Sessions : SessionOwned(t)'
  BY <1>1, <1>2, <1>3, <1>4, OnePlace, CoreTypes DEF SessionOwned, Deleted
<1>8. ThreadOwned'
  BY <1>2 DEF ThreadOwned
<1> QED BY <1>5, <1>6, <1>7, <1>8 DEF Inv

\* The session objects once those of gone are deleted.
Without(base, gone) ==
  \A t \in Sessions :
    /\ t \in gone => base[t] = NoSession
    /\ t \notin gone => /\ base[t].acct = ses[t].acct
                        /\ base[t].player = ses[t].player
                        /\ base[t].want = ses[t].want
                        /\ base[t].load = ses[t].load

LEMMA SesAfterWithout ==
  ASSUME TypeOK, NEW gone, NEW left, NEW promoted
  PROVE  Without(SesAfter(gone, left, promoted), gone)
BY SesAfterCore DEF Without

\* The account's old session is deleted, or takes the place of its offline session.
Displaced(a, gone) ==
  \/ gone = {sessions[a]} /\ offline' = offline
  \/ /\ gone = {offline[a]} /\ offline' = [offline EXCEPT ![a] = sessions[a]]
     /\ sessions[a] # Null /\ ses[sessions[a]].load = "none"

\* What AddSession and ReplaceSession have in common: gone holds the deleted
\* session, if any.
LEMMA EnlistInv ==
  ASSUME Inv, TypeOK', pc = "add", addQueue # <<>>, addQueue' = Tail(addQueue),
         UNCHANGED <<pc, todo, cur>>,
         NEW s, s = Head(addQueue), NEW a, a = ses[s].acct,
         NEW base \in [Sessions -> Session], NEW q, NEW rec, Enlist(s, a, base, q, rec),
         NEW gone, Without(base, gone), Displaced(a, gone)
  PROVE  Inv'
<1>1. TypeOK /\ NewOwned /\ MapsOwned /\ ThreadOwned /\ \A t \in Sessions : SessionOwned(t)
  BY DEF Inv
<1>2. s \in Sessions /\ s = addQueue[1] /\ 1 \in DOMAIN addQueue /\ a \in Accounts
      /\ ses[s].player = Null /\ ses[s].want = Null
      /\ sessions[a] # s /\ offline[a] # s
  BY <1>1, AddQueueTail, CoreTypes DEF NewOwned
<1>3. \A x \in Accounts : sessions'[x] = IF x = a THEN s ELSE sessions[x]
  BY <1>1 DEF Enlist, TypeOK
<1>4. \A t \in Sessions : ses'[t].acct = base[t].acct /\ ses'[t].player = base[t].player
                          /\ ses'[t].want = base[t].want /\ ses'[t].load = base[t].load
  <2> TAKE t \in Sessions
  <2>1. ses'[t] \in {base[t], [base[t] EXCEPT !.inQueue = TRUE],
                   [base[t] EXCEPT !.init = "sent"]}
    BY DEF Enlist
  <2> QED BY <2>1 DEF Session
<1>5. Deleted(gone)
  BY <1>4 DEF Deleted, Without, NoSession
<1>6. s \notin gone
  BY <1>2 DEF Displaced
<1>7. ASSUME NEW t \in Sessions, t # s, NEW i \in DOMAIN addQueue, addQueue[i] = t
      PROVE  \E j \in DOMAIN addQueue' : addQueue'[j] = t
  <2>1. i # 1
    BY <1>2, <1>7
  <2>2. i - 1 \in DOMAIN Tail(addQueue) /\ addQueue[i] = Tail(addQueue)[i - 1]
    BY <1>1, <2>1, AddQueueTail
  <2> QED BY <1>7, <2>2
<1>8. CASE gone = {sessions[a]} /\ offline' = offline
  <2>1. NewOwned'
    BY <1>1, <1>2, <1>3, <1>5, <1>6, <1>8, OnePlace, AddQueueTail, CoreTypes
       DEF NewOwned, Deleted
  <2>2. MapsOwned'
    BY <1>1, <1>2, <1>3, <1>5, <1>6, <1>8, OnePlace, CoreTypes DEF MapsOwned, Deleted
  <2>3. \A t \in Sessions : SessionOwned(t)'
    BY <1>1, <1>2, <1>3, <1>5, <1>6, <1>7, <1>8, OnePlace, CoreTypes
       DEF SessionOwned, Deleted
  <2> QED BY <1>1, <2>1, <2>2, <2>3 DEF Inv, ThreadOwned
<1>9. CASE /\ gone = {offline[a]} /\ offline' = [offline EXCEPT ![a] = sessions[a]]
           /\ sessions[a] # Null /\ ses[sessions[a]].load = "none"
  <2>1. /\ \A x \in Accounts : offline'[x] = IF x = a THEN sessions[a] ELSE offline[x]
        /\ sessions[a] \in Sessions /\ ses[sessions[a]].want = Null
    BY <1>1, <1>2, <1>9, CoreTypes DEF TypeOK, SessionOwned
  <2>2. NewOwned'
    BY <1>1, <1>2, <1>3, <1>5, <1>6, <1>9, <2>1, OnePlace, AddQueueTail, CoreTypes
       DEF NewOwned, Deleted
  <2>3. MapsOwned'
    <3> SUFFICES ASSUME NEW x \in Accounts
                 PROVE  (/\ sessions[x] # Null => ses[sessions[x]].acct = x /\ sessions[x] # offline[x]
                         /\ offline[x] # Null => ses[offline[x]].acct = x /\ ses[offline[x]].want = Null
                         /\ sessions[x] # Null /\ offline[x] # Null =>
                              \A c \in Chars : ses[offline[x]].player = c =>
                                ses[sessions[x]].player # c /\ ses[sessions[x]].want # c)'
      BY DEF MapsOwned
    <3>1. CASE x = a
      <4>1. sessions'[x] = s /\ offline'[x] = sessions[a] /\ s # sessions[a]
        BY <1>2, <1>3, <2>1, <3>1
      <4>2. sessions[a] \notin gone
        BY <1>1, <1>2, <1>9 DEF MapsOwned
      <4>3. /\ ses'[s].acct = a /\ ses'[s].player = Null /\ ses'[s].want = Null
            /\ ses'[sessions[a]].acct = a /\ ses'[sessions[a]].want = Null
        BY <1>1, <1>2, <1>5, <1>6, <1>9, <2>1, <4>2 DEF MapsOwned, Deleted
      <4>4. Null \notin Chars
        BY <1>1, CoreTypes
      <4>5. QED BY <3>1, <4>1, <4>3, <4>4
    <3>2. CASE x # a
      <4>1. sessions'[x] = sessions[x] /\ offline'[x] = offline[x]
        BY <1>3, <2>1, <3>2
      <4>2. ASSUME NEW t \in Sessions, t \in {sessions[x], offline[x]}
            PROVE  ses'[t].acct = ses[t].acct /\ ses'[t].player = ses[t].player /\ ses'[t].want = ses[t].want
        <5>1. t # Null
          BY <1>1, CoreTypes
        <5>2. t # offline[a]
          BY <1>2, <3>2, <4>2, <5>1, OnePlace
        <5>3. QED BY <1>5, <1>9, <5>2 DEF Deleted
      <4>3. sessions[x] \in Sessions \cup {Null} /\ offline[x] \in Sessions \cup {Null}
        BY <1>1, CoreTypes
      <4>4. QED BY <1>1, <4>1, <4>2, <4>3 DEF MapsOwned
    <3>3. QED BY <3>1, <3>2
  <2>4. \A t \in Sessions : SessionOwned(t)'
    BY <1>1, <1>2, <1>3, <1>5, <1>6, <1>7, <1>9, <2>1, OnePlace, CoreTypes
       DEF SessionOwned, Deleted
  <2> QED BY <1>1, <2>2, <2>3, <2>4 DEF Inv, ThreadOwned
<1> QED BY <1>8, <1>9 DEF Displaced

LEMMA AddSessionInv ==
  ASSUME Inv, TypeOK', AddSession \/ ReplaceSession
  PROVE  Inv'
<1> DEFINE s == Head(addQueue)
           a == ses[s].acct
           old == sessions[a]
           stays == StaysInWorld(Closed(ses[old]))
<1>1. TypeOK
  BY DEF Inv
<1>2. CASE AddSession
  <2>1. /\ Enlist(s, a, ses, queue, recent) /\ offline' = offline
        /\ pc = "add" /\ addQueue # <<>> /\ addQueue' = Tail(addQueue)
        /\ UNCHANGED <<pc, todo, cur>> /\ old = Null
    BY <1>2 DEF AddSession, thread
  <2>2. Without(ses, {old}) /\ Displaced(a, {old})
    BY <2>1, ConstantsAssumption DEF Without, Displaced
  <2>3. ses \in [Sessions -> Session]
    BY <1>1 DEF TypeOK
  <2> HIDE DEF s, a, old
  <2> QED BY <2>1, <2>2, <2>3, EnlistInv DEF s, a, old
<1>3. CASE ReplaceSession /\ stays
  <2> DEFINE base == SesAfter({offline[a]}, {old}, Promoted(old))
  <2>1. /\ Enlist(s, a, base, QueueAfter(old), RecentAfter(old, a))
        /\ offline' = [offline EXCEPT ![a] = old]
        /\ pc = "add" /\ addQueue # <<>> /\ addQueue' = Tail(addQueue)
        /\ UNCHANGED <<pc, todo, cur>> /\ old # Null /\ ses[old].load = "none"
    BY <1>3 DEF ReplaceSession, thread
  <2>2. base \in [Sessions -> Session]
    BY <1>1, SesAfterType
  <2>3. Without(base, {offline[a]})
    BY <1>1, SesAfterWithout
  <2>4. Displaced(a, {offline[a]})
    BY <2>1 DEF Displaced
  <2> HIDE DEF base
  <2> QED BY <2>1, <2>2, <2>3, <2>4, EnlistInv
<1>4. CASE ReplaceSession /\ ~stays
  <2> DEFINE base == SesAfter({old}, {}, Promoted(old))
  <2>1. /\ Enlist(s, a, base, QueueAfter(old), RecentAfter(old, a))
        /\ offline' = offline
        /\ pc = "add" /\ addQueue # <<>> /\ addQueue' = Tail(addQueue)
        /\ UNCHANGED <<pc, todo, cur>>
    BY <1>4 DEF ReplaceSession, thread
  <2>2. base \in [Sessions -> Session]
    BY <1>1, SesAfterType
  <2>3. Without(base, {old})
    BY <1>1, SesAfterWithout
  <2>4. Displaced(a, {old})
    BY <2>1 DEF Displaced
  <2> HIDE DEF base
  <2> QED BY <2>1, <2>2, <2>3, <2>4, EnlistInv
<1> QED BY <1>2, <1>3, <1>4

\* Every step keeps the invariant.
LEMMA NextInv == Inv /\ [Next]_vars => Inv'
<1> SUFFICES ASSUME Inv, [Next]_vars PROVE Inv'
  OBVIOUS
<1>1. TypeOK'
  BY NextTypeOK DEF Inv
<1>2. CASE QuietStep
  BY <1>1, <1>2, QuietInv
<1>3. CASE RejectSession
  BY <1>1, <1>3, RejectSessionInv
<1>4. CASE AddSession \/ ReplaceSession
  BY <1>1, <1>4, AddSessionInv
<1>5. ASSUME NEW a \in Accounts, AbandonSession(a) PROVE Inv'
  BY <1>1, <1>5, AbandonSessionInv
<1>6. ASSUME NEW away \in BOOLEAN, LoginFromDB(away) PROVE Inv'
  BY <1>1, <1>6, LoginFromDBInv
<1>7. CASE DeleteSession
  BY <1>1, <1>7, DeleteSessionInv
<1>8. CASE EndUpdate
  BY <1>1, <1>8, EndUpdateInv
<1>9. ASSUME NEW s \in Sessions, NEW c \in Chars, LoginRequested(s, c) PROVE Inv'
  BY <1>1, <1>9, LoginRequestedInv
<1>10. ASSUME NEW s \in Sessions, NEW c \in Chars, Reclaim(s, c) PROVE Inv'
  BY <1>1, <1>10, ReclaimInv
<1>11. ASSUME NEW s \in Sessions, NEW a \in Accounts, NewSession(s, a) PROVE Inv'
  BY <1>1, <1>11, NewSessionInv
<1>12. \/ QuietStep \/ RejectSession \/ AddSession \/ ReplaceSession
       \/ \E a \in Accounts : AbandonSession(a)
       \/ \E away \in BOOLEAN : LoginFromDB(away)
       \/ DeleteSession \/ EndUpdate
       \/ \E s \in Sessions, c \in Chars : LoginRequested(s, c) \/ Reclaim(s, c)
       \/ \E s \in Sessions, a \in Accounts : NewSession(s, a)
  BY DEF Next, AddStep, LoopStep, Packet, Other, Halted, QuietStep
<1> QED BY <1>2, <1>3, <1>4, <1>5, <1>6, <1>7, <1>8, <1>9, <1>10, <1>11, <1>12

LEMMA Invariance == Spec => []Inv
<1>1. Init => Inv
  BY InitInv
<1>2. Inv /\ [Next]_vars => Inv'
  BY NextInv
<1> QED BY <1>1, <1>2, PTL DEF Spec

\* Every reachable state of the session manager is well typed: UpdateSessions and
\* the handlers never put a session, an account or an age where it does not belong.
THEOREM TypeCorrect == Spec => []TypeOK
<1>1. Inv => TypeOK
  BY DEF Inv
<1> QED BY <1>1, Invariance, PTL

\* The raw WorldSession pointers of _addSessQueue, _sessions and _offlineSessions
\* neither leak a session nor dangle, and no session is found in two places.
THEOREM SessionsOwnedOnce == Spec => []OwnedOnce
<1>1. Inv => OwnedOnce
  <2> SUFFICES ASSUME Inv PROVE OwnedOnce
    OBVIOUS
  <2>0. TypeOK /\ NewOwned /\ MapsOwned /\ \A s \in Sessions : SessionOwned(s)
    BY DEF Inv
  <2>1. ASSUME NEW s \in Sessions, ses[s].acct # Null
        PROVE  \E h \in Holders(s) : Holders(s) = {h}
    <3> DEFINE a == ses[s].acct
    <3>1. a \in Accounts
      BY <2>0, <2>1, CoreTypes
    <3>2. \A b \in Accounts : sessions[b] = s \/ offline[b] = s => b = a
      BY <2>0, CoreTypes DEF MapsOwned
    <3>3. CASE \E i \in DOMAIN addQueue : addQueue[i] = s
      <4> PICK i \in DOMAIN addQueue : addQueue[i] = s
        BY <3>3
      <4>1. \A j \in DOMAIN addQueue : addQueue[j] = s => j = i
        BY <2>0 DEF NewOwned
      <4>2. \A b \in Accounts : sessions[b] # s /\ offline[b] # s
        BY <2>0, <3>2 DEF NewOwned
      <4>3. /\ {j \in DOMAIN addQueue : addQueue[j] = s} = {i}
            /\ {b \in Accounts : sessions[b] = s} = {}
            /\ {b \in Accounts : offline[b] = s} = {}
        BY <4>1, <4>2
      <4>4. Holders(s) = {<<"new", i>>}
        BY <4>3 DEF Holders
      <4> QED BY <4>4
    <3>4. CASE sessions[a] = s
      <4>1. offline[a] # s /\ \A i \in DOMAIN addQueue : addQueue[i] # s
        BY <2>0, <3>1, <3>4, CoreTypes DEF MapsOwned, NewOwned
      <4> HIDE DEF a
      <4>2. /\ {j \in DOMAIN addQueue : addQueue[j] = s} = {}
            /\ {b \in Accounts : sessions[b] = s} = {a}
            /\ {b \in Accounts : offline[b] = s} = {}
        BY <3>1, <3>2, <3>4, <4>1
      <4>3. Holders(s) = {<<"live", a>>}
        BY <4>2 DEF Holders
      <4> QED BY <4>3
    <3>5. CASE offline[a] = s
      <4>1. sessions[a] # s /\ \A i \in DOMAIN addQueue : addQueue[i] # s
        BY <2>0, <3>1, <3>5, CoreTypes DEF MapsOwned, NewOwned
      <4> HIDE DEF a
      <4>2. /\ {j \in DOMAIN addQueue : addQueue[j] = s} = {}
            /\ {b \in Accounts : sessions[b] = s} = {}
            /\ {b \in Accounts : offline[b] = s} = {a}
        BY <3>1, <3>2, <3>5, <4>1
      <4>3. Holders(s) = {<<"offline", a>>}
        BY <4>2 DEF Holders
      <4> QED BY <4>3
    <3> QED BY <2>0, <2>1, <3>3, <3>4, <3>5 DEF SessionOwned
  <2>2. ASSUME NEW s \in Sessions, ses[s].acct = Null
        PROVE  Holders(s) = {}
    <3>1. \A i \in DOMAIN addQueue : addQueue[i] # s
      BY <2>0, <2>2, CoreTypes DEF NewOwned
    <3>2. \A b \in Accounts : sessions[b] # s /\ offline[b] # s
      BY <2>0, <2>2, CoreTypes DEF MapsOwned
    <3> QED BY <3>1, <3>2 DEF Holders
  <2> QED BY <2>0, <2>1, <2>2 DEF OwnedOnce, Allocated, MapsOwned
<1> QED BY <1>1, Invariance, PTL

\* There are never two Player objects of one character: no two sessions hold it, and
\* none loads it while another holds it.
THEOREM CharacterHeldOnce == Spec => []OneHolder
<1>1. Inv => OneHolder
  <2> SUFFICES ASSUME Inv, NEW s \in Sessions, NEW t \in Sessions, s # t,
                      ses[s].player # Null
               PROVE  ses[s].player # ses[t].player /\ ses[s].player # ses[t].want
    BY DEF OneHolder
  <2>0. TypeOK /\ NewOwned /\ MapsOwned /\ \A r \in Sessions : SessionOwned(r)
    BY DEF Inv
  <2> DEFINE c == ses[s].player
             a == Owner[c]
  <2>1. c \in Chars /\ a \in Accounts /\ ses[s].acct = a
    BY <2>0, CoreTypes, ConstantsAssumption DEF SessionOwned
  <2>2. sessions[a] = s \/ offline[a] = s
    BY <2>0, <2>1, CoreTypes DEF SessionOwned, NewOwned
  <2>3. ASSUME c = ses[t].player \/ c = ses[t].want
        PROVE  FALSE
    <3>1. ses[t].acct = a
      BY <2>0, <2>1, <2>3, CoreTypes DEF SessionOwned
    <3>2. sessions[a] = t \/ offline[a] = t
      BY <2>0, <2>1, <2>3, <3>1, CoreTypes DEF SessionOwned, NewOwned
    <3> QED BY <2>0, <2>1, <2>2, <2>3, <3>2, CoreTypes DEF MapsOwned
  <2> QED BY <2>3
<1> QED BY <1>1, Invariance, PTL

-----------------------------------------------------------------------------
(***************************************************************************)
(* One character in the world for each account, and none after shutdown.   *)
(* Whoever begins to load a character kicks the one the account left in    *)
(* the world, and the loop over _offlineSessions, which comes after that   *)
(* over _sessions, deletes it before the next update.  In the update of    *)
(* the shutdown every session with a character is closed and kicked, is    *)
(* visited once and then deleted; the others cannot get that far.          *)
(***************************************************************************)

Busy(r) == r.player # Null \/ r.want # Null

Doomed(r) == r.kicked /\ r.sock # "open"

\* The character an account left in the world while it has or loads another one.
LeftBehind ==
  \A a \in Accounts :
    sessions[a] # Null /\ offline[a] # Null /\ Busy(ses[sessions[a]]) =>
      \/ ses[offline[a]].player = Null
      \/ ses[offline[a]].kicked /\ pc # "idle"

\* The loop over _sessions has not yet handled packets of the account, or it has and
\* stands at the end of its update.
ToVisit(a) == pc = "add" \/ a \in todo \/ (pc = "packets" /\ cur = sessions[a])
Visiting(a) == pc = "callbacks" /\ cur = sessions[a]

LastUpdate ==
  /\ \A i \in DOMAIN addQueue : ses[addQueue[i]].roster # "listed"
  /\ pc = "halted" => final /\ \A a \in Accounts : offline[a] = Null
  /\ final => stopped /\ pc # "idle"
  /\ final => \A a \in Accounts :
       /\ offline[a] # Null => ses[offline[a]].kicked
       /\ sessions[a] # Null =>
            \/ Doomed(ses[sessions[a]]) /\ (ToVisit(a) \/ Visiting(a))
            \/ ~ Busy(ses[sessions[a]]) /\ (ToVisit(a) => ses[sessions[a]].roster # "listed")

\* A session that a step brings no nearer to a character, and does not pardon.
Worn(t) ==
  /\ ses'[t].player \in {ses[t].player, Null} /\ ses'[t].want \in {ses[t].want, Null}
  /\ ses[t].kicked => ses'[t].kicked
  /\ ses[t].sock # "open" => ses'[t].sock # "open"
  /\ ses'[t].roster = "listed" => ses[t].roster = "listed"

LEMMA QuietWorn ==
  ASSUME Inv, QuietStep, ~ HandleCharEnum, NEW s \in Sessions
  PROVE  Worn(s)
<1>0. ses'[s].player \in {ses[s].player, Null} /\ ses'[s].want \in {ses[s].want, Null}
  BY QuietKept DEF Kept
<1> DEFINE Firm == /\ ses[s].kicked => ses'[s].kicked
                   /\ ses[s].sock # "open" => ses'[s].sock # "open"
                   /\ ses'[s].roster = "listed" => ses[s].roster = "listed"
<1>1. ses \in [Sessions -> Session] /\ ses[s] \in Session
  BY DEF Inv, TypeOK
<1>2. ASSUME NEW r \in Session
      PROVE  /\ Closed(r).kicked = r.kicked /\ Closed(r).roster = r.roster /\ Closed(r).sock # "open"
             /\ Kicked(r).kicked /\ Kicked(r).roster = r.roster /\ Kicked(r).sock # "open"
             /\ LoggedOut(r).kicked = r.kicked /\ LoggedOut(r).roster = r.roster
             /\ LoggedOut(r).sock = r.sock
  BY DEF Closed, Kicked, LoggedOut, Session
<1>3. CASE \E d \in {0, 1} : BeginUpdate(d)
  <2> PICK d \in {0, 1} : BeginUpdate(d)
    BY <1>3
  <2> DEFINE l == IF ses[s].logout = -1 THEN -1 ELSE UpTo(ses[s].logout + d, LogoutDelay)
             g == IF s \in Abandoned THEN UpTo(ses[s].age + d, Grace + 1) ELSE ses[s].age
  <2>1. ses'[s] = [ses[s] EXCEPT !.logout = l, !.age = g]
    BY DEF BeginUpdate
  <2> HIDE DEF l, g
  <2>2. Firm
    BY <1>1, <2>1 DEF Session
  <2> QED BY <1>0, <2>2 DEF Worn
<1>4. CASE KickAll
  <2>1. Firm
    BY <1>1, <1>2, <1>4 DEF KickAll
  <2> QED BY <1>0, <2>1 DEF Worn
<1>5. CASE StopNow \/ EndAdd \/ EndPackets \/ UNCHANGED vars
  <2>1. ses' = ses
    BY <1>5 DEF StopNow, EndAdd, EndPackets, vars
  <2> QED BY <1>0, <2>1 DEF Worn
<1>6. CASE InitializeSessionCallback
  <2>1. ses'[s] \in {ses[s], [ses[s] EXCEPT !.init = "none", !.inQueue = FALSE]}
    BY <1>1, <1>6 DEF InitializeSessionCallback
  <2>2. Firm
    BY <1>1, <2>1 DEF Session
  <2> QED BY <1>0, <2>2 DEF Worn
<1>7. CASE LoadFromDBFails
  <2> DEFINE k == Kicked(ses[s])
  <2>1. ses'[s] \in {ses[s], [k EXCEPT !.load = "none", !.want = Null, !.player = Null]}
    BY <1>1, <1>7 DEF LoadFromDBFails
  <2>2. k \in Session /\ k.kicked /\ k.sock # "open" /\ k.roster = ses[s].roster
    BY <1>1, <1>2, SessionTypes
  <2> HIDE DEF k
  <2>3. Firm
    BY <1>1, <2>1, <2>2 DEF Session
  <2> QED BY <1>0, <2>3 DEF Worn
<1>8. CASE KeepSession \/ \E a \in Accounts, idle \in BOOLEAN : BeginSessionUpdate(a, idle)
  <2>1. ses'[s] \in {ses[s], LoggedOut(ses[s]), Closed(ses[s])}
    BY <1>1, <1>8 DEF KeepSession, BeginSessionUpdate
  <2> QED BY <1>0, <1>1, <1>2, <2>1 DEF Worn
<1>9. ASSUME NEW t \in Sessions, NEW c \in Chars, LoginKicked(t, c) PROVE Worn(s)
  <2>1. ses'[s] \in {ses[s], Kicked(ses[s])}
    BY <1>1, <1>9 DEF LoginKicked
  <2> QED BY <1>0, <1>1, <1>2, <2>1 DEF Worn
<1>10. ASSUME NEW t \in Sessions, InstantLogout(t) \/ KickPlayer(t) PROVE Worn(s)
  <2>1. ses'[s] \in {ses[s], Kicked(ses[s]), LoggedOut(ses[s])}
    BY <1>1, <1>10 DEF InstantLogout, KickPlayer
  <2> QED BY <1>0, <1>1, <1>2, <2>1 DEF Worn
<1>11. ASSUME NEW t \in Sessions, CharEnum(t) PROVE Worn(s)
  <2>1. ses'[s] \in {ses[s], [ses[s] EXCEPT !.roster = "sent"]}
    BY <1>1, <1>11 DEF CharEnum
  <2>2. Firm
    BY <1>1, <2>1 DEF Session
  <2> QED BY <1>0, <2>2 DEF Worn
<1>12. ASSUME NEW t \in Sessions, SocketClose(t) PROVE Worn(s)
  <2>1. ses'[s] \in {ses[s], [ses[s] EXCEPT !.sock = "closed"]}
    BY <1>1, <1>12 DEF SocketClose
  <2>2. Firm
    BY <1>1, <2>1 DEF Session
  <2> QED BY <1>0, <2>2 DEF Worn
<1>13. ASSUME NEW t \in Sessions, MovePlayer(t) PROVE Worn(s)
  <2>1. ses'[s] \in {ses[s], [ses[s] EXCEPT !.away = ~ @]}
    BY <1>1, <1>13 DEF MovePlayer
  <2>2. Firm
    BY <1>1, <2>1 DEF Session
  <2> QED BY <1>0, <2>2 DEF Worn
<1>14. ASSUME NEW t \in Sessions, NEW l \in {-1, 0}, SetLogoutStartTime(t, l)
       PROVE  Worn(s)
  <2>1. ses'[s] \in {ses[s], [ses[s] EXCEPT !.logout = l]}
    BY <1>1, <1>14 DEF SetLogoutStartTime
  <2>2. Firm
    BY <1>1, <2>1 DEF Session
  <2> QED BY <1>0, <2>2 DEF Worn
<1> QED BY <1>3, <1>4, <1>5, <1>6, <1>7, <1>8, <1>9, <1>10, <1>11, <1>12, <1>13, <1>14
        DEF QuietStep

\* A step that keeps the maps and wears out the sessions.
LEMMA WornLeftBehind ==
  ASSUME Inv, LeftBehind, UNCHANGED <<sessions, offline>>, pc' = "idle" => pc = "idle",
         \A s \in Sessions :
           /\ ses'[s].player \in {ses[s].player, Null} /\ ses'[s].want \in {ses[s].want, Null}
           /\ ses[s].kicked => ses'[s].kicked
  PROVE  LeftBehind'
<1>1. TypeOK
  BY DEF Inv
<1> QED BY <1>1, CoreTypes DEF LeftBehind, Busy

LEMMA WornLastUpdate ==
  ASSUME Inv, LastUpdate, UNCHANGED <<addQueue, sessions, offline, final>>,
         stopped => stopped', final => pc' # "idle", pc' = "halted" => pc = "halted",
         \A s \in Sessions : Worn(s),
         final => \A a \in Accounts : sessions[a] # Null =>
           /\ Doomed(ses[sessions[a]]) /\ (ToVisit(a) \/ Visiting(a)) => (ToVisit(a) \/ Visiting(a))'
           /\ ToVisit(a)' => ToVisit(a)
  PROVE  LastUpdate'
<1>1. TypeOK
  BY DEF Inv
<1>2. \A i \in DOMAIN addQueue : ses'[addQueue[i]].roster # "listed"
  BY <1>1, CoreTypes DEF LastUpdate, Worn
<1>3. pc' = "halted" => final /\ \A a \in Accounts : offline[a] = Null
  BY DEF LastUpdate
<1>4. final => \A a \in Accounts : offline[a] # Null => ses'[offline[a]].kicked
  BY <1>1, CoreTypes DEF LastUpdate, Worn
<1>5. ASSUME final, NEW a \in Accounts, sessions[a] # Null
      PROVE  \/ Doomed(ses[sessions[a]])' /\ (ToVisit(a) \/ Visiting(a))'
             \/ ~ Busy(ses[sessions[a]])' /\ (ToVisit(a)' => ses'[sessions[a]].roster # "listed")
  <2> DEFINE s == sessions[a]
  <2>1. s \in Sessions /\ s' = s /\ Worn(s)
    BY <1>1, <1>5, CoreTypes
  <2>2. \/ Doomed(ses[s]) /\ (ToVisit(a) \/ Visiting(a))
        \/ ~ Busy(ses[s]) /\ (ToVisit(a) => ses[s].roster # "listed")
    BY <1>5 DEF LastUpdate
  <2>3. /\ Doomed(ses[s]) /\ (ToVisit(a) \/ Visiting(a)) => (ToVisit(a) \/ Visiting(a))'
        /\ ToVisit(a)' => ToVisit(a)
    BY <1>5
  <2>4. /\ Doomed(ses[s]) => Doomed(ses'[s])
        /\ ~ Busy(ses[s]) => ~ Busy(ses'[s])
        /\ ses[s].roster # "listed" => ses'[s].roster # "listed"
    BY <2>1 DEF Worn, Doomed, Busy
  <2> QED BY <2>1, <2>2, <2>3, <2>4
<1> QED BY <1>2, <1>3, <1>4, <1>5 DEF LastUpdate

LEMMA QuietLeftBehind ==
  ASSUME Inv, LeftBehind, QuietStep
  PROVE  LeftBehind'
<1>1. UNCHANGED <<sessions, offline>>
  BY QuietKept, QuietThread
<1>2. pc' = "idle" => pc = "idle"
  BY DEF QuietStep, BeginUpdate, StopNow, KickAll, EndAdd, EndPackets,
         InitializeSessionCallback, HandleCharEnum, LoadFromDBFails, KeepSession,
         BeginSessionUpdate, LoginKicked, CharEnum, InstantLogout,
         SetLogoutStartTime, SocketClose, KickPlayer, MovePlayer, vars, thread
<1>3. CASE HandleCharEnum
  <2>1. ses' = [ses EXCEPT ![cur].roster = "listed"] /\ ses \in [Sessions -> Session]
    BY <1>3 DEF HandleCharEnum, Inv, TypeOK
  <2>2. \A s \in Sessions : /\ ses'[s].player = ses[s].player /\ ses'[s].want = ses[s].want
                            /\ ses'[s].kicked = ses[s].kicked
    BY <2>1 DEF Session
  <2> QED BY <1>1, <1>2, <2>2, WornLeftBehind
<1>4. CASE ~ HandleCharEnum
  <2>1. \A s \in Sessions : Worn(s)
    BY <1>4, QuietWorn
  <2> QED BY <1>1, <1>2, <2>1, WornLeftBehind DEF Worn
<1> QED BY <1>3, <1>4

\* The shutdown handler kicks everybody before its update begins.
LEMMA KickAllLast ==
  ASSUME Inv, LastUpdate, KickAll
  PROVE  LastUpdate'
<1>1. /\ UNCHANGED <<addQueue, sessions, offline, stopped>> /\ stopped
      /\ pc' = "add" /\ final'
      /\ ses' = [s \in Sessions |-> IF s \in Live \cup Abandoned THEN Kicked(ses[s]) ELSE ses[s]]
  BY DEF KickAll, net
<1>2. TypeOK /\ ses \in [Sessions -> Session]
  BY DEF Inv, TypeOK
<1>3. \A s \in Sessions : s \in Live \cup Abandoned => Doomed(ses'[s])
  BY <1>1, <1>2 DEF Doomed, Kicked, Closed, Session
<1>4. QuietStep /\ ~ HandleCharEnum
  BY DEF QuietStep, KickAll, HandleCharEnum
<1>5. \A i \in DOMAIN addQueue : ses'[addQueue[i]].roster # "listed"
  BY <1>2, <1>4, QuietWorn, CoreTypes DEF LastUpdate, Worn
<1>6. ASSUME NEW a \in Accounts
      PROVE  /\ offline[a] # Null => ses'[offline[a]].kicked
             /\ sessions[a] # Null => Doomed(ses'[sessions[a]])
  <2>1. /\ offline[a] # Null => offline[a] \in Sessions /\ offline[a] \in Abandoned
        /\ sessions[a] # Null => sessions[a] \in Sessions /\ sessions[a] \in Live
    BY <1>2, CoreTypes DEF Abandoned, Live, Listed
  <2> QED BY <1>3, <2>1 DEF Doomed
<1> QED BY <1>1, <1>5, <1>6 DEF LastUpdate, ToVisit

LEMMA QuietLast ==
  ASSUME Inv, LastUpdate, QuietStep
  PROVE  LastUpdate'
<1>0. TypeOK /\ ThreadOwned /\ MapsOwned
  BY DEF Inv
<1>1. UNCHANGED <<addQueue, sessions, offline>>
  BY QuietKept, QuietThread
<1>2. CASE KickAll
  BY <1>2, KickAllLast
<1>3. CASE HandleCharEnum
  <2>1. /\ ses' = [ses EXCEPT ![cur].roster = "listed"] /\ ses \in [Sessions -> Session]
        /\ UNCHANGED <<pc, todo, cur, stopped, final>> /\ pc = "callbacks"
        /\ cur \in Sessions /\ ses[cur].acct \in Accounts
        /\ sessions[ses[cur].acct] = cur /\ ses[cur].acct \notin todo
    BY <1>0, <1>3 DEF HandleCharEnum, TypeOK, ThreadOwned, thread
  <2>2. \A s \in Sessions : /\ ses'[s].player = ses[s].player /\ ses'[s].want = ses[s].want
                            /\ ses'[s].kicked = ses[s].kicked /\ ses'[s].sock = ses[s].sock
                            /\ s # cur => ses'[s].roster = ses[s].roster
    BY <2>1 DEF Session
  <2>3. \A i \in DOMAIN addQueue : addQueue[i] # cur /\ addQueue[i] \in Sessions
    BY <1>0, <2>1, OnePlace, CoreTypes
  <2>4. \A a \in Accounts : sessions[a] = cur => ~ ToVisit(a)
    BY <1>0, <2>1, OnePlace, CoreTypes DEF ToVisit
  <2>5. \A a \in Accounts : (ToVisit(a) <=> ToVisit(a)') /\ (Visiting(a) <=> Visiting(a)')
    BY <1>1, <2>1 DEF ToVisit, Visiting
  <2> QED BY <1>0, <1>1, <2>1, <2>2, <2>3, <2>4, <2>5, CoreTypes DEF LastUpdate, Doomed, Busy
<1>4. CASE ~ HandleCharEnum /\ ~ KickAll
  <2>1. \A s \in Sessions : Worn(s)
    BY <1>4, QuietWorn
  <2>2. CASE \E d \in {0, 1} : BeginUpdate(d)
    <3>1. UNCHANGED <<stopped, final>> /\ ~ stopped /\ pc' = "add"
      BY <2>2 DEF BeginUpdate
    <3>2. ~ final
      BY <3>1 DEF LastUpdate
    <3> QED BY <1>1, <2>1, <3>1, <3>2, WornLastUpdate
  <2>3. CASE EndAdd
    <3>1. UNCHANGED <<stopped, final>> /\ pc = "add" /\ pc' = "check" /\ todo' = Listed
      BY <2>3 DEF EndAdd
    <3>2. \A a \in Accounts : sessions[a] # Null => ToVisit(a) /\ ToVisit(a)'
      BY <3>1 DEF ToVisit, Listed
    <3> QED BY <1>1, <2>1, <3>1, <3>2, WornLastUpdate
  <2>4. CASE EndPackets
    <3>1. UNCHANGED <<stopped, final, todo, cur>> /\ pc = "packets" /\ pc' = "callbacks"
      BY <2>4 DEF EndPackets
    <3>2. \A a \in Accounts : /\ ToVisit(a) \/ Visiting(a) => (ToVisit(a) \/ Visiting(a))'
                              /\ ToVisit(a)' => ToVisit(a)
      BY <1>1, <3>1 DEF ToVisit, Visiting
    <3> QED BY <1>1, <2>1, <3>1, <3>2, WornLastUpdate
  <2>5. CASE KeepSession
    <3>1. /\ UNCHANGED <<stopped, final, todo>> /\ pc = "callbacks" /\ pc' = "check"
          /\ ses[cur].sock = "open"
      BY <2>5 DEF KeepSession
    <3>2. \A a \in Accounts :
            /\ Doomed(ses[sessions[a]]) /\ (ToVisit(a) \/ Visiting(a)) => (ToVisit(a) \/ Visiting(a))'
            /\ ToVisit(a)' => ToVisit(a)
      BY <1>1, <3>1 DEF ToVisit, Visiting, Doomed
    <3> QED BY <1>1, <2>1, <3>1, <3>2, WornLastUpdate
  <2>6. CASE \E a \in Accounts, idle \in BOOLEAN : BeginSessionUpdate(a, idle)
    <3> PICK a \in Accounts, idle \in BOOLEAN : BeginSessionUpdate(a, idle)
      BY <2>6
    <3>1. /\ UNCHANGED <<stopped, final>> /\ pc = "check" /\ pc' = "packets"
          /\ cur' = sessions[a] /\ a \in todo /\ todo' = todo \ {a}
      BY DEF BeginSessionUpdate
    <3>2. \A b \in Accounts : sessions[b] # Null =>
            /\ ToVisit(b) \/ Visiting(b) => (ToVisit(b) \/ Visiting(b))'
            /\ ToVisit(b)' => ToVisit(b)
      BY <1>1, <3>1, OnePlace DEF ToVisit, Visiting
    <3> QED BY <1>1, <2>1, <3>1, <3>2, WornLastUpdate
  <2>7. CASE UNCHANGED <<pc, todo, cur, final>> /\ (stopped => stopped')
    <3>1. \A a \in Accounts : (ToVisit(a) <=> ToVisit(a)') /\ (Visiting(a) <=> Visiting(a)')
      BY <1>1, <2>7 DEF ToVisit, Visiting
    <3>2. final => pc' # "idle"
      BY <2>7 DEF LastUpdate
    <3> QED BY <1>1, <2>1, <2>7, <3>1, <3>2, WornLastUpdate
  <2> QED
    BY <1>4, <2>2, <2>3, <2>4, <2>5, <2>6, <2>7
       DEF QuietStep, StopNow, InitializeSessionCallback, LoadFromDBFails, LoginKicked, CharEnum,
           InstantLogout, SetLogoutStartTime, SocketClose, KickPlayer, MovePlayer, thread, vars
<1> QED BY <1>2, <1>3, <1>4

\* A login: whoever asks for a character was visited with the list of his characters,
\* and the character his account left in the world is kicked.
LEMMA LoginLast ==
  ASSUME Inv, LeftBehind, LastUpdate, NEW s \in Sessions, NEW c \in Chars,
         LoginRequested(s, c) \/ Reclaim(s, c)
  PROVE  LeftBehind' /\ LastUpdate'
<1> DEFINE a == ses[s].acct
           o == offline[a]
<1>0. TypeOK /\ MapsOwned /\ ses \in [Sessions -> Session]
  BY DEF Inv, TypeOK
<1>1. /\ pc = "packets" /\ cur = s /\ a \in Accounts /\ sessions[a] = s
      /\ ses[s].roster = "listed" /\ s # o /\ (o # Null => o \in Sessions)
      /\ UNCHANGED <<addQueue, sessions, offline, pc, todo, cur, stopped, final>>
  <2>1. /\ pc = "packets" /\ cur = s /\ ses[s].roster = "listed"
        /\ UNCHANGED <<addQueue, sessions, offline, pc, todo, cur, stopped, final>>
    BY DEF LoginRequested, Reclaim, MayLogIn, Receives, Legit, net, thread
  <2> QED BY <1>0, <2>1, CoreTypes DEF Inv, ThreadOwned, MapsOwned
<1>2. \A t \in Sessions :
        /\ ses'[t].sock = "open" => ses[t].sock = "open"
        /\ ses[t].kicked => ses'[t].kicked
        /\ ses'[t].roster = ses[t].roster
        /\ t \notin {s, o} => ses'[t].player = ses[t].player /\ ses'[t].want = ses[t].want
        /\ t = o => ses'[o].player = Null \/ ses'[o].kicked
  <2>1. CASE LoginRequested(s, c)
    <3>1. ses' = [t \in Sessions |->
             IF t = s THEN [ses[s] EXCEPT !.load = "sent", !.want = c]
             ELSE IF t = o THEN Kicked(ses[o]) ELSE ses[t]]
      BY <2>1 DEF LoginRequested
    <3> QED BY <1>0, <1>1, <3>1 DEF Session, Kicked, Closed
  <2>2. CASE Reclaim(s, c)
    <3>1. PICK away \in {FALSE, ses[o].away} :
            ses' = [ses EXCEPT ![s] = [@ EXCEPT !.player = c, !.away = away],
                               ![o] = [@ EXCEPT !.player = Null, !.away = FALSE]]
      BY <2>2 DEF Reclaim
    <3>2. o \in Sessions
      BY <1>1, <2>2 DEF Reclaim
    <3> HIDE DEF o
    <3>3. \A t \in Sessions :
            ses'[t] = IF t = o THEN [ses[t] EXCEPT !.player = Null, !.away = FALSE]
                      ELSE IF t = s THEN [ses[t] EXCEPT !.player = c, !.away = away]
                      ELSE ses[t]
      BY <1>0, <1>1, <3>1, <3>2, ZenonT(40)
    <3>4. ASSUME NEW t \in Sessions
          PROVE  /\ ses'[t].sock = ses[t].sock /\ ses'[t].kicked = ses[t].kicked
                 /\ ses'[t].roster = ses[t].roster
                 /\ t \notin {s, o} => ses'[t].player = ses[t].player /\ ses'[t].want = ses[t].want
                 /\ t = o => ses'[t].player = Null
      <4>1. ses[t] \in Session
        BY <1>0
      <4>2. \/ t = o /\ ses'[t] = [ses[t] EXCEPT !.player = Null, !.away = FALSE]
            \/ t # o /\ t = s /\ ses'[t] = [ses[t] EXCEPT !.player = c, !.away = away]
            \/ t \notin {s, o} /\ ses'[t] = ses[t]
        BY <3>3
      <4> QED BY <4>1, <4>2 DEF Session
    <3> QED BY <3>4
  <2> QED BY <2>1, <2>2
<1> HIDE DEF a, o
<1>3. \A b \in Accounts : b # a => /\ sessions[b] # Null => sessions[b] \notin {s, o}
                                   /\ offline[b] # Null => offline[b] \notin {s, o}
  BY <1>0, <1>1, OnePlace DEF o
<1>4. LeftBehind'
  <2> SUFFICES ASSUME NEW b \in Accounts, sessions[b] # Null, offline[b] # Null,
                      Busy(ses'[sessions[b]])
               PROVE  ses'[offline[b]].player = Null \/ ses'[offline[b]].kicked
    BY <1>1 DEF LeftBehind
  <2>1. CASE b = a
    BY <1>0, <1>1, <1>2, <2>1, CoreTypes DEF o
  <2>2. CASE b # a
    BY <1>0, <1>1, <1>2, <1>3, <2>2, CoreTypes DEF LeftBehind, Busy
  <2> QED BY <2>1, <2>2
<1>5. \A b \in Accounts : (ToVisit(b) <=> ToVisit(b)') /\ (Visiting(b) <=> Visiting(b)')
  BY <1>1 DEF ToVisit, Visiting
<1>6. LastUpdate'
  <2>1. \A i \in DOMAIN addQueue : ses'[addQueue[i]].roster # "listed"
    BY <1>0, <1>2, CoreTypes DEF LastUpdate
  <2>2. ASSUME final, NEW b \in Accounts
        PROVE  /\ offline[b] # Null => ses'[offline[b]].kicked
               /\ sessions[b] # Null =>
                    \/ Doomed(ses'[sessions[b]]) /\ (ToVisit(b) \/ Visiting(b))'
                    \/ ~ Busy(ses'[sessions[b]]) /\ (ToVisit(b)' => ses'[sessions[b]].roster # "listed")
    <3>1. offline[b] # Null => ses'[offline[b]].kicked
      BY <1>0, <1>2, <2>2, CoreTypes DEF LastUpdate
    <3>2. CASE b = a
      <4>1. ToVisit(a)
        BY <1>1 DEF ToVisit
      <4>2. Doomed(ses[s])
        BY <1>0, <1>1, <2>2, <4>1, CoreTypes DEF LastUpdate
      <4>3. Doomed(ses'[s])
        BY <1>2, <4>2 DEF Doomed
      <4> QED BY <1>1, <1>5, <3>1, <3>2, <4>1, <4>3
    <3>3. CASE b # a
      BY <1>0, <1>2, <1>3, <1>5, <2>2, <3>1, <3>3, CoreTypes DEF LastUpdate, Doomed, Busy
    <3> QED BY <3>2, <3>3
  <2> QED BY <1>1, <2>1, <2>2 DEF LastUpdate
<1> QED BY <1>4, <1>6

\* The end of a login.
LEMMA LoadedLast ==
  ASSUME Inv, LeftBehind, LastUpdate, NEW away \in BOOLEAN, LoginFromDB(away)
  PROVE  LeftBehind' /\ LastUpdate'
<1>0. TypeOK /\ MapsOwned /\ ses \in [Sessions -> Session]
  BY DEF Inv, TypeOK
<1>1. /\ pc = "callbacks" /\ cur \in Sessions /\ ses[cur].acct \in Accounts
      /\ sessions[ses[cur].acct] = cur /\ ses[cur].load = "sent" /\ ses[cur].want # Null
      /\ UNCHANGED <<addQueue, sessions, offline, pc, todo, cur, stopped, final>>
  BY DEF LoginFromDB, Inv, ThreadOwned, SessionOwned, net, thread
<1>2. \A t \in Sessions :
        /\ ses'[t].sock = ses[t].sock /\ ses'[t].kicked = ses[t].kicked
        /\ ses'[t].roster = ses[t].roster
        /\ t # cur => ses'[t].player = ses[t].player /\ ses'[t].want = ses[t].want
  <2>1. ses' = [ses EXCEPT ![cur] = [@ EXCEPT !.load = "none", !.want = Null,
                                             !.player = ses[cur].want, !.away = away]]
    BY DEF LoginFromDB
  <2> QED BY <1>0, <1>1, <2>1 DEF Session
<1>3. Busy(ses[cur])
  BY <1>1 DEF Busy
<1>4. \A b \in Accounts : /\ sessions[b] \in Sessions \cup {Null}
                          /\ offline[b] # Null => offline[b] \in Sessions /\ offline[b] # cur
  BY <1>0, <1>1, OnePlace, CoreTypes
<1>5. LeftBehind'
  BY <1>1, <1>2, <1>3, <1>4 DEF LeftBehind, Busy
<1>6. \A b \in Accounts : (ToVisit(b) <=> ToVisit(b)') /\ (Visiting(b) <=> Visiting(b)')
  BY <1>1 DEF ToVisit, Visiting
<1>7. \A i \in DOMAIN addQueue : ses'[addQueue[i]].roster # "listed"
  BY <1>0, <1>2, CoreTypes DEF LastUpdate
<1>8. LastUpdate'
  BY <1>1, <1>2, <1>3, <1>4, <1>6, <1>7 DEF LastUpdate, Busy, Doomed
<1> QED BY <1>5, <1>8

LEMMA NewSessionLast ==
  ASSUME Inv, LeftBehind, LastUpdate, NEW s \in Sessions, NEW a \in Accounts, NewSession(s, a)
  PROVE  LeftBehind' /\ LastUpdate'
<1>1. TypeOK /\ MapsOwned
  BY DEF Inv
<1>2. /\ UNCHANGED <<sessions, offline, pc, todo, cur, stopped, final>> /\ ses[s].acct = Null
      /\ \A t \in Sessions : t # s => ses'[t] = ses[t]
      /\ ses'[s].roster = "none"
  BY <1>1 DEF NewSession, TypeOK, Fresh, NoSession, thread
<1>3. \A i \in DOMAIN addQueue' : addQueue'[i] = s \/ \E j \in DOMAIN addQueue : addQueue'[i] = addQueue[j]
  <2>1. addQueue \in Seq(Sessions) /\ addQueue' = Append(addQueue, s)
    BY <1>1 DEF NewSession, TypeOK
  <2>2. /\ addQueue' \in Seq(Sessions) /\ Len(addQueue') = Len(addQueue) + 1
        /\ \A i \in 1..Len(addQueue) : addQueue'[i] = addQueue[i]
        /\ addQueue'[Len(addQueue) + 1] = s
    BY <2>1, AppendProperties
  <2>3. /\ DOMAIN addQueue = 1..Len(addQueue) /\ Len(addQueue) \in Nat
        /\ DOMAIN addQueue' = 1..(Len(addQueue) + 1)
    BY <2>1, <2>2, LenProperties
  <2> QED BY <2>2, <2>3
<1>4. \A x \in Accounts : sessions[x] # s /\ offline[x] # s
  BY <1>1, <1>2, CoreTypes DEF MapsOwned
<1>5. LeftBehind'
  BY <1>1, <1>2, <1>4, CoreTypes DEF LeftBehind
<1>6. \A i \in DOMAIN addQueue' : ses'[addQueue'[i]].roster # "listed"
  BY <1>1, <1>2, <1>3, CoreTypes DEF LastUpdate
<1>7. \A b \in Accounts : (ToVisit(b) <=> ToVisit(b)') /\ (Visiting(b) <=> Visiting(b)')
  BY <1>2 DEF ToVisit, Visiting
<1>8. LastUpdate'
  BY <1>1, <1>2, <1>4, <1>6, <1>7, CoreTypes DEF LastUpdate
<1> QED BY <1>5, <1>8

\* What SesAfter keeps of the sessions that are not deleted, for these two.
Unpardoned(base, gone) ==
  \A t \in Sessions \ gone :
    /\ base[t].player = ses[t].player /\ base[t].want = ses[t].want
    /\ base[t].kicked = ses[t].kicked /\ base[t].roster = ses[t].roster
    /\ base[t].sock = "open" => ses[t].sock = "open"

LEMMA SesAfterUnpardoned ==
  ASSUME TypeOK, NEW gone, NEW left, NEW promoted
  PROVE  Unpardoned(SesAfter(gone, left, promoted), gone)
<1> SUFFICES ASSUME NEW t \in Sessions \ gone
             PROVE  LET r == SesAfter(gone, left, promoted)[t] IN
                    /\ r.player = ses[t].player /\ r.want = ses[t].want
                    /\ r.kicked = ses[t].kicked /\ r.roster = ses[t].roster
                    /\ r.sock = "open" => ses[t].sock = "open"
  BY DEF Unpardoned
<1>1. ses[t] \in Session
  BY DEF TypeOK
<1>2. SesAfter(gone, left, promoted)[t]
        \in {ses[t], [ses[t] EXCEPT !.sock = "null", !.age = 0], [ses[t] EXCEPT !.init = "sent"]}
  BY DEF SesAfter, Abandon
<1> QED BY <1>1, <1>2 DEF Session

\* Steps that only delete: those of gone leave the maps and the new sessions.
LEMMA RemovedLast ==
  ASSUME Inv, LeftBehind, LastUpdate, NEW gone, Unpardoned(ses', gone),
         UNCHANGED <<stopped, final>>, pc' \in {"add", "check"},
         \A i \in DOMAIN addQueue' : \E j \in DOMAIN addQueue :
           addQueue'[i] = addQueue[j] /\ addQueue[j] \notin gone,
         \A a \in Accounts : /\ sessions'[a] # Null => sessions'[a] = sessions[a] /\ sessions[a] \notin gone
                             /\ offline'[a] # Null /\ sessions'[a] # Null => offline'[a] = offline[a]
                             /\ offline'[a] # Null /\ final => offline'[a] = offline[a]
                             /\ offline'[a] # Null => offline'[a] \notin gone,
         final => \A a \in Accounts : sessions'[a] # Null =>
           (ToVisit(a) \/ Visiting(a) => ToVisit(a)') /\ (ToVisit(a)' => ToVisit(a))
  PROVE  LeftBehind' /\ LastUpdate'
<1>0. TypeOK
  BY DEF Inv
<1>1. LeftBehind'
  BY <1>0, CoreTypes DEF LeftBehind, Unpardoned, Busy
<1>2. \A i \in DOMAIN addQueue' : ses'[addQueue'[i]].roster # "listed"
  BY <1>0, CoreTypes DEF LastUpdate, Unpardoned
<1>3. ASSUME final, NEW a \in Accounts
      PROVE  /\ offline'[a] # Null => ses'[offline'[a]].kicked
             /\ sessions'[a] # Null =>
                  \/ Doomed(ses'[sessions'[a]]) /\ (ToVisit(a) \/ Visiting(a))'
                  \/ ~ Busy(ses'[sessions'[a]]) /\ (ToVisit(a)' => ses'[sessions'[a]].roster # "listed")
  BY <1>0, <1>3, CoreTypes DEF LastUpdate, Unpardoned, Busy, Doomed
<1> QED BY <1>2, <1>1, <1>3 DEF LastUpdate

LEMMA RejectLast ==
  ASSUME Inv, LeftBehind, LastUpdate, RejectSession
  PROVE  LeftBehind' /\ LastUpdate'
<1> DEFINE s == Head(addQueue)
<1>1. TypeOK /\ NewOwned
  BY DEF Inv
<1>2. /\ UNCHANGED <<sessions, offline, pc, todo, cur, stopped, final>> /\ pc = "add"
      /\ addQueue # <<>> /\ addQueue' = Tail(addQueue)
      /\ ses' = [ses EXCEPT ![s] = NoSession]
  BY DEF RejectSession, thread
<1>3. s = addQueue[1] /\ 1 \in DOMAIN addQueue
  BY <1>1, <1>2, AddQueueTail
<1>4. Unpardoned(ses', {s})
  BY <1>1, <1>2 DEF Unpardoned, TypeOK
<1>5. \A i \in DOMAIN addQueue' : \E j \in DOMAIN addQueue :
        addQueue'[i] = addQueue[j] /\ addQueue[j] \notin {s}
  BY <1>1, <1>2, <1>3, AddQueueTail DEF NewOwned
<1>6. \A a \in Accounts : s # sessions[a] /\ s # offline[a]
  BY <1>3, OnePlace
<1>7. \A a \in Accounts : ToVisit(a) /\ ToVisit(a)'
  BY <1>2 DEF ToVisit
<1> HIDE DEF s
<1> QED BY <1>2, <1>4, <1>5, <1>6, <1>7, RemovedLast

LEMMA AbandonLast ==
  ASSUME Inv, LeftBehind, LastUpdate, NEW a \in Accounts, AbandonSession(a)
  PROVE  LeftBehind' /\ LastUpdate'
<1>1. TypeOK /\ ThreadOwned
  BY DEF Inv
<1>2. /\ UNCHANGED <<addQueue, pc, cur, stopped, final>> /\ pc = "check" /\ a \in todo /\ ~ stopped
      /\ \A x \in Accounts : /\ offline'[x] = IF x = a THEN sessions[a] ELSE offline[x]
                             /\ sessions'[x] = IF x = a THEN Null ELSE sessions[x]
  BY <1>1 DEF AbandonSession, StaysInWorld, net, TypeOK
<1>3. ~ final
  BY <1>2 DEF LastUpdate
<1>4. Unpardoned(ses', {offline[a]})
  BY <1>1, SesAfterUnpardoned DEF AbandonSession
<1>5. \A i \in DOMAIN addQueue : addQueue[i] # offline[a]
  BY OnePlace
<1>6. \A x \in Accounts :
        /\ sessions'[x] # Null => sessions'[x] = sessions[x] /\ sessions[x] \notin {offline[a]}
        /\ offline'[x] # Null /\ sessions'[x] # Null => offline'[x] = offline[x]
        /\ offline'[x] # Null => offline'[x] \notin {offline[a]}
  <2>1. sessions[a] # Null
    BY <1>1, <1>2 DEF ThreadOwned
  <2>2. \A x \in Accounts : sessions[x] # Null => sessions[x] # offline[a]
    BY OnePlace
  <2>3. \A x \in Accounts : x # a /\ offline[x] # Null => offline[x] # offline[a]
    BY OnePlace
  <2> QED BY <1>2, <2>1, <2>2, <2>3
<1> QED BY <1>2, <1>3, <1>4, <1>5, <1>6, RemovedLast

LEMMA DeleteLast ==
  ASSUME Inv, LeftBehind, LastUpdate, DeleteSession
  PROVE  LeftBehind' /\ LastUpdate'
<1> DEFINE a == ses[cur].acct
<1>1. TypeOK /\ MapsOwned /\ ThreadOwned
  BY DEF Inv
<1>2. /\ UNCHANGED <<addQueue, offline, todo, stopped, final>> /\ pc = "callbacks" /\ pc' = "check"
      /\ cur \in Sessions /\ a \in Accounts /\ sessions[a] = cur
      /\ \A x \in Accounts : sessions'[x] = IF x = a THEN Null ELSE sessions[x]
  BY <1>1 DEF DeleteSession, ThreadOwned, net, TypeOK
<1>3. Unpardoned(ses', {cur})
  BY <1>1, SesAfterUnpardoned DEF DeleteSession
<1> HIDE DEF a
<1>4. \A i \in DOMAIN addQueue : addQueue[i] # cur
  BY <1>2, OnePlace
<1>5. \A x \in Accounts : /\ x # a /\ sessions[x] # Null => sessions[x] # cur
                          /\ offline[x] # Null => offline[x] # cur
  BY <1>1, <1>2, OnePlace, CoreTypes
<1>6. \A x \in Accounts : sessions'[x] # Null =>
        (ToVisit(x) \/ Visiting(x) => ToVisit(x)') /\ (ToVisit(x)' => ToVisit(x))
  BY <1>2, <1>5 DEF ToVisit, Visiting
<1> QED BY <1>2, <1>3, <1>4, <1>5, <1>6, RemovedLast

LEMMA EndUpdateLast ==
  ASSUME Inv, LeftBehind, LastUpdate, EndUpdate
  PROVE  LeftBehind' /\ LastUpdate'
<1> DEFINE gone == {o \in Abandoned : Expired(o)}
<1>1. TypeOK
  BY DEF Inv
<1>2. /\ UNCHANGED <<addQueue, sessions, todo, cur, stopped, final>>
      /\ pc = "check" /\ todo = {} /\ pc' = IF final THEN "halted" ELSE "idle"
      /\ \A a \in Accounts : offline'[a] = IF offline[a] # Null /\ Expired(offline[a]) THEN Null ELSE offline[a]
  BY DEF EndUpdate, net
<1>3. Unpardoned(ses', gone)
  BY <1>1, SesAfterUnpardoned DEF EndUpdate
<1>4. \A o \in gone : \E a \in Accounts : offline[a] # Null /\ o = offline[a]
  BY DEF Abandoned
<1>5. \A a \in Accounts : offline'[a] # Null =>
        /\ offline'[a] = offline[a] /\ offline[a] \in Sessions \ gone
        /\ ses[offline[a]].player # Null /\ ~ ses[offline[a]].kicked
  BY <1>1, <1>2, CoreTypes DEF Expired
<1> HIDE DEF gone
<1>6. /\ \A a \in Accounts : sessions[a] # Null => sessions[a] \in Sessions \ gone
      /\ \A i \in DOMAIN addQueue : addQueue[i] \in Sessions \ gone
  BY <1>1, <1>4, OnePlace, CoreTypes
<1>7. LeftBehind'
  <2> SUFFICES ASSUME NEW a \in Accounts, sessions[a] # Null, offline'[a] # Null,
                      Busy(ses'[sessions[a]])
               PROVE  FALSE
    BY <1>2 DEF LeftBehind
  <2>1. Busy(ses[sessions[a]])
    BY <1>3, <1>6 DEF Unpardoned, Busy
  <2>2. /\ offline[a] # Null /\ ses[offline[a]].player # Null /\ ~ ses[offline[a]].kicked
    BY <1>5
  <2> QED BY <2>1, <2>2 DEF LeftBehind
<1>8. \A i \in DOMAIN addQueue : ses'[addQueue[i]].roster # "listed"
  BY <1>3, <1>6 DEF LastUpdate, Unpardoned
<1>9. final => \A a \in Accounts : offline'[a] = Null
  BY <1>5 DEF LastUpdate
<1>10. ASSUME final, NEW a \in Accounts, sessions[a] # Null
       PROVE  ~ Busy(ses'[sessions[a]]) /\ ~ ToVisit(a)'
  <2>1. ~ ToVisit(a) /\ ~ Visiting(a)
    BY <1>2 DEF ToVisit, Visiting
  <2>2. ~ Busy(ses[sessions[a]])
    BY <1>10, <2>1 DEF LastUpdate
  <2>3. ~ Busy(ses'[sessions[a]])
    BY <1>3, <1>6, <1>10, <2>2 DEF Unpardoned, Busy
  <2>4. ~ ToVisit(a)'
    BY <1>2, <1>10 DEF ToVisit
  <2> QED BY <2>3, <2>4
<1>11. LastUpdate'
  BY <1>2, <1>8, <1>9, <1>10 DEF LastUpdate
<1> QED BY <1>7, <1>11

LEMMA EnlistUnpardoned ==
  ASSUME NEW s, NEW a, NEW base \in [Sessions -> Session], NEW q, NEW rec,
         Enlist(s, a, base, q, rec), NEW gone, Unpardoned(base, gone)
  PROVE  Unpardoned(ses', gone)
<1>1. ASSUME NEW t \in Sessions \ gone
      PROVE  /\ ses'[t].player = base[t].player /\ ses'[t].want = base[t].want
             /\ ses'[t].kicked = base[t].kicked /\ ses'[t].roster = base[t].roster
             /\ ses'[t].sock = base[t].sock
  <2>1. ses'[t] \in {base[t], [base[t] EXCEPT !.inQueue = TRUE], [base[t] EXCEPT !.init = "sent"]}
    BY DEF Enlist
  <2>2. base[t] \in Session
    OBVIOUS
  <2> QED BY <2>1, <2>2 DEF Session
<1> QED BY <1>1 DEF Unpardoned

\* The old session of an account makes way for a new one.
LEMMA EnlistLast ==
  ASSUME Inv, LeftBehind, LastUpdate, pc = "add", addQueue # <<>>, addQueue' = Tail(addQueue),
         UNCHANGED <<pc, todo, cur, stopped, final>>,
         NEW s, s = Head(addQueue), NEW a, a = ses[s].acct,
         NEW base \in [Sessions -> Session], NEW q, NEW rec, Enlist(s, a, base, q, rec),
         NEW gone, Unpardoned(base, gone),
         \/ gone = {sessions[a]} /\ offline' = offline
         \/ gone = {offline[a]} /\ offline' = [offline EXCEPT ![a] = sessions[a]] /\ ~ stopped
  PROVE  LeftBehind' /\ LastUpdate'
<1>1. TypeOK /\ NewOwned /\ MapsOwned
  BY DEF Inv
<1>2. /\ s \in Sessions /\ s = addQueue[1] /\ 1 \in DOMAIN addQueue /\ a \in Accounts
      /\ ses[s].player = Null /\ ses[s].want = Null /\ ses[s].roster # "listed"
      /\ \A x \in Accounts : s # sessions[x] /\ s # offline[x]
  BY <1>1, AddQueueTail, OnePlace, CoreTypes DEF NewOwned, LastUpdate
<1>3. \A x \in Accounts : /\ sessions'[x] = IF x = a THEN s ELSE sessions[x]
                          /\ x # a => offline'[x] = offline[x]
  BY <1>1 DEF Enlist, TypeOK
<1>4. Unpardoned(ses', gone)
  BY EnlistUnpardoned
<1>5. s \notin gone
  BY <1>2
<1>6. ~ Busy(ses'[s]) /\ ses'[s].roster # "listed"
  BY <1>2, <1>4, <1>5 DEF Unpardoned, Busy
<1>7. ASSUME NEW x \in Accounts, x # a
      PROVE  /\ sessions[x] # Null => sessions[x] \in Sessions \ gone
             /\ offline[x] # Null => offline[x] \in Sessions \ gone
  BY <1>1, <1>2, <1>7, OnePlace, CoreTypes
<1>8. LeftBehind'
  BY <1>3, <1>4, <1>6, <1>7 DEF LeftBehind, Unpardoned, Busy
<1>9. \A i \in DOMAIN addQueue' : ses'[addQueue'[i]].roster # "listed"
  <2> TAKE i \in DOMAIN addQueue'
  <2>1. i + 1 \in DOMAIN addQueue /\ addQueue'[i] = addQueue[i + 1]
    BY <1>1, AddQueueTail
  <2>2. addQueue[i + 1] \in Sessions \ gone
    BY <1>1, <1>2, <2>1, OnePlace, CoreTypes
  <2> QED BY <1>4, <2>1, <2>2 DEF LastUpdate, Unpardoned
<1>10. ASSUME final, NEW x \in Accounts
       PROVE  /\ offline'[x] # Null => ses'[offline'[x]].kicked
              /\ sessions'[x] # Null =>
                   \/ Doomed(ses'[sessions'[x]]) /\ ToVisit(x)'
                   \/ ~ Busy(ses'[sessions'[x]]) /\ ses'[sessions'[x]].roster # "listed"
  <2>1. ToVisit(x) /\ ToVisit(x)' /\ stopped
    BY <1>10 DEF ToVisit, LastUpdate
  <2>2. CASE x = a
    <3>1. offline'[a] = offline[a] /\ gone = {sessions[a]}
      BY <2>1
    <3>2. offline[a] # Null => offline[a] \in Sessions \ gone
      BY <1>1, <1>2, <3>1, CoreTypes DEF MapsOwned
    <3> QED BY <1>3, <1>4, <1>6, <1>10, <2>2, <3>1, <3>2 DEF LastUpdate, Unpardoned
  <2>3. CASE x # a
    BY <1>3, <1>4, <1>7, <1>10, <2>1, <2>3 DEF LastUpdate, Unpardoned, Busy, Doomed
  <2> QED BY <2>2, <2>3
<1>11. LastUpdate'
  BY <1>9, <1>10 DEF LastUpdate
<1> QED BY <1>8, <1>11

LEMMA AddLast ==
  ASSUME Inv, LeftBehind, LastUpdate, AddSession \/ ReplaceSession
  PROVE  LeftBehind' /\ LastUpdate'
<1> DEFINE s == Head(addQueue)
           a == ses[s].acct
           old == sessions[a]
           stays == StaysInWorld(Closed(ses[old]))
<1>1. TypeOK
  BY DEF Inv
<1>2. CASE AddSession
  <2>1. /\ Enlist(s, a, ses, queue, recent) /\ offline' = offline
        /\ pc = "add" /\ addQueue # <<>> /\ addQueue' = Tail(addQueue)
        /\ UNCHANGED <<pc, todo, cur, stopped, final>>
    BY <1>2 DEF AddSession, thread
  <2>2. Unpardoned(ses, {old}) /\ ses \in [Sessions -> Session]
    BY <1>1 DEF Unpardoned, TypeOK
  <2> HIDE DEF s, a, old
  <2> QED BY <2>1, <2>2, EnlistLast DEF s, a, old
<1>3. CASE ReplaceSession /\ stays
  <2> DEFINE base == SesAfter({offline[a]}, {old}, Promoted(old))
  <2>1. /\ Enlist(s, a, base, QueueAfter(old), RecentAfter(old, a))
        /\ offline' = [offline EXCEPT ![a] = old]
        /\ pc = "add" /\ addQueue # <<>> /\ addQueue' = Tail(addQueue)
        /\ UNCHANGED <<pc, todo, cur, stopped, final>>
    BY <1>3 DEF ReplaceSession, thread
  <2>2. base \in [Sessions -> Session] /\ Unpardoned(base, {offline[a]})
    BY <1>1, SesAfterType, SesAfterUnpardoned
  <2>3. ~ stopped
    BY <1>3 DEF StaysInWorld
  <2> HIDE DEF base
  <2> QED BY <2>1, <2>2, <2>3, EnlistLast
<1>4. CASE ReplaceSession /\ ~stays
  <2> DEFINE base == SesAfter({old}, {}, Promoted(old))
  <2>1. /\ Enlist(s, a, base, QueueAfter(old), RecentAfter(old, a))
        /\ offline' = offline
        /\ pc = "add" /\ addQueue # <<>> /\ addQueue' = Tail(addQueue)
        /\ UNCHANGED <<pc, todo, cur, stopped, final>>
    BY <1>4 DEF ReplaceSession, thread
  <2>2. base \in [Sessions -> Session] /\ Unpardoned(base, {old})
    BY <1>1, SesAfterType, SesAfterUnpardoned
  <2> HIDE DEF base
  <2> QED BY <2>1, <2>2, EnlistLast
<1> QED BY <1>2, <1>3, <1>4

LEMMA InitLast == Init => LeftBehind /\ LastUpdate
<1> SUFFICES ASSUME Init PROVE LeftBehind /\ LastUpdate
  OBVIOUS
<1>1. DOMAIN addQueue = {}
  BY EmptySeq DEF Init
<1> QED BY <1>1 DEF Init, LeftBehind, LastUpdate

LEMMA NextLast ==
  Inv /\ LeftBehind /\ LastUpdate /\ [Next]_vars => LeftBehind' /\ LastUpdate'
<1> SUFFICES ASSUME Inv, LeftBehind, LastUpdate, [Next]_vars
             PROVE  LeftBehind' /\ LastUpdate'
  OBVIOUS
<1>1. CASE QuietStep
  BY <1>1, QuietLeftBehind, QuietLast
<1>2. CASE RejectSession
  BY <1>2, RejectLast
<1>3. CASE AddSession \/ ReplaceSession
  BY <1>3, AddLast
<1>4. ASSUME NEW a \in Accounts, AbandonSession(a) PROVE LeftBehind' /\ LastUpdate'
  BY <1>4, AbandonLast
<1>5. ASSUME NEW away \in BOOLEAN, LoginFromDB(away) PROVE LeftBehind' /\ LastUpdate'
  BY <1>5, LoadedLast
<1>6. CASE DeleteSession
  BY <1>6, DeleteLast
<1>7. CASE EndUpdate
  BY <1>7, EndUpdateLast
<1>8. ASSUME NEW s \in Sessions, NEW c \in Chars, LoginRequested(s, c) \/ Reclaim(s, c)
      PROVE  LeftBehind' /\ LastUpdate'
  BY <1>8, LoginLast
<1>9. ASSUME NEW s \in Sessions, NEW a \in Accounts, NewSession(s, a)
      PROVE  LeftBehind' /\ LastUpdate'
  BY <1>9, NewSessionLast
<1>10. \/ QuietStep \/ RejectSession \/ AddSession \/ ReplaceSession
       \/ \E a \in Accounts : AbandonSession(a)
       \/ \E away \in BOOLEAN : LoginFromDB(away)
       \/ DeleteSession \/ EndUpdate
       \/ \E s \in Sessions, c \in Chars : LoginRequested(s, c) \/ Reclaim(s, c)
       \/ \E s \in Sessions, a \in Accounts : NewSession(s, a)
  BY DEF Next, AddStep, LoopStep, Packet, Other, Halted, QuietStep
<1> QED BY <1>1, <1>2, <1>3, <1>4, <1>5, <1>6, <1>7, <1>8, <1>9, <1>10

LEMMA LastInvariance == Spec => [](Inv /\ LeftBehind /\ LastUpdate)
<1>1. Init => Inv /\ LeftBehind /\ LastUpdate
  BY InitInv, InitLast
<1>2. Inv /\ LeftBehind /\ LastUpdate /\ [Next]_vars => (Inv /\ LeftBehind /\ LastUpdate)'
  BY NextInv, NextLast
<1> QED BY <1>1, <1>2, PTL DEF Spec

\* A session with a character is listed or offline, under its own account.
LEMMA HoldersFound ==
  ASSUME Inv, NEW s \in Sessions, ses[s].player # Null
  PROVE  /\ ses[s].acct \in Accounts
         /\ sessions[ses[s].acct] = s \/ offline[ses[s].acct] = s
BY CoreTypes DEF Inv, SessionOwned, NewOwned

\* Between two calls of UpdateSessions an account has at most one character in the
\* world: the login handler kicks the one left there and the loop over
\* _offlineSessions deletes it in the same call, so that LogoutPlayer may mark all
\* characters of the account offline.
THEOREM OneOnlineCharacter == Spec => []OneCharacterPerAccount
<1>1. Inv /\ LeftBehind => OneCharacterPerAccount
  <2> SUFFICES ASSUME Inv, LeftBehind, pc = "idle", NEW s \in Allocated, NEW t \in Allocated,
                      s # t, ses[s].acct = ses[t].acct, ses[s].player # Null, ses[t].player # Null
               PROVE  FALSE
    BY DEF OneCharacterPerAccount
  <2>1. s \in Sessions /\ t \in Sessions /\ Null \notin Sessions
    BY ConstantsAssumption DEF Allocated
  <2> DEFINE a == ses[s].acct
  <2>2. a \in Accounts /\ a = ses[t].acct
    BY <2>1, HoldersFound
  <2>3. sessions[a] = s \/ offline[a] = s
    BY <2>1, HoldersFound
  <2>4. sessions[a] = t \/ offline[a] = t
    BY <2>1, <2>2, HoldersFound
  <2> QED BY <2>1, <2>2, <2>3, <2>4 DEF LeftBehind, Busy
<1> QED BY <1>1, LastInvariance, PTL

\* "Save and kick all players": the UpdateSessions of the shutdown, after KickAll,
\* logs out every character, whatever logins were under way and whatever packets
\* were still to be handled.
THEOREM NobodyLeftAtShutdown == Spec => []ShutdownSavesAll
<1>1. Inv /\ LastUpdate => ShutdownSavesAll
  <2> SUFFICES ASSUME Inv, LastUpdate, pc = "halted", NEW s \in Sessions, ses[s].player # Null
               PROVE  FALSE
    BY DEF ShutdownSavesAll
  <2>1. Null \notin Sessions
    BY ConstantsAssumption
  <2> DEFINE a == ses[s].acct
  <2>2. a \in Accounts /\ (sessions[a] = s \/ offline[a] = s)
    BY HoldersFound
  <2>3. final /\ sessions[a] = s
    BY <2>1, <2>2 DEF LastUpdate
  <2>4. a \notin todo
    BY DEF Inv, ThreadOwned
  <2>5. ~ ToVisit(a) /\ ~ Visiting(a)
    BY <2>4 DEF ToVisit, Visiting
  <2> QED BY <2>1, <2>2, <2>3, <2>5 DEF LastUpdate, Busy
<1> QED BY <1>1, LastInvariance, PTL

-----------------------------------------------------------------------------
(***************************************************************************)
(* The stay of an abandoned character.                                     *)
(***************************************************************************)

\* A step that keeps the maps takes no character from an offline session.
LEMMA QuietOffline ==
  ASSUME Inv, QuietStep, NEW a \in Accounts, NEW o \in Sessions, o = offline[a]
  PROVE  ses'[o].player = ses[o].player
<1>1. ses \in [Sessions -> Session] /\ ses[o] \in Session
  BY DEF Inv, TypeOK
<1>2. ASSUME NEW r \in Session
      PROVE  Closed(r).player = r.player /\ Kicked(r).player = r.player
  BY DEF Closed, Kicked, Session
<1>3. pc \in {"packets", "callbacks"} => cur # o
  <2> SUFFICES ASSUME pc \in {"packets", "callbacks"} PROVE cur # o
    OBVIOUS
  <2>1. cur \in Sessions /\ ses[cur].acct \in Accounts /\ sessions[ses[cur].acct] = cur
    BY DEF Inv, ThreadOwned
  <2>2. Null \notin Sessions
    BY ConstantsAssumption
  <2> QED BY <2>1, <2>2, OnePlace
<1>4. CASE \E d \in {0, 1} : BeginUpdate(d)
  <2> PICK d \in {0, 1} : BeginUpdate(d)
    BY <1>4
  <2> DEFINE l == IF ses[o].logout = -1 THEN -1 ELSE UpTo(ses[o].logout + d, LogoutDelay)
             g == IF o \in Abandoned THEN UpTo(ses[o].age + d, Grace + 1) ELSE ses[o].age
  <2>1. ses'[o] = [ses[o] EXCEPT !.logout = l, !.age = g]
    BY DEF BeginUpdate
  <2> HIDE DEF l, g
  <2> QED BY <1>1, <2>1 DEF Session
<1>5. CASE \/ KickAll \/ \E b \in Accounts, idle \in BOOLEAN : BeginSessionUpdate(b, idle)
           \/ \E s \in Sessions : KickPlayer(s) \/ \E c \in Chars : LoginKicked(s, c)
  <2>1. ses'[o] \in {ses[o], Kicked(ses[o]), Closed(ses[o])}
    BY <1>1, <1>5 DEF KickAll, BeginSessionUpdate, KickPlayer, LoginKicked
  <2> QED BY <1>1, <1>2, <2>1
<1>6. CASE StopNow \/ EndAdd \/ EndPackets \/ UNCHANGED vars
  BY <1>6 DEF StopNow, EndAdd, EndPackets, vars
<1>7. CASE InitializeSessionCallback \/ HandleCharEnum \/ LoadFromDBFails \/ KeepSession
  BY <1>1, <1>3, <1>7 DEF InitializeSessionCallback, HandleCharEnum, LoadFromDBFails, KeepSession
<1>8. ASSUME NEW s \in Sessions,
             CharEnum(s) \/ InstantLogout(s) \/ \E t \in {-1, 0} : SetLogoutStartTime(s, t)
      PROVE  ses'[o] = ses[o]
  BY <1>1, <1>3, <1>8 DEF CharEnum, InstantLogout, SetLogoutStartTime, Receives
<1>9. ASSUME NEW s \in Sessions, SocketClose(s) \/ MovePlayer(s)
      PROVE  ses'[o].player = ses[o].player
  <2>1. ses'[o] \in {ses[o], [ses[o] EXCEPT !.sock = "closed"], [ses[o] EXCEPT !.away = ~ @]}
    BY <1>1, <1>9 DEF SocketClose, MovePlayer
  <2> QED BY <1>1, <2>1 DEF Session
<1> QED BY <1>4, <1>5, <1>6, <1>7, <1>8, <1>9 DEF QuietStep

\* The session that makes way is not the one whose character stays, unless that has
\* been kicked.
LEMMA AddOffline ==
  ASSUME Inv, LeftBehind, AddSession \/ ReplaceSession,
         NEW b \in Accounts, NEW o \in Sessions, o = offline[b],
         ses[o].player # Null, ~ ses[o].kicked
  PROVE  ses'[o].player = ses[o].player
<1> DEFINE s == Head(addQueue)
           a == ses[s].acct
           old == sessions[a]
           stays == StaysInWorld(Closed(ses[old]))
<1>1. TypeOK /\ NewOwned /\ Null \notin Sessions
  BY ConstantsAssumption DEF Inv
<1>2. ASSUME addQueue # <<>> PROVE a \in Accounts /\ old # o
  BY <1>1, <1>2, AddQueueTail, OnePlace, CoreTypes DEF NewOwned
<1>3. CASE AddSession
  <2>1. Enlist(s, a, ses, queue, recent)
    BY <1>3 DEF AddSession
  <2>2. Unpardoned(ses, {}) /\ ses \in [Sessions -> Session]
    BY <1>1 DEF Unpardoned, TypeOK
  <2>3. Unpardoned(ses', {})
    BY <2>1, <2>2, EnlistUnpardoned
  <2> QED BY <2>3 DEF Unpardoned
<1>4. CASE ReplaceSession /\ stays
  <2> DEFINE base == SesAfter({offline[a]}, {old}, Promoted(old))
  <2>1. /\ Enlist(s, a, base, QueueAfter(old), RecentAfter(old, a))
        /\ addQueue # <<>> /\ old # Null
    BY <1>4 DEF ReplaceSession
  <2>2. base \in [Sessions -> Session] /\ Unpardoned(base, {offline[a]})
    BY <1>1, SesAfterType, SesAfterUnpardoned
  <2>3. ses[old].player # Null
    <3>1. ses[old] \in Session
      BY <1>1, <1>2, <2>1, CoreTypes DEF TypeOK
    <3>2. Closed(ses[old]).player = ses[old].player
      BY <3>1 DEF Closed, Session
    <3> QED BY <1>4, <3>2 DEF StaysInWorld
  <2> HIDE DEF base
  <2>4. Unpardoned(ses', {offline[a]})
    BY <2>1, <2>2, EnlistUnpardoned
  <2>5. o # offline[a]
    <3>1. a \in Accounts /\ pc = "add"
      BY <1>2, <1>4 DEF ReplaceSession
    <3> HIDE DEF a
    <3> QED BY <1>1, <2>1, <2>3, <3>1 DEF LeftBehind, Busy
  <2> QED BY <2>4, <2>5 DEF Unpardoned
<1>5. CASE ReplaceSession /\ ~stays
  <2> DEFINE base == SesAfter({old}, {}, Promoted(old))
  <2>1. Enlist(s, a, base, QueueAfter(old), RecentAfter(old, a)) /\ addQueue # <<>>
    BY <1>5 DEF ReplaceSession
  <2>2. base \in [Sessions -> Session] /\ Unpardoned(base, {old})
    BY <1>1, SesAfterType, SesAfterUnpardoned
  <2> HIDE DEF base
  <2>3. Unpardoned(ses', {old})
    BY <2>1, <2>2, EnlistUnpardoned
  <2> QED BY <1>2, <2>1, <2>3 DEF Unpardoned
<1> QED BY <1>3, <1>4, <1>5

\* A session taken over by _offlineSessions keeps its character in the world until
\* its time is over, it is kicked, or the next session of the account takes it back.
THEOREM AbandonedStayInWorld == Spec => AbandonedStays
<1>1. Inv /\ LeftBehind /\ [Next]_vars =>
        \A a \in Accounts :
          LET o == offline[a] IN
          o # Null /\ ses[o].player # Null /\ ses[o].player \notin Held'
            => ses[o].age > Grace \/ ses[o].kicked
  <2> SUFFICES ASSUME Inv, LeftBehind, [Next]_vars, NEW a \in Accounts, NEW o, o = offline[a],
                      o # Null, ses[o].player # Null, ~ (ses[o].age > Grace), ~ ses[o].kicked
               PROVE  \E t \in Sessions : ses'[t].player = ses[o].player
    BY DEF Held
  <2>0. TypeOK /\ o \in Sessions
    BY CoreTypes DEF Inv
  <2> DEFINE Goal == \E t \in Sessions : ses'[t].player = ses[o].player
  <2>1. CASE QuietStep
    BY <2>0, <2>1, QuietOffline
  <2>2. CASE RejectSession
    <3>1. Head(addQueue) # o /\ ses' = [ses EXCEPT ![Head(addQueue)] = NoSession]
      BY <2>0, <2>2, AddQueueTail, OnePlace DEF RejectSession
    <3> QED BY <2>0, <3>1
  <2>3. CASE AddSession \/ ReplaceSession
    BY <2>0, <2>3, AddOffline
  <2>4. ASSUME NEW b \in Accounts, AbandonSession(b) PROVE Goal
    <3>1. sessions[b] # Null /\ ses[sessions[b]].player # Null /\ ses' = SesAfter({offline[b]}, {sessions[b]}, Promoted(sessions[b]))
      BY <2>4 DEF AbandonSession, StaysInWorld, Inv, ThreadOwned
    <3>2. b # a
      <4>1. CASE b = a
        <5>1. ses[o].kicked /\ pc # "idle"
          BY <3>1, <4>1 DEF LeftBehind, Busy
        <5> QED BY <5>1
      <4> QED BY <4>1
    <3>3. o # offline[b]
      BY <3>2, OnePlace
    <3>4. Unpardoned(ses', {offline[b]})
      BY <2>0, <3>1, SesAfterUnpardoned
    <3> QED BY <2>0, <3>3, <3>4 DEF Unpardoned
  <2>5. ASSUME NEW away \in BOOLEAN, LoginFromDB(away) PROVE Goal
    <3>1. cur # o
      BY <2>0, <2>5, OnePlace DEF LoginFromDB, Inv, ThreadOwned
    <3>2. ses'[o] = ses[o]
      BY <2>0, <2>5, <3>1 DEF LoginFromDB, TypeOK
    <3> QED BY <2>0, <3>2
  <2>6. CASE DeleteSession
    <3>1. cur # o
      BY <2>0, <2>6, OnePlace DEF DeleteSession, Inv, ThreadOwned
    <3>2. Unpardoned(ses', {cur})
      BY <2>0, <2>6, SesAfterUnpardoned DEF DeleteSession
    <3> QED BY <2>0, <3>1, <3>2 DEF Unpardoned
  <2>7. CASE EndUpdate
    <3>1. Unpardoned(ses', {x \in Abandoned : Expired(x)})
      BY <2>0, <2>7, SesAfterUnpardoned DEF EndUpdate
    <3>2. ~ Expired(o)
      BY DEF Expired
    <3> QED BY <2>0, <3>1, <3>2 DEF Unpardoned
  <2>8. ASSUME NEW s \in Sessions, NEW c \in Chars, LoginRequested(s, c) PROVE Goal
    <3>1. s # o
      BY <2>0, <2>8, OnePlace DEF LoginRequested, MayLogIn, Receives, Inv, ThreadOwned
    <3>2. ses'[o] \in {ses[o], Kicked(ses[o])}
      BY <2>0, <2>8, <3>1 DEF LoginRequested
    <3>3. ses[o] \in Session
      BY <2>0 DEF TypeOK
    <3>4. Kicked(ses[o]).player = ses[o].player
      BY <3>3 DEF Kicked, Closed, Session
    <3> QED BY <2>0, <3>2, <3>4
  <2>9. ASSUME NEW s \in Sessions, NEW c \in Chars, Reclaim(s, c) PROVE Goal
    <3>1. /\ s # o /\ ses[s].acct \in Accounts /\ sessions[ses[s].acct] = s
      BY <2>0, <2>9, OnePlace DEF Reclaim, MayLogIn, Receives, Inv, ThreadOwned
    <3> DEFINE x == offline[ses[s].acct]
    <3>2. x \in Sessions /\ x # s /\ ses[x].player = c
      BY <2>0, <2>9, <3>1, OnePlace, CoreTypes DEF Reclaim
    <3>3. PICK away : ses' = [ses EXCEPT ![s] = [@ EXCEPT !.player = c, !.away = away],
                                         ![x] = [@ EXCEPT !.player = Null, !.away = FALSE]]
      BY <2>9 DEF Reclaim
    <3> HIDE DEF x
    <3>4. CASE x = o
      <4>1. ses'[s] = [ses[s] EXCEPT !.player = c, !.away = away]
        BY <2>0, <3>2, <3>3 DEF TypeOK
      <4>2. ses[s] \in Session
        BY <2>0 DEF TypeOK
      <4>3. ses'[s].player = c
        BY <4>1, <4>2 DEF Session
      <4> QED BY <3>2, <3>4, <4>3
    <3>5. CASE x # o
      BY <2>0, <3>1, <3>2, <3>3, <3>5 DEF TypeOK
    <3> QED BY <3>4, <3>5
  <2>10. ASSUME NEW s \in Sessions, NEW b \in Accounts, NewSession(s, b) PROVE Goal
    <3>1. s # o
      BY <2>0, <2>10, CoreTypes DEF NewSession, Inv, MapsOwned
    <3> QED BY <2>0, <2>10, <3>1 DEF NewSession, TypeOK
  <2>11. \/ QuietStep \/ RejectSession \/ AddSession \/ ReplaceSession
         \/ \E b \in Accounts : AbandonSession(b)
         \/ \E away \in BOOLEAN : LoginFromDB(away)
         \/ DeleteSession \/ EndUpdate
         \/ \E s \in Sessions, c \in Chars : LoginRequested(s, c) \/ Reclaim(s, c)
         \/ \E s \in Sessions, b \in Accounts : NewSession(s, b)
    BY DEF Next, AddStep, LoopStep, Packet, Other, Halted, QuietStep
  <2> QED BY <2>1, <2>2, <2>3, <2>4, <2>5, <2>6, <2>7, <2>8, <2>9, <2>10, <2>11
<1> QED BY <1>1, LastInvariance, PTL DEF Spec, AbandonedStays

-----------------------------------------------------------------------------
(***************************************************************************)
(* The login queue implements AdmissionQueue.  Two facts about it are      *)
(* needed: that it holds distinct listed sessions, so that counting        *)
(* sessions counts accounts, and that nobody waits while there is room,    *)
(* because AddSession_ compares the limit with all listed sessions and     *)
(* RemoveQueuedPlayer with the active ones.                                *)
(***************************************************************************)

Waiting(q) == [i \in DOMAIN q |-> ses[q[i]].acct]

Inside(L, q) == {a \in L : sessions[a] \notin ToSet(q)}

\* q is a queue of sessions of the listed accounts L.
QueueOf(q, L) ==
  /\ q \in Seq(Sessions)
  /\ \A i, j \in 1..Len(q) : q[i] = q[j] => i = j
  /\ \A i \in 1..Len(q) : ses[q[i]].acct \in L /\ sessions[ses[q[i]].acct] = q[i]

Full(q, L) == q # <<>> => Limit > 0 /\ Cardinality(Inside(L, q)) >= Limit

QueueInv == QueueOf(queue, Listed) /\ Full(queue, Listed)

Exempt(rec) == {a \in Accounts : rec[a] < Tolerance}

LEMMA InToSet ==
  ASSUME NEW S, NEW q \in Seq(S)
  PROVE  \A x : x \in ToSet(q) <=> \E i \in 1..Len(q) : q[i] = x
BY LenProperties DEF ToSet

\* Waiting(q) is a sequence of accounts as long as q.
LEMMA WaitingSeq ==
  ASSUME NEW S, NEW q \in Seq(Sessions), \A i \in 1..Len(q) : ses[q[i]].acct \in S
  PROVE  /\ Waiting(q) \in Seq(S) /\ Len(Waiting(q)) = Len(q)
         /\ \A i \in 1..Len(q) : Waiting(q)[i] = ses[q[i]].acct
<1> DEFINE w == Waiting(q)
<1>1. Len(q) \in Nat /\ DOMAIN q = 1..Len(q)
  BY LenProperties
<1>2. w \in [1..Len(q) -> S]
  BY <1>1 DEF Waiting
<1>3. w \in Seq(S)
  BY <1>1, <1>2, SeqDef
<1>4. Len(w) \in Nat /\ DOMAIN w = 1..Len(w)
  BY <1>3, LenProperties
<1>5. Len(w) = Len(q)
  BY <1>1, <1>2, <1>4
<1> QED BY <1>1, <1>3, <1>5 DEF Waiting

\* Sessions counted are accounts counted.
LEMMA Count ==
  ASSUME Inv, NEW L \in SUBSET Accounts, NEW q, QueueOf(q, L)
  PROVE  /\ IsFiniteSet(L) /\ IsFiniteSet(Inside(L, q))
         /\ Cardinality(L) \in Nat /\ Cardinality(Inside(L, q)) \in Nat /\ Len(q) \in Nat
         /\ Cardinality(L) = Cardinality(Inside(L, q)) + Len(q)
<1> DEFINE n == Len(q)
           W == {ses[q[i]].acct : i \in 1..n}
           f == [i \in 1..n |-> ses[q[i]].acct]
<1>1. n \in Nat /\ q \in Seq(Sessions)
  BY LenProperties DEF QueueOf
<1>2. \A x : x \in ToSet(q) <=> \E i \in 1..n : q[i] = x
  BY <1>1, InToSet
<1>3. f \in Surjection(1..n, W)
  BY DEF Surjection
<1>4. f \in Injection(1..n, W)
  <2>1. \A i, j \in 1..n : f[i] = f[j] => i = j
    BY DEF QueueOf
  <2> QED BY <1>3, <2>1 DEF Surjection, Injection, IsInjective
<1>5. IsFiniteSet(1..n) /\ Cardinality(1..n) = n
  BY <1>1, FS_Interval
<1>6. IsFiniteSet(W) /\ Cardinality(W) = n
  BY <1>3, <1>4, <1>5, FS_Surjection
<1>7. L = (Inside(L, q) \cup W) /\ Inside(L, q) \cap W = {}
  <2>1. ASSUME NEW a \in L, NEW i \in 1..n, q[i] = sessions[a] PROVE ses[q[i]].acct = a
    <3>1. q[i] \in Sessions /\ ses[q[i]].acct \in L /\ sessions[ses[q[i]].acct] = q[i]
      BY <1>1, ElementOfSeq DEF QueueOf
    <3> QED BY <2>1, <3>1, OnePlace, ConstantsAssumption
  <2>2. \A a \in L : sessions[a] \in ToSet(q) => a \in W
    BY <1>2, <2>1
  <2>3. \A a \in W : a \in L /\ sessions[a] \in ToSet(q)
    BY <1>2 DEF QueueOf
  <2> HIDE DEF W
  <2> QED BY <2>2, <2>3 DEF Inside
<1>8. IsFiniteSet(L) /\ IsFiniteSet(Inside(L, q))
  <2>1. IsFiniteSet(L)
    BY ConstantsAssumption, FS_Subset
  <2> QED BY <2>1, FS_Subset DEF Inside
<1> HIDE DEF W
<1>9. Cardinality(L) = Cardinality(Inside(L, q)) + Cardinality(W) - Cardinality({})
  BY <1>6, <1>7, <1>8, FS_Union
<1>10. Cardinality(Inside(L, q)) \in Nat /\ Cardinality(L) \in Nat /\ Cardinality({}) = 0
  BY <1>8, FS_CardinalityType, FS_EmptySet
<1> QED BY <1>1, <1>6, <1>8, <1>9, <1>10

\* Without the session of account a.
LEMMA Removal ==
  ASSUME Inv, QueueInv, NEW a \in Listed, NEW r, r = sessions[a]
  PROVE  /\ QueueOf(QueueWithout(r), Listed \ {a})
         /\ QueueWithout(r) # <<>> => queue # <<>>
         /\ RemoveFirst(Waiting(queue), a) = Waiting(QueueWithout(r))
         /\ Inside(Listed, queue) \ {a} = Inside(Listed \ {a}, QueueWithout(r))
         /\ r \in Queued <=> a \notin Inside(Listed, queue)
         /\ r \in Queued <=> a \in ToSet(Waiting(queue))
         /\ \A x : x \in ToSet(QueueWithout(r)) <=> x # r /\ x \in Queued
<1> DEFINE q == QueueWithout(r)
           w == Waiting(queue)
<1>1. TypeOK /\ MapsOwned /\ a \in Accounts /\ r \in Sessions /\ r # Null /\ ses[r].acct = a
  BY CoreTypes DEF Inv, MapsOwned, Listed
<1>2. /\ queue \in Seq(Sessions) /\ Len(queue) \in Nat /\ DOMAIN queue = 1..Len(queue)
      /\ \A i \in 1..Len(queue) : ses[queue[i]].acct \in Accounts
  BY LenProperties DEF QueueInv, QueueOf, Listed
<1>3. w \in Seq(Accounts) /\ Len(w) = Len(queue) /\ \A i \in 1..Len(queue) : w[i] = ses[queue[i]].acct
  BY <1>2, WaitingSeq
<1>4. \A i \in 1..Len(queue) : queue[i] = r <=> w[i] = a
  BY <1>1, <1>3 DEF QueueInv, QueueOf
<1>5. \A i, j \in 1..Len(queue) : queue[i] = queue[j] => i = j
  BY DEF QueueInv, QueueOf
<1> HIDE DEF w
<1>6. RemoveFirst(queue, r) \in Seq(Sessions) /\ RemoveFirst(w, a) \in Seq(Accounts)
  BY <1>2, <1>3, RemoveFirstType
<1> DEFINE At(m) == LeftFrom(RemoveFirst(queue, r), RemoveFirst(w, a), queue, w, r, m)
<1>7. PICK m : At(m)
  <2>1. Matching(queue, w, r, a)
    BY <1>3, <1>4, <1>5 DEF Matching
  <2> QED BY <1>2, <1>3, <2>1, RemoveFirstAlike
<1>8. /\ q \in Seq(Sessions) /\ RemoveFirst(w, a) \in Seq(Accounts)
      /\ Len(RemoveFirst(w, a)) = Len(q) /\ DOMAIN q = 1..Len(q) /\ Len(q) \in Nat
      /\ \A i \in 1..Len(q) : /\ m[i] \in 1..Len(queue) /\ queue[m[i]] # r /\ q[i] = queue[m[i]]
                              /\ RemoveFirst(w, a)[i] = w[m[i]]
      /\ \A i, j \in 1..Len(q) : m[i] = m[j] => i = j
      /\ \A j \in 1..Len(queue) : queue[j] # r => \E i \in 1..Len(q) : m[i] = j
  <2>1. q = RemoveFirst(queue, r)
    BY DEF QueueWithout
  <2>2. DOMAIN q = 1..Len(q) /\ Len(q) \in Nat
    BY <1>7, <2>1, LenProperties
  <2> QED BY <1>6, <1>7, <2>1, <2>2 DEF LeftFrom
<1> HIDE DEF q, At
<1>9. QueueOf(q, Listed \ {a})
  <2>1. ASSUME NEW i \in 1..Len(q), NEW j \in 1..Len(q), q[i] = q[j] PROVE i = j
    <3>1. /\ q[i] = queue[m[i]] /\ q[j] = queue[m[j]]
          /\ m[i] \in 1..Len(queue) /\ m[j] \in 1..Len(queue)
      BY <1>8
    <3>2. m[i] = m[j]
      BY <1>5, <2>1, <3>1
    <3> QED BY <1>8, <3>2
  <2>2. ASSUME NEW i \in 1..Len(q)
        PROVE  ses[q[i]].acct \in Listed \ {a} /\ sessions[ses[q[i]].acct] = q[i]
    <3>1. m[i] \in 1..Len(queue) /\ queue[m[i]] # r /\ q[i] = queue[m[i]]
      BY <1>8
    <3> QED BY <3>1 DEF QueueInv, QueueOf
  <2> QED BY <1>8, <2>1, <2>2 DEF QueueOf
<1>10. q # <<>> => queue # <<>>
  <2> SUFFICES ASSUME q # <<>>, queue = <<>> PROVE FALSE
    OBVIOUS
  <2>1. Len(q) \in Nat \ {0} /\ Len(queue) = 0
    BY <1>8, EmptySeq
  <2> QED BY <1>8, <2>1
<1>11. RemoveFirst(w, a) = Waiting(q)
  <2>1. ASSUME NEW i \in 1..Len(q) PROVE RemoveFirst(w, a)[i] = ses[q[i]].acct
    <3>1. m[i] \in 1..Len(queue) /\ q[i] = queue[m[i]] /\ RemoveFirst(w, a)[i] = w[m[i]]
      BY <1>8
    <3> QED BY <1>3, <3>1
  <2>2. DOMAIN RemoveFirst(w, a) = 1..Len(q) /\ RemoveFirst(w, a) = [i \in DOMAIN RemoveFirst(w, a) |-> RemoveFirst(w, a)[i]]
    BY <1>8, LenProperties
  <2> QED BY <1>8, <2>1, <2>2 DEF Waiting
<1>12. \A x : x \in ToSet(q) <=> x # r /\ x \in ToSet(queue)
  <2>1. \A x : x \in ToSet(q) <=> \E i \in 1..Len(q) : q[i] = x
    BY <1>8, InToSet
  <2>2. \A x : x \in ToSet(queue) <=> \E i \in 1..Len(queue) : queue[i] = x
    BY <1>2, InToSet
  <2> QED BY <1>8, <2>1, <2>2
<1>13. Inside(Listed, queue) \ {a} = Inside(Listed \ {a}, q)
  <2>1. \A x \in Listed \ {a} : sessions[x] # r
    BY <1>1, OnePlace DEF Listed
  <2> QED BY <1>12, <2>1 DEF Inside
<1>14. r \in Queued <=> a \notin Inside(Listed, queue)
  BY DEF Inside, Queued
<1>15. r \in Queued <=> a \in ToSet(w)
  <2>1. r \in Queued <=> \E i \in 1..Len(queue) : queue[i] = r
    BY <1>2, InToSet DEF Queued
  <2>2. a \in ToSet(w) <=> \E i \in 1..Len(queue) : w[i] = a
    BY <1>3, InToSet
  <2> QED BY <1>4, <2>1, <2>2
<1> QED BY <1>9, <1>10, <1>11, <1>12, <1>13, <1>14, <1>15 DEF q, w, Queued

\* The queue without its head.
LEMMA QueueTail ==
  ASSUME Inv, NEW L \in SUBSET Accounts, NEW q, QueueOf(q, L), q # <<>>
  PROVE  /\ QueueOf(Tail(q), L)
         /\ Waiting(q) # <<>> /\ Waiting(Tail(q)) = Tail(Waiting(q))
         /\ Head(q) = q[1] /\ Head(Waiting(q)) = ses[q[1]].acct
         /\ ses[q[1]].acct \in L \ Inside(L, q)
         /\ Inside(L, Tail(q)) = Inside(L, q) \cup {ses[q[1]].acct}
         /\ \A x : x \in ToSet(q) <=> x = q[1] \/ x \in ToSet(Tail(q))
<1> DEFINE w == Waiting(q)
           h == ses[q[1]].acct
<1>1. q \in Seq(Sessions) /\ Len(q) \in Nat \ {0} /\ DOMAIN q = 1..Len(q)
  BY EmptySeq, LenProperties DEF QueueOf
<1>2. /\ Tail(q) \in Seq(Sessions) /\ Len(Tail(q)) = Len(q) - 1
      /\ \A i \in 1..(Len(q) - 1) : Tail(q)[i] = q[i + 1]
      /\ DOMAIN Tail(q) = 1..(Len(q) - 1)
  BY <1>1, HeadTailProperties, LenProperties
<1>3. /\ w \in Seq(L) /\ Len(w) = Len(q) /\ w # <<>>
      /\ \A i \in 1..Len(q) : w[i] = ses[q[i]].acct
  <2>1. w \in Seq(L) /\ Len(w) = Len(q) /\ \A i \in 1..Len(q) : w[i] = ses[q[i]].acct
    BY WaitingSeq DEF QueueOf
  <2>2. Len(<<>>) = 0
    BY EmptySeq
  <2> QED BY <1>1, <2>1, <2>2
<1> HIDE DEF w
<1>4. QueueOf(Tail(q), L)
  <2>1. \A i \in 1..(Len(q) - 1) : i \in 1..Len(q) /\ i + 1 \in 1..Len(q)
    BY <1>1
  <2>2. \A i, j \in 1..(Len(q) - 1) : Tail(q)[i] = Tail(q)[j] => i = j
    <3> TAKE i, j \in 1..(Len(q) - 1)
    <3>1. Tail(q)[i] = Tail(q)[j] => i + 1 = j + 1
      BY <1>2, <2>1 DEF QueueOf
    <3> QED BY <1>1, <3>1
  <2>3. \A i \in 1..(Len(q) - 1) :
          ses[Tail(q)[i]].acct \in L /\ sessions[ses[Tail(q)[i]].acct] = Tail(q)[i]
    BY <1>2, <2>1 DEF QueueOf
  <2> QED BY <1>2, <2>2, <2>3 DEF QueueOf
<1>5. Waiting(Tail(q)) = Tail(w)
  <2>1. /\ Tail(w) \in Seq(L) /\ Len(Tail(w)) = Len(q) - 1
        /\ \A i \in 1..(Len(q) - 1) : Tail(w)[i] = w[i + 1]
    BY <1>3, HeadTailProperties
  <2>2. /\ DOMAIN Tail(w) = 1..(Len(q) - 1)
        /\ Tail(w) = [i \in DOMAIN Tail(w) |-> Tail(w)[i]]
    BY <2>1, LenProperties
  <2>3. \A i \in 1..(Len(q) - 1) : Tail(w)[i] = ses[Tail(q)[i]].acct
    BY <1>1, <1>2, <1>3, <2>1
  <2> QED BY <1>2, <2>2, <2>3 DEF Waiting
<1>6. Head(q) = q[1] /\ Head(w) = h
  BY <1>1, <1>3
<1>7. \A x : x \in ToSet(q) <=> x = q[1] \/ x \in ToSet(Tail(q))
  <2>1. \A x : x \in ToSet(q) <=> \E i \in 1..Len(q) : q[i] = x
    BY <1>1, InToSet
  <2>2. \A x : x \in ToSet(Tail(q)) <=> \E i \in 1..(Len(q) - 1) : Tail(q)[i] = x
    BY <1>2, InToSet
  <2>3. \A i \in 1..Len(q) : i = 1 \/ (i - 1 \in 1..(Len(q) - 1) /\ Tail(q)[i - 1] = q[i])
    BY <1>1, <1>2
  <2>4. \A i \in 1..(Len(q) - 1) : i + 1 \in 1..Len(q)
    BY <1>1
  <2>5. 1 \in 1..Len(q)
    BY <1>1
  <2> QED BY <1>2, <2>1, <2>2, <2>3, <2>4, <2>5
<1>8. q[1] \notin ToSet(Tail(q))
  <2>1. \A x : x \in ToSet(Tail(q)) <=> \E i \in 1..(Len(q) - 1) : Tail(q)[i] = x
    BY <1>2, InToSet
  <2>2. \A i \in 1..(Len(q) - 1) : i + 1 \in 1..Len(q) /\ 1 \in 1..Len(q) /\ i + 1 # 1
    BY <1>1
  <2> QED BY <1>2, <2>1, <2>2 DEF QueueOf
<1>9. h \in L /\ sessions[h] = q[1]
  BY <1>1 DEF QueueOf
<1>10. h \notin Inside(L, q)
  BY <1>7, <1>9 DEF Inside
<1>11. \A x \in L : sessions[x] = q[1] => x = h
  <2>1. q[1] \in Sessions
    BY <1>1, ElementOfSeq
  <2> QED BY <1>9, <2>1, OnePlace, ConstantsAssumption
<1>12. Inside(L, Tail(q)) = Inside(L, q) \cup {h}
  BY <1>7, <1>8, <1>9, <1>11 DEF Inside
<1> QED BY <1>3, <1>4, <1>5, <1>6, <1>7, <1>9, <1>10, <1>12 DEF w

\* AdmissionQueue means the same operators by the same names.
LEMMA SameOperators ==
  ASSUME NEW q, NEW e
  PROVE  /\ Admission!Cardinality(q) = Cardinality(q)
         /\ Admission!ToSet(q) = ToSet(q)
         /\ Admission!RemoveFirst(q, e) = RemoveFirst(q, e)
<1>1. Admission!Cardinality(q) = Cardinality(q)
  BY Zenon DEF Admission!Cardinality, Cardinality
<1>2. Admission!ToSet(q) = ToSet(q)
  BY DEF Admission!ToSet, ToSet
<1>3. Admission!RemoveFirst(q, e) = RemoveFirst(q, e)
  BY Zenon DEF Admission!RemoveFirst, RemoveFirst, Admission!RemoveAt, RemoveAt,
               Admission!SelectInSeq, SelectInSeq, Admission!Min, Min
<1> QED BY <1>1, <1>2, <1>3

\* The abstract queue in terms of the maps.
LEMMA AdmissionTerms ==
  /\ \A S : Admission!Room(S) <=> Limit = 0 \/ Cardinality(S) < Limit
  /\ \A a : Admission!WaitingWithout(a) =
              LET w == RemoveFirst(Waiting(queue), a) IN
              IF w # <<>> /\ Admission!Room(Inside(Listed, queue) \ {a}) THEN Tail(w) ELSE w
  /\ \A a : Admission!InsideWithout(a) =
              LET w == RemoveFirst(Waiting(queue), a)
                  in == Inside(Listed, queue) \ {a}
              IN  IF w # <<>> /\ Admission!Room(in) THEN in \cup {Head(w)} ELSE in
<1>1. ASSUME NEW S PROVE Admission!Room(S) <=> Limit = 0 \/ Cardinality(S) < Limit
  BY SameOperators DEF Admission!Room
<1>2. ASSUME NEW a
      PROVE  /\ Admission!WaitingWithout(a) =
                  LET w == RemoveFirst(Waiting(queue), a) IN
                  IF w # <<>> /\ Admission!Room(Inside(Listed, queue) \ {a}) THEN Tail(w) ELSE w
             /\ Admission!InsideWithout(a) =
                  LET w == RemoveFirst(Waiting(queue), a)
                      in == Inside(Listed, queue) \ {a}
                  IN  IF w # <<>> /\ Admission!Room(in) THEN in \cup {Head(w)} ELSE in
  <2>1. Admission!RemoveFirst(Waiting(queue), a) = RemoveFirst(Waiting(queue), a)
    BY SameOperators
  <2> QED BY <2>1 DEF Admission!WaitingWithout, Admission!InsideWithout, Waiting, Inside, Queued
<1> QED BY <1>1, <1>2

\* RemoveQueuedPlayer does what AdmissionQueue says of an account that leaves.
LEMMA Departure ==
  ASSUME Inv, QueueInv, NEW a \in Listed, NEW r, r = sessions[a]
  PROVE  /\ QueueOf(QueueAfter(r), Listed \ {a}) /\ Full(QueueAfter(r), Listed \ {a})
         /\ Admission!WaitingWithout(a) = Waiting(QueueAfter(r))
         /\ Admission!InsideWithout(a) = Inside(Listed \ {a}, QueueAfter(r))
<1> DEFINE in == Inside(Listed, queue)
           q == QueueWithout(r)
           L == Listed \ {a}
<1>1. /\ QueueOf(q, L) /\ (q # <<>> => queue # <<>>)
      /\ RemoveFirst(Waiting(queue), a) = Waiting(q)
      /\ in \ {a} = Inside(L, q) /\ (r \in Queued <=> a \notin in)
  BY Removal
<1>2. Listed \in SUBSET Accounts /\ L \in SUBSET Accounts
  BY DEF Listed
<1>3. /\ IsFiniteSet(in) /\ Cardinality(in) \in Nat
      /\ Cardinality(Listed) = Cardinality(in) + Len(queue) /\ Len(queue) \in Nat
      /\ Cardinality(Inside(L, q)) \in Nat /\ IsFiniteSet(Inside(L, q))
  BY <1>1, <1>2, Count DEF QueueInv
<1>4. ActiveCount = Cardinality(in)
  BY <1>3 DEF ActiveCount
<1>5. Cardinality(Inside(L, q)) = IF a \in in THEN Cardinality(in) - 1 ELSE Cardinality(in)
  BY <1>1, <1>3, FS_RemoveElement
<1>6. Limit \in Nat
  BY ConstantsAssumption
<1>7. FreeSlotWithout(r) <=> Admission!Room(Inside(L, q))
  BY <1>1, <1>3, <1>4, <1>5, <1>6, AdmissionTerms DEF FreeSlotWithout
<1>8. q # <<>> => Limit > 0 /\ Cardinality(in) >= Limit
  BY <1>1 DEF QueueInv, Full
<1> HIDE DEF in, q, L
<1>9. q # <<>> <=> Waiting(q) # <<>>
  <2>1. q = <<>> => Waiting(q) = <<>>
    BY DEF Waiting
  <2>2. q # <<>> => Waiting(q) # <<>>
    BY <1>1, <1>2, QueueTail
  <2> QED BY <2>1, <2>2
<1>10. CASE q # <<>> /\ Admission!Room(Inside(L, q))
  <2> DEFINE h == ses[q[1]].acct
  <2>1. /\ QueueOf(Tail(q), L) /\ Waiting(Tail(q)) = Tail(Waiting(q))
        /\ Head(Waiting(q)) = h /\ h \notin Inside(L, q)
        /\ Inside(L, Tail(q)) = Inside(L, q) \cup {h}
    BY <1>1, <1>2, <1>10, QueueTail
  <2>2. QueueAfter(r) = Tail(q)
    BY <1>7, <1>10 DEF QueueAfter, Admits, q
  <2>3. Admission!WaitingWithout(a) = Tail(Waiting(q))
    BY <1>1, <1>9, <1>10, AdmissionTerms DEF in
  <2>4. Admission!InsideWithout(a) = Inside(L, q) \cup {Head(Waiting(q))}
    BY <1>1, <1>9, <1>10, AdmissionTerms DEF in
  <2> HIDE DEF h
  <2>5. Cardinality(Inside(L, Tail(q))) = Cardinality(Inside(L, q)) + 1
    BY <1>3, <2>1, FS_AddElement
  <2>6. Limit > 0 /\ Cardinality(Inside(L, Tail(q))) >= Limit
    BY <1>3, <1>5, <1>6, <1>8, <1>10, <2>5
  <2> QED BY <2>1, <2>2, <2>3, <2>4, <2>6 DEF Full, L
<1>11. CASE ~ (q # <<>> /\ Admission!Room(Inside(L, q)))
  <2>1. QueueAfter(r) = q
    BY <1>7, <1>11 DEF QueueAfter, Admits, q
  <2>2. Admission!WaitingWithout(a) = Waiting(q) /\ Admission!InsideWithout(a) = Inside(L, q)
    BY <1>1, <1>9, <1>11, AdmissionTerms DEF in
  <2>3. q # <<>> => Limit > 0 /\ Cardinality(Inside(L, q)) >= Limit
    BY <1>3, <1>6, <1>8, <1>11, AdmissionTerms
  <2> QED BY <1>1, <2>1, <2>2, <2>3 DEF Full, L
<1> QED BY <1>10, <1>11

\* An account is exempt when the session it leaves was an active one.
LEMMA Exemption ==
  ASSUME Inv, QueueInv, NEW a \in Listed, NEW r, r = sessions[a]
  PROVE  /\ Exempt(RecentAfter(r, a)) \in Admission!ExemptWithout(a)
         /\ a \in Inside(Listed, queue) \cup ToSet(Waiting(queue))
<1>1. /\ r \in Queued <=> a \notin Inside(Listed, queue)
      /\ r \in Queued <=> a \in ToSet(Waiting(queue))
  BY Removal
<1>2. a \in Accounts /\ recent \in [Accounts -> 0..Tolerance] /\ Tolerance \in Nat
  BY ConstantsAssumption DEF Inv, TypeOK, Listed
<1>3. Admission!ExemptWithout(a) = IF a \in Inside(Listed, queue)
                                   THEN {Exempt(recent), Exempt(recent) \cup {a}}
                                   ELSE {Exempt(recent)}
  BY DEF Admission!ExemptWithout, Inside, Queued, Exempt
<1>4. CASE r \in Queued \/ Tolerance = 0
  BY <1>1, <1>3, <1>4 DEF RecentAfter
<1>5. CASE ~ (r \in Queued \/ Tolerance = 0)
  <2>1. Exempt(RecentAfter(r, a)) = Exempt(recent) \cup {a}
    BY <1>2, <1>5 DEF RecentAfter, Exempt
  <2> QED BY <1>1, <1>3, <1>5, <2>1
<1>6. a \in Inside(Listed, queue) \cup ToSet(Waiting(queue))
  BY <1>1
<1> QED BY <1>4, <1>5, <1>6

\* AddSession_ does what AdmissionQueue says of an account that joins.
LEMMA Arrival ==
  ASSUME Inv, NEW a \in Accounts, NEW s \in Sessions, \A x \in Accounts : sessions[x] # s,
         NEW L, L = Listed \ {a}, NEW q, QueueOf(q, L), Full(q, L),
         NEW base \in [Sessions -> Session], base[s].acct = a,
         \A i \in 1..Len(q) : base[q[i]].acct = ses[q[i]].acct,
         NEW rec \in [Accounts -> 0..Tolerance], Enlist(s, a, base, q, rec)
  PROVE  Admission!Join(a, Inside(L, q), Waiting(q), Exempt(rec)) /\ QueueInv'
<1> DEFINE n == Len(q)
           waits == MustQueue(a, Cardinality(L), rec)
<1>1. /\ sessions \in [Accounts -> Sessions \cup {Null}] /\ Null \notin Sessions
      /\ Limit \in Nat /\ Tolerance \in Nat
  BY ConstantsAssumption DEF Inv, TypeOK
<1>2. /\ sessions' = [sessions EXCEPT ![a] = s] /\ recent' = rec
      /\ queue' = IF waits THEN Append(q, s) ELSE q
  BY DEF Enlist
<1>3. (\A x \in Accounts : sessions'[x] = IF x = a THEN s ELSE sessions[x]) /\ Listed' = L \cup {a}
  BY <1>1, <1>2 DEF Listed
<1>4. \A t \in Sessions : ses'[t].acct = base[t].acct
  <2> SUFFICES ASSUME NEW t \in Sessions PROVE ses'[t].acct = base[t].acct
    OBVIOUS
  <2>1. ses'[t] \in {base[t], [base[t] EXCEPT !.inQueue = TRUE], [base[t] EXCEPT !.init = "sent"]}
    BY DEF Enlist
  <2>2. base[t] \in Session
    OBVIOUS
  <2> QED BY <2>1, <2>2 DEF Session
<1>5. /\ q \in Seq(Sessions) /\ n \in Nat /\ DOMAIN q = 1..n
      /\ \A i \in 1..n : /\ q[i] \in Sessions /\ q[i] # s
                         /\ ses'[q[i]].acct = ses[q[i]].acct
                         /\ ses[q[i]].acct \in L /\ sessions'[ses[q[i]].acct] = q[i]
  <2>1. q \in Seq(Sessions) /\ n \in Nat /\ DOMAIN q = 1..n
    BY LenProperties DEF QueueOf
  <2>2. ASSUME NEW i \in 1..n
        PROVE  /\ q[i] \in Sessions /\ q[i] # s
               /\ ses'[q[i]].acct = ses[q[i]].acct
               /\ ses[q[i]].acct \in L /\ sessions'[ses[q[i]].acct] = q[i]
    <3>1. q[i] \in Sessions
      BY <2>1, ElementOfSeq
    <3>2. ses[q[i]].acct \in L /\ sessions[ses[q[i]].acct] = q[i] /\ L \subseteq Accounts \ {a}
      BY DEF QueueOf, Listed
    <3> QED BY <1>3, <1>4, <3>1, <3>2
  <2> QED BY <2>1, <2>2
<1>6. /\ IsFiniteSet(Inside(L, q)) /\ Cardinality(Inside(L, q)) \in Nat /\ Cardinality(L) \in Nat
      /\ Cardinality(L) = Cardinality(Inside(L, q)) + n
  BY Count DEF Listed
<1>7. /\ Waiting(q) \in Seq(L) /\ Len(Waiting(q)) = n
      /\ \A i \in 1..n : Waiting(q)[i] = ses[q[i]].acct
  BY <1>5, WaitingSeq
<1>8. (q = <<>> <=> n = 0) /\ (Waiting(q) = <<>> <=> n = 0)
  BY <1>5, <1>7, EmptySeq
<1>9. waits <=> ~ (\/ Waiting(q) = <<>> /\ Admission!Room(Inside(L, q))
                   \/ Limit = 0 \/ a \in Privileged \cup Exempt(rec))
  <2>1. a \in Exempt(rec) <=> ~ (rec[a] >= Tolerance)
    BY <1>1 DEF Exempt
  <2>2. n = 0 => Cardinality(L) = Cardinality(Inside(L, q))
    BY <1>6
  <2>3. n # 0 => Cardinality(L) >= Limit
    BY <1>1, <1>5, <1>6, <1>8 DEF Full
  <2> QED BY <1>1, <1>6, <1>8, <2>1, <2>2, <2>3, AdmissionTerms DEF MustQueue
<1>10. Exempt(recent)' = Exempt(rec)
  BY <1>2 DEF Exempt
<1>11. Admission!Join(a, Inside(L, q), Waiting(q), Exempt(rec)) <=>
         /\ IF ~ waits THEN Inside(Listed, queue)' = Inside(L, q) \cup {a} /\ Waiting(queue)' = Waiting(q)
            ELSE Inside(Listed, queue)' = Inside(L, q) /\ Waiting(queue)' = Append(Waiting(q), a)
         /\ Exempt(recent)' = Exempt(rec)
  BY <1>9 DEF Admission!Join, Inside, Waiting, Queued, Exempt
<1> HIDE DEF n, waits
<1>12. \A x : x \in ToSet(q) <=> \E i \in 1..n : q[i] = x
  BY <1>5, InToSet DEF n
<1>13. CASE waits
  <2>1. /\ queue' \in Seq(Sessions) /\ Len(queue') = n + 1 /\ DOMAIN queue' = 1..(n + 1)
        /\ \A i \in 1..n : queue'[i] = q[i]
        /\ queue'[n + 1] = s
    BY <1>2, <1>5, <1>13, AppendProperties, LenProperties DEF n
  <2>2. \A i \in 1..(n + 1) : i = n + 1 \/ i \in 1..n
    BY <1>5
  <2>3. QueueOf(queue, Listed)'
    <3>1. ASSUME NEW i \in 1..(n + 1)
          PROVE  ses'[queue'[i]].acct \in Listed' /\ sessions'[ses'[queue'[i]].acct] = queue'[i]
      BY <1>3, <1>4, <1>5, <2>1, <2>2
    <3>2. ASSUME NEW i \in 1..(n + 1), NEW j \in 1..(n + 1), queue'[i] = queue'[j] PROVE i = j
      <4>1. \A k, l \in 1..n : q[k] = q[l] => k = l
        BY DEF QueueOf, n
      <4> QED BY <1>5, <2>1, <2>2, <3>2, <4>1
    <3> QED BY <2>1, <3>1, <3>2 DEF QueueOf
  <2>4. \A x : x \in ToSet(queue') <=> x = s \/ x \in ToSet(q)
    <3>1. \A x : x \in ToSet(queue') <=> \E i \in 1..(n + 1) : queue'[i] = x
      BY <2>1, InToSet
    <3>2. n + 1 \in 1..(n + 1) /\ \A i \in 1..n : i \in 1..(n + 1)
      BY <1>5
    <3> QED BY <1>12, <2>1, <2>2, <3>1, <3>2
  <2>5. Inside(Listed, queue)' = Inside(L, q)
    <3>1. a \notin L /\ L \subseteq Accounts
      BY DEF Listed
    <3>2. Inside(Listed, queue)' = {x \in L \cup {a} : sessions'[x] \notin ToSet(queue')}
      BY <1>3 DEF Inside
    <3> QED BY <1>3, <2>4, <3>1, <3>2 DEF Inside
  <2>6. Waiting(queue)' = Append(Waiting(q), a)
    <3>1. Waiting(q) \in Seq(Accounts)
      BY <1>7, SeqMonotonic DEF Listed
    <3> DEFINE w == Append(Waiting(q), a)
    <3>2. /\ w \in Seq(Accounts) /\ Len(w) = n + 1
          /\ \A i \in 1..n : w[i] = Waiting(q)[i]
          /\ w[n + 1] = a
      BY <1>5, <1>7, <3>1, AppendProperties
    <3>3. DOMAIN w = 1..(n + 1) /\ w = [i \in DOMAIN w |-> w[i]]
      BY <3>2, LenProperties
    <3> HIDE DEF w
    <3>4. ASSUME NEW i \in 1..(n + 1) PROVE w[i] = ses'[queue'[i]].acct
      <4>1. CASE i \in 1..n
        <5>1. w[i] = Waiting(q)[i] /\ queue'[i] = q[i]
          BY <2>1, <3>2, <4>1
        <5>2. Waiting(q)[i] = ses[q[i]].acct
          BY <1>7, <4>1
        <5>3. ses'[q[i]].acct = ses[q[i]].acct
          BY <1>5, <4>1
        <5> QED BY <5>1, <5>2, <5>3
      <4>2. CASE i = n + 1
        BY <1>4, <2>1, <3>2, <4>2
      <4> QED BY <2>2, <4>1, <4>2
    <3>5. Waiting(queue)' = [i \in 1..(n + 1) |-> ses'[queue'[i]].acct]
      BY <2>1 DEF Waiting
    <3> QED BY <3>3, <3>4, <3>5 DEF w
  <2>7. Limit > 0 /\ Cardinality(Inside(L, q)) >= Limit
    <3>1. Limit > 0 /\ Cardinality(L) >= Limit
      BY <1>13 DEF waits, MustQueue
    <3> QED BY <1>5, <1>6, <1>8, <3>1 DEF Full, n
  <2>8. Full(queue, Listed)'
    BY <2>5, <2>7 DEF Full
  <2> QED BY <1>10, <1>11, <1>13, <2>3, <2>5, <2>6, <2>8 DEF QueueInv
<1>14. CASE ~ waits
  <2>1. queue' = q
    BY <1>2, <1>14
  <2>2. QueueOf(queue, Listed)'
    BY <1>3, <1>5, <2>1 DEF QueueOf, n
  <2>3. Inside(Listed, queue)' = Inside(L, q) \cup {a}
    <3>1. a \notin L /\ L \subseteq Accounts /\ s \notin ToSet(q)
      BY <1>5, <1>12 DEF Listed
    <3>2. Inside(Listed, queue)' = {x \in L \cup {a} : sessions'[x] \notin ToSet(q)}
      BY <1>3, <2>1 DEF Inside
    <3> QED BY <1>3, <3>1, <3>2 DEF Inside
  <2>4. Waiting(queue)' = Waiting(q)
    BY <1>5, <2>1 DEF Waiting
  <2>5. Full(queue, Listed)'
    <3> DEFINE in == Inside(L, q)
    <3>1. Cardinality(in \cup {a}) = IF a \in in THEN Cardinality(in) ELSE Cardinality(in) + 1
      BY <1>6, FS_AddElement
    <3> HIDE DEF in
    <3>2. q # <<>> => Limit > 0 /\ Cardinality(in \cup {a}) >= Limit
      BY <1>1, <1>6, <3>1 DEF Full, in
    <3> QED BY <2>1, <2>3, <3>2 DEF Full, in
  <2> QED BY <1>10, <1>11, <1>14, <2>2, <2>3, <2>4, <2>5 DEF QueueInv
<1> QED BY <1>13, <1>14

LEMMA AddAdmits ==
  ASSUME Inv, QueueInv, AddSession \/ ReplaceSession
  PROVE  Admission!Next /\ QueueInv'
<1>1. /\ TypeOK /\ ses \in [Sessions -> Session] /\ recent \in [Accounts -> 0..Tolerance]
      /\ Tolerance \in Nat /\ Null \notin Sessions
  BY ConstantsAssumption DEF Inv, TypeOK
<1>2. PICK s \in Sessions, a \in Accounts :
        /\ s = Head(addQueue) /\ a = ses[s].acct
        /\ \A x \in Accounts : sessions[x] # s /\ offline[x] # s
  <2>1. addQueue # <<>> /\ NewOwned
    BY DEF AddSession, ReplaceSession, Inv
  <2> QED BY <1>1, <2>1, AddQueueTail, OnePlace, CoreTypes DEF NewOwned
<1>3. CASE AddSession
  <2>1. Enlist(s, a, ses, queue, recent) /\ sessions[a] = Null
    BY <1>2, <1>3 DEF AddSession
  <2>2. Listed = Listed \ {a} /\ a \notin Listed
    BY <2>1 DEF Listed
  <2>3. Admission!Join(a, Inside(Listed, queue), Waiting(queue), Exempt(recent)) /\ QueueInv'
    <3> PICK q, L : q = queue /\ L = Listed
      OBVIOUS
    <3>1. PICK base \in [Sessions -> Session], rec \in [Accounts -> 0..Tolerance] :
            base = ses /\ rec = recent /\ q = queue /\ L = Listed
      BY <1>1
    <3>2. Enlist(s, a, base, q, rec) /\ QueueOf(q, L) /\ Full(q, L) /\ L = Listed \ {a}
      BY <2>1, <2>2, <3>1 DEF Enlist, QueueInv
    <3>3. base[s].acct = a /\ \A i \in 1..Len(q) : base[q[i]].acct = ses[q[i]].acct
      BY <1>2, <3>1
    <3>4. Admission!Join(a, Inside(L, q), Waiting(q), Exempt(rec)) /\ QueueInv'
      BY <1>2, <3>2, <3>3, Arrival
    <3> QED BY <3>1, <3>4 DEF Admission!Join
  <2>4. a \notin Inside(Listed, queue) \cup ToSet(Waiting(queue))
    <3>1. Waiting(queue) \in Seq(Listed)
      BY WaitingSeq DEF QueueInv, QueueOf
    <3>2. \A x \in ToSet(Waiting(queue)) : x \in Listed
      BY <3>1, InToSet, ElementOfSeq
    <3> QED BY <2>2, <3>2 DEF Inside
  <2>5. Admission!Arrive(a)
    BY <2>3, <2>4, SameOperators DEF Admission!Arrive, Inside, Waiting, Exempt, Queued
  <2> QED BY <2>3, <2>5 DEF Admission!Next
<1>4. CASE ReplaceSession
  <2>1. PICK old \in Sessions : old = sessions[a]
    BY <1>1, <1>2, <1>4 DEF ReplaceSession, TypeOK
  <2> DEFINE stays == StaysInWorld(Closed(ses[old]))
             after == IF stays THEN SesAfter({offline[a]}, {old}, Promoted(old))
                      ELSE SesAfter({old}, {}, Promoted(old))
  <2>2. RecentAfter(old, a) \in [Accounts -> 0..Tolerance]
    <3>1. 0 \in 0..Tolerance
      BY <1>1
    <3> QED BY <1>1, <3>1 DEF RecentAfter
  <2> PICK q, L : q = QueueAfter(old) /\ L = Listed \ {a}
    OBVIOUS
  <2>3. PICK base \in [Sessions -> Session], rec \in [Accounts -> 0..Tolerance] :
          base = after /\ rec = RecentAfter(old, a) /\ q = QueueAfter(old) /\ L = Listed \ {a}
    <3>1. after \in [Sessions -> Session]
      BY <1>1, SesAfterType
    <3> HIDE DEF after
    <3> QED BY <2>2, <3>1
  <2>4. Enlist(s, a, base, q, rec)
    <3>1. Enlist(s, a, after, QueueAfter(old), RecentAfter(old, a))
      BY <1>2, <1>4, <2>1 DEF ReplaceSession
    <3> HIDE DEF after
    <3> QED BY <2>3, <3>1 DEF Enlist
  <2>5. \A t \in Sessions : t # old /\ t # offline[a] => base[t].acct = ses[t].acct
    BY <1>1, <2>3, SesAfterCore
  <2> HIDE DEF after
  <2>6. a \in Listed
    BY <1>1, <2>1 DEF Listed
  <2>7. /\ QueueOf(q, L) /\ Full(q, L)
        /\ Admission!WaitingWithout(a) = Waiting(q)
        /\ Admission!InsideWithout(a) = Inside(L, q)
    BY <2>1, <2>3, <2>6, Departure
  <2>8. base[s].acct = a
    BY <1>2, <2>1, <2>5
  <2>9. ASSUME NEW i \in 1..Len(q) PROVE base[q[i]].acct = ses[q[i]].acct
    <3>1. q[i] \in Sessions
      BY <2>7, ElementOfSeq DEF QueueOf
    <3> DEFINE x == ses[q[i]].acct
    <3>2. x \in Listed \ {a} /\ sessions[x] = q[i] /\ Listed \subseteq Accounts
      BY <2>3, <2>7 DEF QueueOf, Listed
    <3> HIDE DEF x
    <3>3. q[i] # old /\ q[i] # offline[a]
      BY <1>1, <2>1, <3>1, <3>2, OnePlace
    <3> QED BY <2>5, <3>1, <3>3
  <2>10. Admission!Join(a, Inside(L, q), Waiting(q), Exempt(rec)) /\ QueueInv'
    BY <1>2, <2>3, <2>4, <2>7, <2>8, <2>9, Arrival
  <2>11. /\ Exempt(rec) \in Admission!ExemptWithout(a)
         /\ a \in Inside(Listed, queue) \cup ToSet(Waiting(queue))
    BY <2>1, <2>3, <2>6, Exemption
  <2>12. Admission!Return(a)
    <3>1. PICK ex : ex = Exempt(rec)
      OBVIOUS
    <3>2. Admission!Join(a, Admission!InsideWithout(a), Admission!WaitingWithout(a), ex)
      BY <2>7, <2>10, <3>1 DEF Admission!Join
    <3> QED BY <2>11, <3>1, <3>2, SameOperators DEF Admission!Return, Inside, Waiting, Queued
  <2> QED BY <2>10, <2>12 DEF Admission!Next
<1> QED BY <1>3, <1>4

\* A session leaves the map of its account.
LEMMA LeaveAdmits ==
  ASSUME Inv, QueueInv, NEW a \in Listed, NEW r, r = sessions[a],
         sessions' = [sessions EXCEPT ![a] = Null],
         queue' = QueueAfter(r), recent' = RecentAfter(r, a),
         \A x \in Listed \ {a} : ses'[sessions[x]].acct = ses[sessions[x]].acct
  PROVE  Admission!Next /\ QueueInv'
<1> DEFINE q == QueueAfter(r)
           L == Listed \ {a}
<1>1. /\ QueueOf(q, L) /\ Full(q, L)
      /\ Admission!WaitingWithout(a) = Waiting(q)
      /\ Admission!InsideWithout(a) = Inside(L, q)
  BY Departure
<1>2. /\ Exempt(RecentAfter(r, a)) \in Admission!ExemptWithout(a)
      /\ a \in Inside(Listed, queue) \cup ToSet(Waiting(queue))
  BY Exemption
<1>3. /\ a \in Accounts /\ sessions \in [Accounts -> Sessions \cup {Null}]
  BY DEF Inv, TypeOK, Listed
<1>4. Listed' = L /\ \A x \in L : sessions'[x] = sessions[x]
  BY <1>3 DEF Listed
<1> HIDE DEF q
<1>5. queue' = q
  BY DEF q
<1>6. Inside(Listed, queue)' = Inside(L, q)
  BY <1>4, <1>5 DEF Inside
<1>7. q \in Seq(Sessions) /\ DOMAIN q = 1..Len(q)
      /\ \A i \in 1..Len(q) : /\ ses'[q[i]].acct = ses[q[i]].acct
                              /\ ses[q[i]].acct \in L /\ sessions[ses[q[i]].acct] = q[i]
  BY <1>1, LenProperties DEF QueueOf
<1>8. Waiting(queue)' = Waiting(q)
  BY <1>5, <1>7 DEF Waiting
<1>9. QueueOf(queue, Listed)'
  BY <1>1, <1>4, <1>5, <1>7 DEF QueueOf
<1>10. Full(queue, Listed)'
  BY <1>1, <1>5, <1>6 DEF Full
<1>11. Exempt(recent)' = Exempt(RecentAfter(r, a))
  BY DEF Exempt
<1>12. Admission!Leave(a)
  BY <1>1, <1>2, <1>6, <1>8, <1>11, SameOperators DEF Admission!Leave, Inside, Waiting, Exempt, Queued
<1> QED BY <1>3, <1>9, <1>10, <1>12 DEF QueueInv, Admission!Next

\* The other steps leave the queue and the map of the listed sessions alone.
LEMMA SameQueue ==
  ASSUME Inv, QueueInv, UNCHANGED <<sessions, queue>>,
         \A a \in Listed : ses'[sessions[a]].acct = ses[sessions[a]].acct
  PROVE  /\ QueueInv'
         /\ Inside(Listed, queue)' = Inside(Listed, queue) /\ Waiting(queue)' = Waiting(queue)
<1>1. Listed' = Listed
  BY DEF Listed
<1>2. Inside(Listed, queue)' = Inside(Listed, queue)
  BY <1>1 DEF Inside
<1>3. /\ queue \in Seq(Sessions) /\ DOMAIN queue = 1..Len(queue)
      /\ \A i \in 1..Len(queue) : /\ ses'[queue[i]].acct = ses[queue[i]].acct
                                  /\ ses[queue[i]].acct \in Listed
                                  /\ sessions[ses[queue[i]].acct] = queue[i]
  BY LenProperties DEF QueueInv, QueueOf
<1>4. Waiting(queue)' = Waiting(queue)
  BY <1>3 DEF Waiting
<1>5. QueueOf(queue, Listed)'
  BY <1>1, <1>3 DEF QueueInv, QueueOf
<1>6. Full(queue, Listed)'
  BY <1>2 DEF QueueInv, Full
<1> QED BY <1>2, <1>4, <1>5, <1>6 DEF QueueInv

\* Nothing happens to the queue.
LEMMA Stutter ==
  ASSUME Inv, QueueInv, UNCHANGED <<sessions, queue, recent>>,
         \A a \in Listed : ses'[sessions[a]].acct = ses[sessions[a]].acct
  PROVE  QueueInv' /\ UNCHANGED Admission!vars
<1>1. /\ QueueInv'
      /\ Inside(Listed, queue)' = Inside(Listed, queue) /\ Waiting(queue)' = Waiting(queue)
  BY SameQueue
<1>2. Exempt(recent)' = Exempt(recent)
  BY DEF Exempt
<1> QED BY <1>1, <1>2 DEF Admission!vars, Inside, Waiting, Exempt, Queued

LEMMA KickAllAdmits ==
  ASSUME Inv, QueueInv, KickAll
  PROVE  QueueInv' /\ Admission!Next
<1>1. UNCHANGED <<sessions, recent>> /\ queue' = <<>>
  BY DEF KickAll
<1>2. Listed' = Listed /\ Exempt(recent)' = Exempt(recent)
  BY <1>1 DEF Listed, Exempt
<1>3. <<>> \in Seq(Sessions) /\ Len(<<>>) = 0 /\ DOMAIN <<>> = {} /\ ToSet(<<>>) = {}
  <2>1. <<>> \in Seq(Sessions) /\ Len(<<>>) = 0 /\ DOMAIN <<>> = {}
    BY EmptySeq
  <2> QED BY <2>1 DEF ToSet
<1>4. QueueInv'
  BY <1>1, <1>3 DEF QueueInv, QueueOf, Full
<1>5. Inside(Listed, queue)' = Listed
  BY <1>1, <1>2, <1>3 DEF Inside
<1>6. ASSUME NEW a \in Listed
      PROVE  a \in Inside(Listed, queue) \/ a \in ToSet(Waiting(queue))
  BY Exemption
<1>7. ToSet(Waiting(queue)) \subseteq Listed
  <2>1. Waiting(queue) \in Seq(Listed)
    BY WaitingSeq DEF QueueInv, QueueOf
  <2> QED BY <2>1, InToSet, ElementOfSeq
<1>8. Inside(Listed, queue)' = Inside(Listed, queue) \cup ToSet(Waiting(queue))
  BY <1>5, <1>6, <1>7 DEF Inside
<1>9. Waiting(queue)' = <<>>
  <2>1. Waiting(queue)' = [i \in {} |-> ses'[queue'[i]].acct]
    BY <1>1, <1>3 DEF Waiting
  <2> QED BY <2>1
<1>10. Admission!Dissolve
  BY <1>2, <1>8, <1>9, SameOperators DEF Admission!Dissolve, Inside, Waiting, Exempt, Queued
<1> QED BY <1>4, <1>10 DEF Admission!Next

LEMMA BeginUpdateAdmits ==
  ASSUME Inv, QueueInv, NEW d \in {0, 1}, BeginUpdate(d)
  PROVE  QueueInv' /\ Admission!Next
<1>1. UNCHANGED <<sessions, queue>> /\ recent' = [a \in Accounts |-> UpTo(recent[a] + d, Tolerance)]
  BY DEF BeginUpdate
<1>2. QuietStep
  BY DEF QuietStep
<1>3. \A a \in Listed : ses'[sessions[a]].acct = ses[sessions[a]].acct
  BY <1>2, QuietKept, CoreTypes DEF Kept, Listed, Inv
<1>4. /\ QueueInv'
      /\ Inside(Listed, queue)' = Inside(Listed, queue) /\ Waiting(queue)' = Waiting(queue)
  BY <1>1, <1>3, SameQueue
<1>5. recent \in [Accounts -> 0..Tolerance] /\ Tolerance \in Nat
  BY ConstantsAssumption DEF Inv, TypeOK
<1>6. Exempt(recent)' \subseteq Exempt(recent)
  BY <1>1, <1>5 DEF Exempt, UpTo
<1>7. Admission!Forget
  BY <1>4, <1>6 DEF Admission!Forget, Inside, Waiting, Exempt, Queued
<1> QED BY <1>4, <1>7 DEF Admission!Next

\* Steps that only touch the other parts of the state.
LEMMA QuietAdmits ==
  ASSUME Inv, QueueInv, QuietStep
  PROVE  QueueInv' /\ [Admission!Next]_(Admission!vars)
<1>1. CASE KickAll
  BY <1>1, KickAllAdmits
<1>2. CASE \E d \in {0, 1} : BeginUpdate(d)
  BY <1>2, BeginUpdateAdmits
<1>3. CASE UNCHANGED <<queue, recent>>
  <2>1. \A s \in Sessions : Kept(s)
    BY QuietKept
  <2>2. UNCHANGED <<addQueue, sessions, offline>>
    BY <2>1, QuietThread
  <2>3. \A a \in Listed : ses'[sessions[a]].acct = ses[sessions[a]].acct
    BY <2>1, CoreTypes DEF Kept, Listed, Inv
  <2> QED BY <1>3, <2>2, <2>3, Stutter
<1> QED
  BY <1>1, <1>2, <1>3
     DEF QuietStep, StopNow, EndAdd, EndPackets, InitializeSessionCallback, HandleCharEnum,
         LoadFromDBFails, KeepSession, BeginSessionUpdate, LoginKicked, CharEnum,
         InstantLogout, SetLogoutStartTime, SocketClose, KickPlayer, MovePlayer, vars

\* A session that a step does not flag as queued, and that waits for what it waited for.
Patient(s) == ses'[s].inQueue => ses[s].inQueue /\ ses'[s].init = ses[s].init

\* Logins, new sessions and refused ones, and the end of the offline sessions.
OtherStep ==
  \/ RejectSession \/ EndUpdate
  \/ \E away \in BOOLEAN : LoginFromDB(away)
  \/ \E s \in Sessions, c \in Chars : LoginRequested(s, c) \/ Reclaim(s, c)
  \/ \E s \in Sessions, a \in Accounts : NewSession(s, a)

\* They leave the account and the flag of a listed session alone.
LEMMA OtherKept ==
  ASSUME Inv, OtherStep, NEW a \in Listed, NEW t, t = sessions[a]
  PROVE  ses'[t].acct = ses[t].acct /\ Patient(t)
<1> DEFINE Same == /\ ses'[t].acct = ses[t].acct
                   /\ ses'[t].inQueue => ses[t].inQueue /\ ses'[t].init = ses[t].init
<1>1. TypeOK /\ ses \in [Sessions -> Session] /\ Null \notin Accounts
  BY ConstantsAssumption DEF Inv, TypeOK
<1>2. t \in Sessions /\ ses[t] \in Session /\ ses[t].acct # Null /\ a \in Accounts /\ t # Null
  BY <1>1, CoreTypes DEF Listed, Inv, MapsOwned
<1>3. CASE RejectSession
  <2>1. addQueue # <<>> /\ ses' = [ses EXCEPT ![Head(addQueue)] = NoSession]
    BY <1>3 DEF RejectSession
  <2>2. t # Head(addQueue)
    BY <1>1, <1>2, <2>1, AddQueueTail, OnePlace
  <2>3. ses'[t] = ses[t]
    BY <1>1, <1>2, <2>1, <2>2
  <2> QED BY <2>3 DEF Patient
<1>4. CASE EndUpdate
  <2> DEFINE gone == {o \in Abandoned : Expired(o)}
  <2>1. t \notin gone
    BY <1>2, OnePlace DEF Abandoned
  <2>2. ses' = SesAfter(gone, {}, {})
    BY <1>4 DEF EndUpdate
  <2> HIDE DEF gone
  <2>3. ses'[t] = ses[t]
    BY <1>2, <2>1, <2>2 DEF SesAfter
  <2> QED BY <2>3 DEF Patient
<1>5. ASSUME NEW away \in BOOLEAN, LoginFromDB(away) PROVE Same
  <2>1. ses'[t] \in {ses[t], [ses[t] EXCEPT !.load = "none", !.want = Null,
                                            !.player = ses[t].want, !.away = away]}
    BY <1>1, <1>2, <1>5 DEF LoginFromDB
  <2> QED BY <1>2, <2>1 DEF Session
<1>6. ASSUME NEW s \in Sessions, NEW c \in Chars, LoginRequested(s, c) PROVE Same
  <2>1. ses'[t] \in {ses[t], [ses[t] EXCEPT !.load = "sent", !.want = c], Kicked(ses[t])}
    BY <1>1, <1>2, <1>6 DEF LoginRequested
  <2> QED BY <1>2, <2>1 DEF Session, Kicked, Closed
<1>7. ASSUME NEW s \in Sessions, NEW c \in Chars, Reclaim(s, c) PROVE Same
  <2> DEFINE o == offline[ses[s].acct]
  <2>1. PICK away \in {FALSE, ses[o].away} :
          ses' = [ses EXCEPT ![s] = [@ EXCEPT !.player = c, !.away = away],
                             ![o] = [@ EXCEPT !.player = Null, !.away = FALSE]]
    BY <1>7 DEF Reclaim
  <2>2. ses[s].acct \in Accounts /\ sessions[ses[s].acct] = s
    BY <1>7 DEF Reclaim, MayLogIn, Receives, Inv, ThreadOwned
  <2>3. o # t /\ o # s
    BY <1>2, <2>2, OnePlace, ConstantsAssumption
  <2> HIDE DEF o
  <2>4. ses'[t] \in {ses[t], [ses[t] EXCEPT !.player = c, !.away = away]}
    BY <1>1, <1>2, <2>1, <2>3
  <2> QED BY <1>2, <2>4 DEF Session
<1>8. ASSUME NEW s \in Sessions, NEW x \in Accounts, NewSession(s, x) PROVE Same
  BY <1>1, <1>2, <1>8 DEF NewSession
<1> HIDE DEF Same
<1>9. CASE \/ \E away \in BOOLEAN : LoginFromDB(away)
           \/ \E s \in Sessions, c \in Chars : LoginRequested(s, c) \/ Reclaim(s, c)
           \/ \E s \in Sessions, x \in Accounts : NewSession(s, x)
  <2>1. Same
    BY <1>5, <1>6, <1>7, <1>8, <1>9
  <2> QED BY <2>1 DEF Same, Patient
<1> QED BY <1>3, <1>4, <1>9 DEF OtherStep

LEMMA OtherAdmits ==
  ASSUME Inv, QueueInv, OtherStep
  PROVE  QueueInv' /\ UNCHANGED Admission!vars
<1>1. UNCHANGED <<sessions, queue, recent>>
  BY DEF OtherStep, RejectSession, EndUpdate, LoginFromDB, LoginRequested, Reclaim, NewSession
<1> QED BY <1>1, OtherKept, Stutter

LEMMA AbandonAdmits ==
  ASSUME Inv, QueueInv, NEW a \in Accounts, AbandonSession(a)
  PROVE  QueueInv' /\ Admission!Next
<1>1. a \in Listed /\ TypeOK
  BY DEF AbandonSession, Inv, ThreadOwned, Listed
<1>2. PICK r : r = sessions[a]
  OBVIOUS
<1>3. /\ sessions' = [sessions EXCEPT ![a] = Null]
      /\ queue' = QueueAfter(r) /\ recent' = RecentAfter(r, a)
      /\ ses' = SesAfter({offline[a]}, {r}, Promoted(r))
  BY <1>2 DEF AbandonSession
<1>4. ASSUME NEW x \in Listed \ {a} PROVE ses'[sessions[x]].acct = ses[sessions[x]].acct
  <2>1. sessions[x] \in Sessions /\ sessions[x] # offline[a]
    BY <1>1, OnePlace, CoreTypes DEF Listed
  <2> QED BY <1>1, <1>3, <2>1, SesAfterCore
<1> QED BY <1>1, <1>2, <1>3, <1>4, LeaveAdmits

LEMMA DeleteAdmits ==
  ASSUME Inv, QueueInv, DeleteSession
  PROVE  QueueInv' /\ Admission!Next
<1>1. /\ TypeOK /\ cur \in Sessions /\ Null \notin Sessions
      /\ ses[cur].acct \in Accounts /\ sessions[ses[cur].acct] = cur
  BY ConstantsAssumption DEF DeleteSession, Inv, ThreadOwned
<1>2. PICK a \in Accounts, r \in Sessions : a = ses[cur].acct /\ r = cur
  BY <1>1
<1>3. a \in Listed /\ r = sessions[a]
  BY <1>1, <1>2 DEF Listed
<1>4. /\ sessions' = [sessions EXCEPT ![a] = Null]
      /\ queue' = QueueAfter(r) /\ recent' = RecentAfter(r, a)
      /\ ses' = SesAfter({r}, {}, Promoted(r))
  BY <1>2 DEF DeleteSession
<1>5. ASSUME NEW x \in Listed \ {a} PROVE ses'[sessions[x]].acct = ses[sessions[x]].acct
  <2>1. sessions[x] \in Sessions /\ sessions[x] # r
    BY <1>1, <1>3, OnePlace, CoreTypes DEF Listed
  <2> QED BY <1>1, <1>4, <2>1, SesAfterCore
<1> QED BY <1>3, <1>4, <1>5, LeaveAdmits

LEMMA NextCases ==
  ASSUME [Next]_vars
  PROVE  \/ QuietStep \/ OtherStep \/ AddSession \/ ReplaceSession \/ DeleteSession
         \/ \E a \in Accounts : AbandonSession(a)
BY DEF Next, AddStep, LoopStep, Packet, Other, Halted, QuietStep, OtherStep

LEMMA NextAdmits ==
  Inv /\ QueueInv /\ [Next]_vars => QueueInv' /\ [Admission!Next]_(Admission!vars)
BY NextCases, QuietAdmits, OtherAdmits, AddAdmits, DeleteAdmits, AbandonAdmits

LEMMA InitAdmits == Init => QueueInv /\ Admission!Init
<1> SUFFICES ASSUME Init PROVE QueueInv /\ Admission!Init
  OBVIOUS
<1>1. <<>> \in Seq(Sessions) /\ Len(<<>>) = 0 /\ DOMAIN <<>> = {}
  BY EmptySeq
<1>2. queue = <<>> /\ Listed = {} /\ recent = [a \in Accounts |-> Tolerance] /\ Tolerance \in Nat
  BY ConstantsAssumption DEF Init, Listed
<1>3. QueueInv
  BY <1>1, <1>2 DEF QueueInv, QueueOf, Full
<1>4. [i \in DOMAIN queue |-> ses[queue[i]].acct] = <<>>
  <2>1. [i \in DOMAIN queue |-> ses[queue[i]].acct] = [i \in {} |-> ses[queue[i]].acct]
    BY <1>1, <1>2
  <2> QED BY <2>1
<1> QED BY <1>2, <1>3, <1>4 DEF Admission!Init

\* What the player limit promises: an account enters at once only when nobody waits
\* and there is room or when it is exempt, the others wait in the order of their
\* arrival, and a place left empty goes to the first of them, although the code
\* decides with counts of listed and queued sessions taken at different moments.
THEOREM ImplementsAdmission == Spec => AdmissionSpec
<1>1. Init => Inv /\ QueueInv /\ Admission!Init
  BY InitInv, InitAdmits
<1>2. Inv /\ QueueInv /\ [Next]_vars
        => Inv' /\ QueueInv' /\ [Admission!Next]_(Admission!vars)
  BY NextInv, NextAdmits
<1> QED BY <1>1, <1>2, PTL DEF Spec, AdmissionSpec, Admission!Spec

-----------------------------------------------------------------------------
(***************************************************************************)
(* Nobody stays flagged as queued: the flag is set with the entry into the *)
(* queue, and a session let out of the queue has InitializeSession under   *)
(* way, whose callback resets the flag.                                    *)
(***************************************************************************)

LEMMA QuietPatient ==
  ASSUME Inv, QuietStep, NEW s \in Sessions
  PROVE  Patient(s)
<1>1. ses \in [Sessions -> Session] /\ ses[s] \in Session
  BY DEF Inv, TypeOK
<1>2. ASSUME NEW r \in Session
      PROVE  /\ Closed(r).inQueue = r.inQueue /\ Closed(r).init = r.init
             /\ Kicked(r).inQueue = r.inQueue /\ Kicked(r).init = r.init
             /\ LoggedOut(r).inQueue = r.inQueue /\ LoggedOut(r).init = r.init
  BY DEF Closed, Kicked, LoggedOut, Session
<1>3. CASE \E d \in {0, 1} : BeginUpdate(d)
  <2> PICK d \in {0, 1} : BeginUpdate(d)
    BY <1>3
  <2> DEFINE l == IF ses[s].logout = -1 THEN -1 ELSE UpTo(ses[s].logout + d, LogoutDelay)
             g == IF s \in Abandoned THEN UpTo(ses[s].age + d, Grace + 1) ELSE ses[s].age
  <2>1. ses'[s] = [ses[s] EXCEPT !.logout = l, !.age = g]
    BY DEF BeginUpdate
  <2> HIDE DEF l, g
  <2> QED BY <1>1, <2>1 DEF Session, Patient
<1>4. CASE KickAll
  BY <1>1, <1>2, <1>4 DEF KickAll, Patient
<1>5. CASE StopNow \/ EndAdd \/ EndPackets \/ UNCHANGED vars
  BY <1>5 DEF StopNow, EndAdd, EndPackets, vars, Patient
<1>6. CASE InitializeSessionCallback \/ HandleCharEnum
  <2>1. ses'[s] \in {ses[s], [ses[s] EXCEPT !.init = "none", !.inQueue = FALSE],
                     [ses[s] EXCEPT !.roster = "listed"]}
    BY <1>1, <1>6 DEF InitializeSessionCallback, HandleCharEnum
  <2> QED BY <1>1, <2>1 DEF Session, Patient
<1>7. CASE LoadFromDBFails
  <2> DEFINE k == Kicked(ses[s])
  <2>1. ses'[s] \in {ses[s], [k EXCEPT !.load = "none", !.want = Null, !.player = Null]}
    BY <1>1, <1>7 DEF LoadFromDBFails
  <2>2. k \in Session /\ k.inQueue = ses[s].inQueue /\ k.init = ses[s].init
    BY <1>1, <1>2, SessionTypes
  <2> HIDE DEF k
  <2> QED BY <2>1, <2>2 DEF Session, Patient
<1>8. CASE KeepSession \/ \E a \in Accounts, idle \in BOOLEAN : BeginSessionUpdate(a, idle)
  <2>1. ses'[s] \in {ses[s], LoggedOut(ses[s]), Closed(ses[s])}
    BY <1>1, <1>8 DEF KeepSession, BeginSessionUpdate
  <2> QED BY <1>1, <1>2, <2>1 DEF Patient
<1>9. ASSUME NEW t \in Sessions, NEW c \in Chars, LoginKicked(t, c) PROVE Patient(s)
  <2>1. ses'[s] \in {ses[s], Kicked(ses[s])}
    BY <1>1, <1>9 DEF LoginKicked
  <2> QED BY <1>1, <1>2, <2>1 DEF Patient
<1>10. ASSUME NEW t \in Sessions, InstantLogout(t) \/ KickPlayer(t) PROVE Patient(s)
  <2>1. ses'[s] \in {ses[s], Kicked(ses[s]), LoggedOut(ses[s])}
    BY <1>1, <1>10 DEF InstantLogout, KickPlayer
  <2> QED BY <1>1, <1>2, <2>1 DEF Patient
<1>11. ASSUME NEW t \in Sessions, CharEnum(t) \/ SocketClose(t) \/ MovePlayer(t)
       PROVE  Patient(s)
  <2>1. ses'[s] \in {ses[s], [ses[s] EXCEPT !.roster = "sent"],
                     [ses[s] EXCEPT !.sock = "closed"], [ses[s] EXCEPT !.away = ~ @]}
    BY <1>1, <1>11 DEF CharEnum, SocketClose, MovePlayer
  <2> QED BY <1>1, <2>1 DEF Session, Patient
<1>12. ASSUME NEW t \in Sessions, NEW l \in {-1, 0}, SetLogoutStartTime(t, l)
       PROVE  Patient(s)
  <2>1. ses'[s] \in {ses[s], [ses[s] EXCEPT !.logout = l]}
    BY <1>1, <1>12 DEF SetLogoutStartTime
  <2> QED BY <1>1, <2>1 DEF Session, Patient
<1> QED BY <1>3, <1>4, <1>5, <1>6, <1>7, <1>8, <1>9, <1>10, <1>11, <1>12 DEF QuietStep

\* A step that keeps the maps and the queue.
LEMMA PatientFlag ==
  ASSUME NoStuckInQueue, UNCHANGED <<sessions, queue>>, final' = final,
         \A s \in Live : Patient(s)
  PROVE  NoStuckInQueue'
BY DEF NoStuckInQueue, Patient, Live, Listed, Queued

LEMMA QuietFlag ==
  ASSUME Inv, NoStuckInQueue, QuietStep
  PROVE  NoStuckInQueue'
<1>1. CASE KickAll
  BY <1>1 DEF KickAll, NoStuckInQueue
<1>2. CASE UNCHANGED <<queue, final>>
  <2>1. UNCHANGED sessions
    BY QuietKept, QuietThread
  <2>2. \A s \in Live : s \in Sessions
    BY CoreTypes DEF Live, Listed, Inv
  <2> QED BY <1>2, <2>1, <2>2, QuietPatient, PatientFlag
<1> QED
  BY <1>1, <1>2
     DEF QuietStep, BeginUpdate, StopNow, EndAdd, EndPackets, InitializeSessionCallback,
         HandleCharEnum, LoadFromDBFails, KeepSession, BeginSessionUpdate, LoginKicked,
         CharEnum, InstantLogout, SetLogoutStartTime, SocketClose, KickPlayer, MovePlayer, vars

\* RemoveQueuedPlayer leaves the others in the queue, or lets them in.
LEMMA StillQueued ==
  ASSUME Inv, QueueInv, NEW a \in Listed, NEW r, r = sessions[a]
  PROVE  \A t \in Queued : t = r \/ t \in Promoted(r) \/ t \in ToSet(QueueAfter(r))
<1> DEFINE q == QueueWithout(r)
<1>1. QueueOf(q, Listed \ {a}) /\ \A x : x \in ToSet(q) <=> x # r /\ x \in Queued
  BY Removal
<1>2. Listed \ {a} \in SUBSET Accounts
  BY DEF Listed
<1>3. CASE Admits(r)
  <2>1. q # <<>>
    BY <1>3 DEF Admits
  <2> HIDE DEF q
  <2>2. Head(q) = q[1] /\ \A x : x \in ToSet(q) <=> x = q[1] \/ x \in ToSet(Tail(q))
    BY <1>1, <1>2, <2>1, QueueTail
  <2>3. Promoted(r) = {Head(q)} /\ QueueAfter(r) = Tail(q)
    BY <1>3 DEF Promoted, QueueAfter, q
  <2> QED BY <1>1, <2>2, <2>3
<1>4. CASE ~ Admits(r)
  BY <1>1, <1>4 DEF QueueAfter
<1> QED BY <1>3, <1>4

\* The listed sessions once the one of account a is gone.
LEMMA RemovalFlag ==
  ASSUME Inv, QueueInv, NoStuckInQueue, ~ final, NEW a \in Listed, NEW r, r = sessions[a],
         NEW gone, NEW left, gone \cap Live \subseteq {r}, left \subseteq {r},
         NEW t \in Live, t # r
  PROVE  SesAfter(gone, left, Promoted(r))[t].inQueue
           => t \in ToSet(QueueAfter(r)) \/ SesAfter(gone, left, Promoted(r))[t].init # "none"
<1>1. t \in Sessions /\ ses[t] \in Session /\ t \notin gone /\ t \notin left
  BY CoreTypes DEF Live, Listed, Inv, TypeOK
<1>2. SesAfter(gone, left, Promoted(r))[t] =
        IF t \in Promoted(r) THEN [ses[t] EXCEPT !.init = "sent"] ELSE ses[t]
  BY <1>1 DEF SesAfter
<1>3. ses[t].inQueue => t \in Queued \/ ses[t].init # "none"
  BY DEF NoStuckInQueue
<1>4. CASE t \in Promoted(r)
  BY <1>1, <1>2, <1>4 DEF Session
<1>5. CASE t \notin Promoted(r)
  BY <1>2, <1>3, <1>5, StillQueued
<1> QED BY <1>4, <1>5

LEMMA LeaveFlag ==
  ASSUME Inv, QueueInv, NoStuckInQueue, NEW a \in Listed, NEW r, r = sessions[a],
         sessions' = [sessions EXCEPT ![a] = Null], queue' = QueueAfter(r), final' = final,
         NEW gone, NEW left, gone \cap Live \subseteq {r}, left \subseteq {r},
         ses' = SesAfter(gone, left, Promoted(r))
  PROVE  NoStuckInQueue'
<1> SUFFICES ASSUME ~ final, NEW t \in Live', ses'[t].inQueue
             PROVE  t \in ToSet(queue') \/ ses'[t].init # "none"
  BY DEF NoStuckInQueue, Queued
<1>1. sessions \in [Accounts -> Sessions \cup {Null}] /\ Null \notin Sessions
  BY ConstantsAssumption DEF Inv, TypeOK
<1>2. t \in Live /\ t # r
  BY <1>1, OnePlace DEF Live, Listed
<1> QED BY <1>2, RemovalFlag

\* AddSession_ flags a session as it puts it into the queue.
LEMMA EnlistFlag ==
  ASSUME Inv, NEW a \in Accounts, NEW s \in Sessions, NEW q \in Seq(Sessions),
         NEW base \in [Sessions -> Session], NEW rec, Enlist(s, a, base, q, rec),
         \A t \in Live : t # sessions[a] /\ t # s =>
           (base[t].inQueue => t \in ToSet(q) \/ base[t].init # "none")
  PROVE  \A t \in Live' : ses'[t].inQueue => t \in Queued' \/ ses'[t].init # "none"
<1>1. sessions \in [Accounts -> Sessions \cup {Null}] /\ Null \notin Sessions
  BY ConstantsAssumption DEF Inv, TypeOK
<1> DEFINE waits == MustQueue(a, Cardinality(Listed \ {a}), rec)
<1>2. /\ sessions' = [sessions EXCEPT ![a] = s]
      /\ queue' = IF waits THEN Append(q, s) ELSE q
      /\ ses' = IF waits THEN [base EXCEPT ![s].inQueue = TRUE]
                         ELSE [base EXCEPT ![s].init = "sent"]
  BY DEF Enlist
<1> HIDE DEF waits
<1>3. \A x : x \in ToSet(queue') <=> x \in ToSet(q) \/ (waits /\ x = s)
  <2>1. CASE ~ waits
    BY <1>2, <2>1
  <2>2. CASE waits
    <3>1. queue' \in Seq(Sessions) /\ Len(queue') = Len(q) + 1 /\ Len(q) \in Nat
          /\ (\A i \in 1..Len(q) : queue'[i] = q[i]) /\ queue'[Len(q) + 1] = s
      BY <1>2, <2>2, AppendProperties, LenProperties
    <3>2. \A x : x \in ToSet(queue') <=> \E i \in 1..(Len(q) + 1) : queue'[i] = x
      BY <3>1, InToSet
    <3>3. \A x : x \in ToSet(q) <=> \E i \in 1..Len(q) : q[i] = x
      BY InToSet
    <3>4. /\ \A i \in 1..(Len(q) + 1) : i = Len(q) + 1 \/ i \in 1..Len(q)
          /\ \A i \in 1..Len(q) : i \in 1..(Len(q) + 1)
          /\ Len(q) + 1 \in 1..(Len(q) + 1)
      BY <3>1
    <3> QED BY <2>2, <3>1, <3>2, <3>3, <3>4
  <2> QED BY <2>1, <2>2
<1>4. ASSUME NEW t \in Live', ses'[t].inQueue PROVE t \in ToSet(queue') \/ ses'[t].init # "none"
  <2>1. CASE t = s
    <3>1. CASE waits
      BY <1>3, <2>1, <3>1
    <3>2. CASE ~ waits
      <4>1. ses'[s] = [base[s] EXCEPT !.init = "sent"] /\ base[s] \in Session
        BY <1>2, <3>2
      <4> QED BY <2>1, <4>1 DEF Session
    <3> QED BY <3>1, <3>2
  <2>2. CASE t # s
    <3>1. t \in Live /\ t # sessions[a]
      BY <1>1, <1>2, <2>2, OnePlace DEF Live, Listed
    <3>2. t \in Sessions
      BY <1>1, <3>1 DEF Live, Listed
    <3>3. ses'[t] = base[t]
      BY <1>2, <2>2, <3>2
    <3> QED BY <1>3, <1>4, <2>2, <3>1, <3>3
  <2> QED BY <2>1, <2>2
<1> QED BY <1>4 DEF Queued

LEMMA AddFlag ==
  ASSUME Inv, QueueInv, NoStuckInQueue, AddSession \/ ReplaceSession
  PROVE  NoStuckInQueue'
<1> SUFFICES ASSUME ~ final PROVE NoStuckInQueue'
  BY DEF AddSession, ReplaceSession, NoStuckInQueue
<1>1. /\ TypeOK /\ ses \in [Sessions -> Session] /\ queue \in Seq(Sessions)
      /\ Null \notin Sessions
  BY ConstantsAssumption DEF Inv, TypeOK
<1>2. PICK s \in Sessions, a \in Accounts : s = Head(addQueue) /\ a = ses[s].acct
  <2>1. addQueue # <<>> /\ NewOwned
    BY DEF AddSession, ReplaceSession, Inv
  <2> QED BY <1>1, <2>1, AddQueueTail, CoreTypes DEF NewOwned
<1> SUFFICES \A t \in Live' : ses'[t].inQueue => t \in Queued' \/ ses'[t].init # "none"
  BY DEF NoStuckInQueue
<1>3. CASE AddSession
  <2>1. Enlist(s, a, ses, queue, recent)
    BY <1>2, <1>3 DEF AddSession
  <2>2. \A t \in Live : ses[t].inQueue => t \in ToSet(queue) \/ ses[t].init # "none"
    BY DEF NoStuckInQueue, Queued
  <2> PICK rec : rec = recent
    OBVIOUS
  <2>3. PICK base \in [Sessions -> Session], q \in Seq(Sessions) :
          base = ses /\ rec = recent /\ q = queue
    BY <1>1
  <2>4. Enlist(s, a, base, q, rec)
    BY <2>1, <2>3 DEF Enlist
  <2>5. \A t \in Live : base[t].inQueue => t \in ToSet(q) \/ base[t].init # "none"
    BY <2>2, <2>3
  <2> QED BY <2>4, <2>5, EnlistFlag
<1>4. CASE ReplaceSession
  <2>1. PICK old \in Sessions : old = sessions[a]
    BY <1>1, <1>2, <1>4 DEF ReplaceSession, TypeOK
  <2>2. a \in Listed
    BY <1>1, <2>1 DEF Listed
  <2>3. PICK gone, left :
          /\ gone \cap Live \subseteq {old} /\ left \subseteq {old}
          /\ Enlist(s, a, SesAfter(gone, left, Promoted(old)), QueueAfter(old), RecentAfter(old, a))
    <3>1. offline[a] \notin Live
      BY OnePlace DEF Live, Listed
    <3>2. \/ Enlist(s, a, SesAfter({offline[a]}, {old}, Promoted(old)), QueueAfter(old),
                    RecentAfter(old, a))
          \/ Enlist(s, a, SesAfter({old}, {}, Promoted(old)), QueueAfter(old), RecentAfter(old, a))
      BY <1>2, <1>4, <2>1 DEF ReplaceSession
    <3> QED BY <3>1, <3>2
  <2> PICK rec : rec = RecentAfter(old, a)
    OBVIOUS
  <2>4. PICK base \in [Sessions -> Session], q \in Seq(Sessions) :
          /\ base = SesAfter(gone, left, Promoted(old))
          /\ rec = RecentAfter(old, a) /\ q = QueueAfter(old)
    <3>1. SesAfter(gone, left, Promoted(old)) \in [Sessions -> Session]
      BY <1>1, SesAfterType
    <3>2. QueueAfter(old) \in Seq(Sessions)
      BY <1>1, QueueAfterType
    <3> QED BY <3>1, <3>2
  <2>5. Enlist(s, a, base, q, rec)
    BY <2>3, <2>4 DEF Enlist
  <2>6. ASSUME NEW t \in Live, t # old
        PROVE  base[t].inQueue => t \in ToSet(q) \/ base[t].init # "none"
    BY <2>1, <2>2, <2>3, <2>4, <2>6, RemovalFlag
  <2> QED BY <2>1, <2>5, <2>6, EnlistFlag
<1> QED BY <1>3, <1>4

LEMMA RemovedFlag ==
  ASSUME Inv, QueueInv, NoStuckInQueue, DeleteSession \/ \E a \in Accounts : AbandonSession(a)
  PROVE  NoStuckInQueue'
<1>1. CASE DeleteSession
  <2>1. /\ cur \in Sessions /\ Null \notin Sessions
        /\ ses[cur].acct \in Accounts /\ sessions[ses[cur].acct] = cur
    BY <1>1, ConstantsAssumption DEF DeleteSession, Inv, ThreadOwned
  <2>2. PICK a \in Accounts, r \in Sessions : a = ses[cur].acct /\ r = cur
    BY <2>1
  <2>3. a \in Listed /\ r = sessions[a]
    BY <2>1, <2>2 DEF Listed
  <2>4. PICK gone, left : gone = {r} /\ left = {}
    OBVIOUS
  <2>5. /\ sessions' = [sessions EXCEPT ![a] = Null]
        /\ queue' = QueueAfter(r) /\ final' = final
        /\ ses' = SesAfter(gone, left, Promoted(r))
        /\ gone \cap Live \subseteq {r} /\ left \subseteq {r}
    BY <1>1, <2>2, <2>4 DEF DeleteSession
  <2> QED BY <2>3, <2>5, LeaveFlag
<1>2. ASSUME NEW a \in Accounts, AbandonSession(a) PROVE NoStuckInQueue'
  <2>1. a \in Listed
    BY <1>2 DEF AbandonSession, Inv, ThreadOwned, Listed
  <2>2. PICK r, o : r = sessions[a] /\ o = offline[a]
    OBVIOUS
  <2>3. /\ sessions' = [sessions EXCEPT ![a] = Null]
        /\ queue' = QueueAfter(r) /\ final' = final
        /\ ses' = SesAfter({o}, {r}, Promoted(r))
    BY <1>2, <2>2 DEF AbandonSession
  <2>4. {o} \cap Live \subseteq {r} /\ {r} \subseteq {r}
    BY <2>2, OnePlace DEF Live, Listed
  <2> QED BY <2>1, <2>2, <2>3, <2>4, LeaveFlag
<1> QED BY <1>1, <1>2

LEMMA OtherFlag ==
  ASSUME Inv, NoStuckInQueue, OtherStep
  PROVE  NoStuckInQueue'
<1>1. UNCHANGED <<sessions, queue, final>>
  BY DEF OtherStep, RejectSession, EndUpdate, LoginFromDB, LoginRequested, Reclaim, NewSession
<1>2. \A t \in Live : Patient(t)
  BY OtherKept DEF Live
<1> QED BY <1>1, <1>2, PatientFlag

\* A session that was let in, or that AddSession_ never put into the queue, is not
\* left with m_inQueue set, which would block every packet that needs STATUS_AUTHED:
\* each way out of _queuedPlayer starts InitializeSession, whose callback resets it.
THEOREM NoneStuckInQueue == Spec => []NoStuckInQueue
<1>1. Init => Inv /\ QueueInv /\ NoStuckInQueue
  <2>1. Init => NoStuckInQueue
    BY DEF Init, NoStuckInQueue, Live, Listed
  <2> QED BY <2>1, InitInv, InitAdmits
<1>2. Inv /\ QueueInv /\ NoStuckInQueue /\ [Next]_vars => (Inv /\ QueueInv /\ NoStuckInQueue)'
  <2>1. Inv /\ QueueInv /\ NoStuckInQueue /\ [Next]_vars => NoStuckInQueue'
    BY NextCases, QuietFlag, OtherFlag, AddFlag, RemovedFlag
  <2> QED BY <2>1, NextInv, NextAdmits
<1> QED BY <1>1, <1>2, PTL DEF Spec

===============================================================================
