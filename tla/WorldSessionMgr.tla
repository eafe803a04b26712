--------------------------- MODULE WorldSessionMgr ---------------------------
(***************************************************************************)
(* The life of client sessions in the world server: WorldSessionMgr (the   *)
(* session maps, the login queue, the 60 second stay of a character whose  *)
(* client is gone) and the part of WorldSession and CharacterHandler that  *)
(* decides when a character enters and leaves the world.                   *)
(*                                                                         *)
(* Three parties share this state.  The world thread runs UpdateSessions,  *)
(* split here wherever it reads something another party writes: pc says    *)
(* where it stands.  A network thread creates sessions (they wait in       *)
(* addQueue) and may find a socket closed at any moment.  A database       *)
(* worker answers the asynchronous queries of a session.                   *)
(***************************************************************************)
EXTENDS Integers, FiniteSets, SequencesExt

CONSTANTS
  Accounts,    \* accounts of the realm
  Chars,       \* characters
  Owner,       \* Owner[c] is the account of character c
  Sessions,    \* WorldSession objects; an identity is free again after delete
  Null,        \* no session, no character, no account
  Limit,       \* PlayerLimit, 0 for none; read once at start-up
  Privileged,  \* accounts that skip the queue (RBAC_PERM_SKIP_QUEUE, CanSkipQueue)
  NeverIdle,   \* accounts with RBAC_PERM_IGNORE_IDLE_CONNECTION
  Tolerance,   \* DisconnectToleranceInterval, in units of model time
  LogoutDelay, \* the 20 seconds of a logout request, in units of model time
  Grace        \* the 60 seconds an abandoned character stays, in the same units

ASSUME ConstantsAssumption ==
  /\ Owner \in [Chars -> Accounts]
  /\ Null \notin Accounts \cup Chars \cup Sessions
  /\ Privileged \subseteq Accounts /\ NeverIdle \subseteq Accounts
  /\ Limit \in Nat /\ Tolerance \in Nat /\ LogoutDelay \in Nat /\ Grace \in Nat
  /\ IsFiniteSet(Accounts)

VARIABLES
  ses,       \* the session objects
  addQueue,  \* _addSessQueue
  sessions,  \* _sessions, by account
  offline,   \* _offlineSessions, by account
  queue,     \* _queuedPlayer
  recent,    \* _disconnects: age of the account's last disconnection
  pc,        \* where the world thread is in UpdateSessions
  todo,      \* accounts the loop over _sessions has still to visit
  cur,       \* the session being updated
  stopped,   \* World::IsStopped()
  final      \* the UpdateSessions call of the shutdown handler

net == <<addQueue>>
thread == <<pc, todo, cur>>
vars == <<ses, addQueue, sessions, offline, queue, recent, pc, todo, cur,
          stopped, final>>

(***************************************************************************)
(* Session objects.  sock is m_Socket: "open", "closed" (set but no longer *)
(* open) or "null".  away says that the character held by player is in     *)
(* flight or between two maps.  init, roster and load are the asynchronous *)
(* queries of the session (InitializeSession, the character list, the      *)
(* login of character want): "sent" until their callback runs; roster is   *)
(* "listed" once _legitCharacters holds the characters of the account.     *)
(* logout is the age of the logout request, -1 without one; age counts     *)
(* from SetOfflineTime.                                                    *)
(***************************************************************************)
Query == {"none", "sent"}

Session == [acct : Accounts \cup {Null}, sock : {"open", "closed", "null"},
            player : Chars \cup {Null}, away : BOOLEAN,
            init : Query, roster : Query \cup {"listed"},
            load : Query, want : Chars \cup {Null},
            inQueue : BOOLEAN, kicked : BOOLEAN,
            logout : -1..LogoutDelay, age : 0..(Grace + 1)]

NoSession == [acct |-> Null, sock |-> "null", player |-> Null, away |-> FALSE,
              init |-> "none", roster |-> "none", load |-> "none", want |-> Null,
              inQueue |-> FALSE, kicked |-> FALSE, logout |-> -1, age |-> 0]

Fresh(a) == [NoSession EXCEPT !.acct = a, !.sock = "open"]

Allocated == {s \in Sessions : ses[s].acct # Null}
Listed == {a \in Accounts : sessions[a] # Null}
Live == {sessions[a] : a \in Listed}
Abandoned == {offline[a] : a \in {b \in Accounts : offline[b] # Null}}
Queued == ToSet(queue)

\* m_Socket->CloseSocket() when there is a socket.
Closed(r) == [r EXCEPT !.sock = IF @ = "null" THEN "null" ELSE "closed"]

\* Mutant: a session without a socket is not kicked.
KickedWithSocketOnly(r) ==
  IF r.sock = "null" THEN r ELSE [Closed(r) EXCEPT !.kicked = TRUE]

\* KickPlayer with its default argument.
Kicked(r) == [Closed(r) EXCEPT !.kicked = TRUE]

\* LogoutPlayer on a session that goes on.
LoggedOut(r) == [r EXCEPT !.player = Null, !.away = FALSE, !.logout = -1]

\* The condition of HandleSocketClosed, on the session as it is now.
StaysInWorld(r) == /\ r.sock = "closed"
                   /\ ~r.kicked
                   /\ r.player # Null /\ ~r.away
                   /\ ~stopped

\* What a session becomes when it is moved to _offlineSessions.
Abandon(r) == [r EXCEPT !.sock = "null", !.age = 0]

(***************************************************************************)
(* RemoveQueuedPlayer(s): the queue without s, and the waiting session it  *)
(* lets in.  The active count is taken before the removal.                 *)
(***************************************************************************)
ActiveCount == Cardinality(Listed) - Len(queue)

FreeSlotWithout(s) ==
  Limit = 0 \/ (IF s \in Queued THEN ActiveCount ELSE ActiveCount - 1) < Limit

QueueWithout(s) == RemoveFirst(queue, s)

Admits(s) == FreeSlotWithout(s) /\ QueueWithout(s) # <<>>

QueueAfter(s) == IF Admits(s) THEN Tail(QueueWithout(s)) ELSE QueueWithout(s)

Promoted(s) == IF Admits(s) THEN {Head(QueueWithout(s))} ELSE {}

\* _disconnects[a] is set when the removed session was an active one.
RecentAfter(s, a) == IF s \in Queued \/ Tolerance = 0 THEN recent
                     ELSE [recent EXCEPT ![a] = 0]

\* The player limit applies to an account joining with `others' listed.
MustQueue(a, others, rec) ==
  /\ Limit > 0
  /\ others >= Limit
  /\ a \notin Privileged
  /\ rec[a] >= Tolerance

\* Mutant: the session taken off a map is not deleted.
SesAfterLeak(gone, left, promoted) ==
  [t \in Sessions |-> IF t \in left THEN Abandon(ses[t])
                      ELSE IF t \in promoted THEN [ses[t] EXCEPT !.init = "sent"]
                      ELSE ses[t]]

\* The sessions after s left: deleted or abandoned ones, and InitializeSession
\* of the one that was let in.
SesAfter(gone, left, promoted) ==
  [t \in Sessions |-> IF t \in gone THEN NoSession
                      ELSE IF t \in left THEN Abandon(ses[t])
                      ELSE IF t \in promoted THEN [ses[t] EXCEPT !.init = "sent"]
                      ELSE ses[t]]

Init ==
  /\ ses = [s \in Sessions |-> NoSession]
  /\ addQueue = <<>>
  /\ sessions = [a \in Accounts |-> Null]
  /\ offline = [a \in Accounts |-> Null]
  /\ queue = <<>>
  /\ recent = [a \in Accounts |-> Tolerance]
  /\ pc = "idle" /\ todo = {} /\ cur = Null
  /\ stopped = FALSE /\ final = FALSE

-----------------------------------------------------------------------------
(* The network threads. *)

\* An authenticated socket creates its session and hands it to the world thread.
NewSession(s, a) ==
  /\ pc # "halted"
  /\ ses[s].acct = Null
  /\ ses' = [ses EXCEPT ![s] = Fresh(a)]
  /\ addQueue' = Append(addQueue, s)
  /\ UNCHANGED <<sessions, offline, queue, recent, thread, stopped, final>>

\* The peer disconnects or the network layer closes the socket.
SocketClose(s) ==
  /\ ses[s].sock = "open"
  /\ ses' = [ses EXCEPT ![s].sock = "closed"]
  /\ UNCHANGED <<net, sessions, offline, queue, recent, thread, stopped, final>>

-----------------------------------------------------------------------------
(* The world thread outside UpdateSessions. *)

UpTo(x, bound) == IF x < bound THEN x ELSE bound

\* The next World::Update, d units of game time after the last one.
BeginUpdate(d) ==
  /\ pc = "idle" /\ ~stopped
  /\ pc' = "add"
  /\ recent' = [a \in Accounts |-> UpTo(recent[a] + d, Tolerance)]
  /\ ses' = [s \in Sessions |->
       [ses[s] EXCEPT !.logout = IF @ = -1 THEN -1 ELSE UpTo(@ + d, LogoutDelay),
                      !.age = IF s \in Abandoned THEN UpTo(@ + d, Grace + 1) ELSE @]]
  /\ UNCHANGED <<net, sessions, offline, queue, todo, cur, stopped, final>>

\* World::StopNow, from any thread.
StopNow ==
  /\ ~stopped
  /\ stopped' = TRUE
  /\ UNCHANGED <<ses, net, sessions, offline, queue, recent, thread, final>>

\* The loop has ended: KickAll, then one last UpdateSessions.
KickAll ==
  /\ pc = "idle" /\ stopped
  /\ pc' = "add" /\ final' = TRUE
  /\ queue' = <<>>
  /\ ses' = [s \in Sessions |-> IF s \in Live \cup Abandoned THEN Kicked(ses[s])
                                ELSE ses[s]]
  /\ UNCHANGED <<net, sessions, offline, recent, todo, cur, stopped>>

\* A kick decided by a command, a handler or a script.
KickPlayer(s) ==
  /\ pc \in {"idle", "packets"}
  /\ s \in Live \cup Abandoned
  /\ ses' = [ses EXCEPT ![s] = Kicked(@)]
  /\ UNCHANGED <<net, sessions, offline, queue, recent, thread, stopped, final>>

\* Map updates and packets start and end flights and transfers.
MovePlayer(s) ==
  /\ pc = "idle"
  /\ ses[s].player # Null
  /\ ses' = [ses EXCEPT ![s].away = ~@]
  /\ UNCHANGED <<net, sessions, offline, queue, recent, thread, stopped, final>>

-----------------------------------------------------------------------------
(* UpdateSessions, first part: AddSession_ for every new session. *)

\* The account's character is being loaded: the new session is refused.
RejectSession ==
  /\ pc = "add" /\ addQueue # <<>>
  /\ LET s == Head(addQueue)
         old == sessions[ses[s].acct]
     IN /\ old # Null /\ ses[old].load # "none"
        /\ ses' = [ses EXCEPT ![s] = NoSession]
  /\ addQueue' = Tail(addQueue)
  /\ UNCHANGED <<sessions, offline, queue, recent, thread, stopped, final>>

\* Mutant: a session that must wait goes to the front of the queue.
EnlistAtFront(s, a, base, q, rec) ==
  LET waits == MustQueue(a, Cardinality(Listed \ {a}), rec)
  IN /\ sessions' = [sessions EXCEPT ![a] = s]
     /\ recent' = rec
     /\ queue' = IF waits THEN <<s>> \o q ELSE q
     /\ ses' = IF waits THEN [base EXCEPT ![s].inQueue = TRUE]
                        ELSE [base EXCEPT ![s].init = "sent"]

\* Enter session s of account a in the maps: `base' are the session objects, `q'
\* the queue and `rec' the disconnections once the old session is dealt with.
Enlist(s, a, base, q, rec) ==
  LET waits == MustQueue(a, Cardinality(Listed \ {a}), rec)
  IN /\ sessions' = [sessions EXCEPT ![a] = s]
     /\ recent' = rec
     /\ queue' = IF waits THEN Append(q, s) ELSE q
     /\ ses' = IF waits THEN [base EXCEPT ![s].inQueue = TRUE]
                        ELSE [base EXCEPT ![s].init = "sent"]

\* The account has no session.
AddSession ==
  /\ pc = "add" /\ addQueue # <<>>
  /\ LET s == Head(addQueue)
         a == ses[s].acct
     IN /\ sessions[a] = Null
        /\ Enlist(s, a, ses, queue, recent)
  /\ addQueue' = Tail(addQueue)
  /\ UNCHANGED <<offline, thread, stopped, final>>

\* The account's old session is closed; it stays as an offline session if its
\* character stays in the world, and is deleted otherwise.
ReplaceSession ==
  /\ pc = "add" /\ addQueue # <<>>
  /\ LET s == Head(addQueue)
         a == ses[s].acct
         old == sessions[a]
         stays == StaysInWorld(Closed(ses[old]))
     IN /\ old # Null /\ ses[old].load = "none"
        /\ offline' = IF stays THEN [offline EXCEPT ![a] = old] ELSE offline
        /\ Enlist(s, a,
                  IF stays THEN SesAfter({offline[a]}, {old}, Promoted(old))
                           ELSE SesAfter({old}, {}, Promoted(old)),
                  QueueAfter(old), RecentAfter(old, a))
  /\ addQueue' = Tail(addQueue)
  /\ UNCHANGED <<thread, stopped, final>>

EndAdd ==
  /\ pc = "add" /\ addQueue = <<>>
  /\ pc' = "check" /\ todo' = Listed
  /\ UNCHANGED <<ses, net, sessions, offline, queue, recent, cur, stopped, final>>

-----------------------------------------------------------------------------
(* UpdateSessions, second part: the loop over _sessions. *)

\* HandleSocketClosed: the client is gone, the character stays.
AbandonSession(a) ==
  /\ pc = "check" /\ a \in todo
  /\ LET s == sessions[a]
     IN /\ StaysInWorld(ses[s])
        /\ offline' = [offline EXCEPT ![a] = s]
        /\ ses' = SesAfter({offline[a]}, {s}, Promoted(s))
        /\ queue' = QueueAfter(s)
        /\ recent' = RecentAfter(s, a)
  /\ sessions' = [sessions EXCEPT ![a] = Null]
  /\ todo' = todo \ {a}
  /\ UNCHANGED <<net, pc, cur, stopped, final>>

\* Otherwise the session is updated, after an idle connection is closed.
BeginSessionUpdate(a, idle) ==
  /\ pc = "check" /\ a \in todo
  /\ LET s == sessions[a]
     IN /\ ~StaysInWorld(ses[s])
        /\ idle => a \notin NeverIdle /\ ~ses[s].inQueue
        /\ ses' = IF idle THEN [ses EXCEPT ![s] = Closed(@)] ELSE ses
        /\ cur' = s
  /\ pc' = "packets"
  /\ todo' = todo \ {a}
  /\ UNCHANGED <<net, sessions, offline, queue, recent, stopped, final>>

\* Packets are handled while there is a socket, open or not.
Receives(s) == pc = "packets" /\ cur = s /\ ses[s].sock # "null"

\* CMSG_CHAR_ENUM asks for the characters of the account.
CharEnum(s) ==
  /\ Receives(s) /\ ~ses[s].inQueue
  /\ ses[s].roster = "none"
  /\ ses' = [ses EXCEPT ![s].roster = "sent"]
  /\ UNCHANGED <<net, sessions, offline, queue, recent, thread, stopped, final>>

\* IsLegitCharacterForAccount
Legit(s, c) == ses[s].roster = "listed" /\ Owner[c] = ses[s].acct

\* CMSG_PLAYER_LOGIN of a session that loads or holds a character already, or
\* for a character that is not on its list.
LoginKicked(s, c) ==
  /\ Receives(s) /\ ~ses[s].inQueue
  /\ \/ ses[s].load # "none"
     \/ ses[s].player # Null
     \/ ~Legit(s, c)
  /\ ses' = [ses EXCEPT ![s] = Kicked(@)]
  /\ UNCHANGED <<net, sessions, offline, queue, recent, thread, stopped, final>>

MayLogIn(s, c) == /\ Receives(s) /\ ~ses[s].inQueue
                  /\ ses[s].load = "none" /\ ses[s].player = Null
                  /\ Legit(s, c)

\* Mutant: the offline session keeps the pointer to the reclaimed character.
ReclaimShared(s, c) ==
  /\ MayLogIn(s, c)
  /\ LET o == offline[ses[s].acct]
     IN /\ o # Null /\ ses[o].player = c /\ ~ses[o].kicked
        /\ ses' = [ses EXCEPT ![s].player = c]
  /\ UNCHANGED <<net, sessions, offline, queue, recent, thread, stopped, final>>

\* CMSG_PLAYER_LOGIN for the character the account left in the world.
Reclaim(s, c) ==
  /\ MayLogIn(s, c)
  /\ LET o == offline[ses[s].acct]
     IN /\ o # Null /\ ses[o].player = c /\ ~ses[o].kicked
        /\ \E away \in {FALSE, ses[o].away} :
             ses' = [ses EXCEPT ![s] = [@ EXCEPT !.player = c, !.away = away],
                                ![o] = [@ EXCEPT !.player = Null, !.away = FALSE]]
  /\ UNCHANGED <<net, sessions, offline, queue, recent, thread, stopped, final>>

\* Mutant: the other character is left in the world.
LoginRequestedNoKick(s, c) ==
  /\ MayLogIn(s, c)
  /\ LET o == offline[ses[s].acct]
     IN o # Null => ses[o].player \notin {Null, c} /\ ~ses[o].kicked
  /\ ses' = [ses EXCEPT ![s] = [@ EXCEPT !.load = "sent", !.want = c]]
  /\ UNCHANGED <<net, sessions, offline, queue, recent, thread, stopped, final>>

\* CMSG_PLAYER_LOGIN for a character to be loaded; another character left in
\* the world by this account is kicked.
LoginRequested(s, c) ==
  /\ MayLogIn(s, c)
  /\ LET o == offline[ses[s].acct]
     IN /\ o # Null => ses[o].player \notin {Null, c} /\ ~ses[o].kicked
        /\ ses' = [t \in Sessions |->
             IF t = s THEN [ses[s] EXCEPT !.load = "sent", !.want = c]
             ELSE IF t = o THEN Kicked(ses[o]) ELSE ses[t]]
  /\ UNCHANGED <<net, sessions, offline, queue, recent, thread, stopped, final>>

\* CMSG_LOGOUT_REQUEST, granted at once, and CMSG_LOGOUT_REQUEST or
\* CMSG_LOGOUT_CANCEL, which start the delay or call it off.
InstantLogout(s) ==
  /\ Receives(s)
  /\ ses[s].player # Null
  /\ ses' = [ses EXCEPT ![s] = LoggedOut(@)]
  /\ UNCHANGED <<net, sessions, offline, queue, recent, thread, stopped, final>>

SetLogoutStartTime(s, t) ==
  /\ Receives(s)
  /\ ses[s].player # Null /\ (t = 0 => ~ses[s].away)
  /\ ses' = [ses EXCEPT ![s].logout = t]
  /\ UNCHANGED <<net, sessions, offline, queue, recent, thread, stopped, final>>

EndPackets ==
  /\ pc = "packets"
  /\ pc' = "callbacks"
  /\ UNCHANGED <<ses, net, sessions, offline, queue, recent, todo, cur, stopped, final>>

\* Mutant: the flag of a session let in from the queue is not reset.
CallbackKeepsInQueue ==
  /\ pc = "callbacks" /\ ses[cur].init = "sent"
  /\ ses' = [ses EXCEPT ![cur].init = "none"]
  /\ UNCHANGED <<net, sessions, offline, queue, recent, thread, stopped, final>>

\* ProcessQueryCallbacks runs the callbacks whose result has arrived: any of
\* InitializeSessionCallback, HandleCharEnum and HandlePlayerLoginFromDB.
InitializeSessionCallback ==
  /\ pc = "callbacks" /\ ses[cur].init = "sent"
  /\ ses' = [ses EXCEPT ![cur] = [@ EXCEPT !.init = "none", !.inQueue = FALSE]]
  /\ UNCHANGED <<net, sessions, offline, queue, recent, thread, stopped, final>>

HandleCharEnum ==
  /\ pc = "callbacks" /\ ses[cur].roster = "sent"
  /\ ses' = [ses EXCEPT ![cur].roster = "listed"]
  /\ UNCHANGED <<net, sessions, offline, queue, recent, thread, stopped, final>>

\* Mutant: m_playerLoading is not reset.
LoginFromDBStillLoading(away) ==
  /\ pc = "callbacks" /\ ses[cur].load = "sent"
  /\ ses' = [ses EXCEPT ![cur] = [@ EXCEPT !.player = ses[cur].want, !.away = away]]
  /\ UNCHANGED <<net, sessions, offline, queue, recent, thread, stopped, final>>

LoginFromDB(away) ==
  /\ pc = "callbacks" /\ ses[cur].load = "sent"
  /\ ses' = [ses EXCEPT ![cur] = [@ EXCEPT !.load = "none", !.want = Null,
                                          !.player = ses[cur].want, !.away = away]]
  /\ UNCHANGED <<net, sessions, offline, queue, recent, thread, stopped, final>>

LoadFromDBFails ==
  /\ pc = "callbacks" /\ ses[cur].load = "sent"
  /\ ses' = [ses EXCEPT ![cur] = [Kicked(@) EXCEPT !.load = "none", !.want = Null,
                                                   !.player = Null]]
  /\ UNCHANGED <<net, sessions, offline, queue, recent, thread, stopped, final>>

\* Mutant: Update returns true whatever the socket.
KeepAnySession ==
  /\ pc = "callbacks"
  /\ pc' = "check" /\ cur' = Null
  /\ UNCHANGED <<ses, net, sessions, offline, queue, recent, todo, stopped, final>>

\* The end of Update: a due logout, then the test of the socket.
KeepSession ==
  /\ pc = "callbacks"
  /\ ses[cur].sock = "open"
  /\ ses' = IF ses[cur].logout = LogoutDelay /\ ses[cur].load = "none"
            THEN [ses EXCEPT ![cur] = LoggedOut(@)] ELSE ses
  /\ pc' = "check" /\ cur' = Null
  /\ UNCHANGED <<net, sessions, offline, queue, recent, todo, stopped, final>>

DeleteSession ==
  /\ pc = "callbacks"
  /\ ses[cur].sock # "open"
  /\ LET a == ses[cur].acct
     IN /\ sessions' = [sessions EXCEPT ![a] = Null]
        /\ recent' = RecentAfter(cur, a)
  /\ queue' = QueueAfter(cur)
  /\ ses' = SesAfter({cur}, {}, Promoted(cur))
  /\ pc' = "check" /\ cur' = Null
  /\ UNCHANGED <<net, offline, todo, stopped, final>>

\* Mutant: the minute ends a moment early.
ExpiredEarly(o) == ses[o].player = Null \/ ses[o].age >= Grace \/ ses[o].kicked

\* Mutant: only kicked and reclaimed sessions go.
ExpiredNever(o) == ses[o].player = Null \/ ses[o].kicked

\* Last part: the offline sessions whose time is over.
Expired(o) == ses[o].player = Null \/ ses[o].age > Grace \/ ses[o].kicked

EndUpdate ==
  /\ pc = "check" /\ todo = {}
  /\ offline' = [a \in Accounts |->
       IF offline[a] # Null /\ Expired(offline[a]) THEN Null ELSE offline[a]]
  /\ ses' = SesAfter({o \in Abandoned : Expired(o)}, {}, {})
  /\ pc' = IF final THEN "halted" ELSE "idle"
  /\ UNCHANGED <<net, sessions, queue, recent, todo, cur, stopped, final>>

\* StopNetwork and the end of the process.
Halted == pc = "halted" /\ UNCHANGED vars

-----------------------------------------------------------------------------
AddStep == RejectSession \/ AddSession \/ ReplaceSession

LoopStep ==
  \/ \E a \in Accounts :
       AbandonSession(a) \/ \E idle \in BOOLEAN : BeginSessionUpdate(a, idle)
  \/ EndPackets
  \/ InitializeSessionCallback \/ HandleCharEnum
  \/ \E away \in BOOLEAN : LoginFromDB(away)
  \/ LoadFromDBFails
  \/ KeepSession \/ DeleteSession \/ EndUpdate

Packet ==
  \E s \in Sessions :
     \/ \E c \in Chars : LoginKicked(s, c) \/ Reclaim(s, c) \/ LoginRequested(s, c)
     \/ CharEnum(s) \/ InstantLogout(s)
     \/ \E t \in {-1, 0} : SetLogoutStartTime(s, t)

Other ==
  \E s \in Sessions :
     \/ \E a \in Accounts : NewSession(s, a)
     \/ SocketClose(s) \/ KickPlayer(s) \/ MovePlayer(s)

Next == \/ \E d \in {0, 1} : BeginUpdate(d)
        \/ StopNow \/ KickAll
        \/ AddStep \/ EndAdd \/ LoopStep
        \/ Packet \/ Other
        \/ Halted

Spec == Init /\ [][Next]_vars

(***************************************************************************)
(* Fairness.  The world loop runs while the process does and every step of *)
(* UpdateSessions ends (at most 150 packets per session); game time moves  *)
(* on between updates; new connections come slower than AddSession_ takes  *)
(* them; the database answers every query in the end, and an answer stays  *)
(* available until ProcessReadyCallbacks looks again.                      *)
(***************************************************************************)
QueryCallbacks == \/ InitializeSessionCallback \/ HandleCharEnum
                  \/ \E away \in BOOLEAN : LoginFromDB(away)
                  \/ LoadFromDBFails

Fairness ==
  /\ WF_vars(AddStep) /\ SF_vars(EndAdd)
  /\ WF_vars(LoopStep)
  /\ SF_vars(BeginUpdate(1)) /\ WF_vars(KickAll)
  /\ \A s \in Sessions : SF_vars(cur = s /\ QueryCallbacks)

FairSpec == Spec /\ Fairness
-----------------------------------------------------------------------------
(* Properties. *)

\* Shape of the state of WorldSessionMgr, of its sessions and of the thread.
TypeOK ==
  /\ ses \in [Sessions -> Session]
  /\ addQueue \in Seq(Sessions)
  /\ sessions \in [Accounts -> Sessions \cup {Null}]
  /\ offline \in [Accounts -> Sessions \cup {Null}]
  /\ queue \in Seq(Sessions)
  /\ recent \in [Accounts -> 0..Tolerance]
  /\ pc \in {"idle", "add", "check", "packets", "callbacks", "halted"}
  /\ todo \in SUBSET Accounts
  /\ cur \in Sessions \cup {Null}
  /\ stopped \in BOOLEAN /\ final \in BOOLEAN

\* The places a session object can be owned by.
Holders(s) ==
  {<<"new", i>> : i \in {j \in DOMAIN addQueue : addQueue[j] = s}}
    \cup {<<"live", a>> : a \in {b \in Accounts : sessions[b] = s}}
    \cup {<<"offline", a>> : a \in {b \in Accounts : offline[b] = s}}

\* Every WorldSession has exactly one owner, of its own account, and no owner
\* keeps a deleted one: the raw pointers in _addSessQueue, _sessions and
\* _offlineSessions neither leak a session nor dangle.
OwnedOnce ==
  /\ \A s \in Sessions :
       IF s \in Allocated THEN \E h \in Holders(s) : Holders(s) = {h}
       ELSE Holders(s) = {}
  /\ \A a \in Accounts :
       /\ sessions[a] # Null => ses[sessions[a]].acct = a
       /\ offline[a] # Null => ses[offline[a]].acct = a

\* A character is held by at most one session, and no session loads a character
\* that another one holds: there are never two Player objects of one character.
OneHolder ==
  \A s, t \in Sessions :
    s # t /\ ses[s].player # Null => ses[s].player \notin {ses[t].player, ses[t].want}

\* WorldSession::LogoutPlayer marks every character of the account offline
\* because "each account can only have one online character at any given time":
\* so it is between two calls of UpdateSessions.  Within one it is not: a login
\* may complete before the offline session it kicked is deleted.
OneCharacterPerAccount ==
  pc = "idle" =>
    \A s, t \in Allocated :
      s # t /\ ses[s].acct = ses[t].acct /\ ses[s].player # Null => ses[t].player = Null

\* A listed session flagged as queued is in the queue or on its way out of it:
\* otherwise the flag would block its STATUS_AUTHED packets for ever.
NoStuckInQueue ==
  ~final => \A s \in Live : ses[s].inQueue => s \in Queued \/ ses[s].init # "none"

\* "Save and kick all players": when the shutdown handler's UpdateSessions(1)
\* returns, no session holds a character (LogoutPlayer has saved them all).
ShutdownSavesAll == pc = "halted" => \A s \in Sessions : ses[s].player = Null

Held == {ses[s].player : s \in Sessions} \ {Null}

\* A session taken over by _offlineSessions keeps its character in the world until
\* more than Grace has passed, it is kicked, or the character is reclaimed.
AbandonedStays ==
  [][\A a \in Accounts :
       LET o == offline[a] IN
       o # Null /\ ses[o].player # Null /\ ses[o].player \notin Held'
         => ses[o].age > Grace \/ ses[o].kicked]_vars

\* The accounts, as AdmissionQueue sees them.
Admission == INSTANCE AdmissionQueue WITH
  inside <- {a \in Listed : sessions[a] \notin Queued},
  waiting <- [i \in DOMAIN queue |-> ses[queue[i]].acct],
  exempt <- {a \in Accounts : recent[a] < Tolerance}

\* The session maps and the queue implement the promise of the player limit.
AdmissionSpec == Admission!Spec

\* New connections leave the world thread a moment with none to add.
NetworkLull == []<>(addQueue = <<>>)

\* A listed session whose socket is closed is deleted or abandoned in the end.
ClosedSessionsLeave ==
  NetworkLull => \A s \in Sessions :
    s \in Live /\ ses[s].sock = "closed"
      ~> s \notin Live \/ ses[s].sock # "closed" \/ pc = "halted"

\* m_playerLoading does not stay set, and with it the refusal of new sessions of
\* the account (KickSession returns false).
LoadingEnds ==
  NetworkLull => \A s \in Sessions :
    ses[s].load = "sent" ~> ses[s].load = "none" \/ pc = "halted"

\* An abandoned character leaves the world or is reclaimed.
OfflineSessionsEnd ==
  NetworkLull => \A a \in Accounts, s \in Sessions :
    offline[a] = s ~> offline[a] # s \/ pc = "halted"

=============================================================================
