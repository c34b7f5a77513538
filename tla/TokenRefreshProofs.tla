-------------------------- MODULE TokenRefreshProofs --------------------------
(***************************************************************************)
(* No refresh token is spent twice, the stored row is current, and no       *)
(* refusal of another token is held against an account, for any number of   *)
(* callers and connections and any mixture of faults, as long as a rotation *)
(* is remembered until the token it issued is next due (~QuickRotations)    *)
(* and no attempt of a request goes on beside the next one ("overlap").     *)
(*                                                                         *)
(* The argument: Sound(c) says what the row, the provider, the rotation map *)
(* and the callers of connection c know of one another.  A step concerns    *)
(* one connection (Untouched for all others), and each action keeps Sound   *)
(* of the connection it concerns.                                          *)
(***************************************************************************)
EXTENDS TokenRefresh, TLAPS

Active(k, c) == call[k].pc # "idle" /\ call[k].conn = c
Last(c) == server[c].issued
Family(c) == server[c].family

\* The provider's last token is the valid one, or none is; the row holds a
\* token the provider has issued, or none and then the account is given up.
RowFits(c) ==
    /\ Family(c) \in 1..Last(c)
    /\ server[c].valid \in {0, Last(c)}
    /\ row[c].token <= Last(c)
    /\ row[c].token = 0 => row[c].status = "expired"
    /\ "reauth" \notin faults => Family(c) = 1

CallFits(k, c) ==
    /\ call[k].attempted \in 1..Last(c)
    /\ call[k].creds \in 1..Last(c)
    /\ call[k].reply # "none" <=> call[k].pc \in {"answered", "served", "told"}
    /\ call[k].reply = "ok" => call[k].got \in 1..Last(c)
    /\ call[k].gone => call[k].pc \in {"leading", "answered"} /\ "gaveUp" \in faults

\* Who holds the mutex is leading; who has joined waits for somebody; while
\* answers are dealt with nobody leads.
Locked(c) ==
    /\ mutex[c] # NoCall =>
          Active(mutex[c], c) /\ call[mutex[c]].pc \in {"leading", "answered"}
    /\ \A k \in Calls : Active(k, c) =>
          /\ call[k].pc \in {"leading", "answered"} => mutex[c] = k
          /\ call[k].pc = "joined" => mutex[c] # NoCall
          /\ HasReply(k) => mutex[c] = NoCall

\* Every caller of c loaded, and holds, a token older than t.
AllBefore(c, t) ==
    \A k \in Calls : Active(k, c) => call[k].attempted < t /\ call[k].creds < t

\* A remembered rotation leads to the newest token, which no caller holds yet,
\* or belongs to a family before the last sign-in.
MemoSound(c) ==
    \A m \in memo : m.conn = c =>
        /\ m.new \in 1..Last(c)
        /\ \/ m.new < Family(c)
           \/ /\ m.new = Last(c)
              /\ AllBefore(c, m.new)
              /\ row[c].token = m.new => row[c].fresh

\* A token on its way to the row is newer than the row and than what callers
\* hold, or is the row's already, or was overtaken by a sign-in.
AnswerSound(k, c) ==
    call[k].reply = "ok" =>
        IF call[k].pc = "answered"
        THEN \/ call[k].got < Family(c) /\ Family(c) = Last(c)
             \/ call[k].got = Last(c) /\ row[c].token < Last(c) /\ AllBefore(c, Last(c))
        ELSE \/ call[k].got = row[c].token
             \/ call[k].got = Last(c) /\ AllBefore(c, Last(c))
             \/ call[k].got < Family(c)

\* A caller that was led away from the token it loaded will not find it in the
\* row again while it is the valid one; a refused token is not the valid one.
RefusalSound(k, c) ==
    /\ call[k].attempted = server[c].valid /\ call[k].creds # call[k].attempted
          => row[c].token # call[k].attempted
    /\ call[k].pc \in {"answered", "served"} /\ call[k].reply = "dead"
          => call[k].creds # server[c].valid

NotBehind(k, c) ==
    "reauth" \notin faults /\ HasReply(k) /\ call[k].reply = "ok"
        => call[k].got >= row[c].token

CallersSound(c) ==
    \A k \in Calls : Active(k, c) =>
        CallFits(k, c) /\ AnswerSound(k, c) /\ RefusalSound(k, c) /\ NotBehind(k, c)

-----------------------------------------------------------------------------
(* While nothing is lost, every write succeeds and nobody stops waiting.   *)

\* Presenting t revokes nothing: it is the valid token, or of a dead family.
Harmless(c, t) == t = Last(c) \/ t < Family(c)

\* k will write the token it was answered with.
WillWrite(k, c) ==
    /\ Active(k, c) /\ call[k].pc = "served" /\ call[k].reply = "ok"
    /\ ~call[k].saved /\ call[k].kind # "proactive"

\* The provider has issued a token that has not reached anybody yet.
Unrevealed(c) == \E k \in Calls : Active(k, c) /\ call[k].pc = "answered" /\ call[k].reply = "ok"

\* The row leads everybody to the newest token, or nobody holds a spent one.
Covered(c) ==
    /\ Harmless(c, row[c].token)
    /\ row[c].token # Last(c) => \A k \in Calls : Active(k, c) => Harmless(c, call[k].creds)

\* In a family that has rotated everything points to its newest token.
RotatedSound(c) ==
    Family(c) < Last(c) =>
        /\ ~Unrevealed(c) => Covered(c) \/ \E k \in Calls : WillWrite(k, c) /\ call[k].got = Last(c)
        /\ \A m \in memo : m.conn = c => m.new = Last(c)
        /\ \A k \in Calls : Active(k, c) =>
              /\ call[k].reply = "ok" =>
                    \/ call[k].got = Last(c)
                    \/ call[k].pc # "answered" /\ call[k].got = row[c].token
              /\ \/ call[k].reply = "dead"
                 \/ call[k].pc = "leading" /\ call[k].creds # Last(c)
                 => row[c].token # Last(c)

\* A rotation of an earlier family that is still remembered keeps callers from
\* presenting the token of the sign-in.
OldRotationSound(c) ==
    \A m \in memo : m.conn = c /\ m.new < Family(c) =>
        /\ \A k \in Calls : Active(k, c) /\ call[k].pc = "leading" => call[k].creds < Last(c)
        /\ \/ /\ row[c].fresh /\ row[c].token # 0
              /\ row[c].token = Last(c) => \A k \in Calls : Active(k, c) => call[k].creds < Last(c)
           \/ \E k \in Calls : WillWrite(k, c) /\ call[k].got < Last(c)

Healthy(c) ==
    faults \subseteq {"reauth"} =>
        /\ server[c].valid = Last(c)
        /\ \A k \in Calls : Active(k, c) /\ call[k].pc = "leading" => Harmless(c, call[k].creds)
        /\ RotatedSound(c)
        /\ OldRotationSound(c)

\* Without any fault no token is refused, and none is lost from the row.
Spotless(c) ==
    faults = {} =>
        /\ row[c].token # 0
        /\ \A k \in Calls : Active(k, c) => call[k].reply # "dead"

Sound(c) ==
    /\ RowFits(c) /\ Locked(c) /\ MemoSound(c) /\ CallersSound(c)
    /\ Healthy(c) /\ Spotless(c)

\* The answers under way are those of one refresh.
OneAnswer ==
    \A j, k \in Calls : HasReply(j) /\ HasReply(k) =>
        call[j].conn = call[k].conn /\ call[j].reply = call[k].reply /\ call[j].got = call[k].got

\* No attempt goes on beside a later one, and who has persisted has its answer.
Undivided ==
    \A k \in Calls :
        /\ call[k].left = NoCall
        /\ call[k].saved => call[k].pc = "served" /\ call[k].reply = "ok"

TokenInv == TokenTypeOK /\ Undivided /\ OneAnswer /\ \A c \in Conns : Sound(c)

-----------------------------------------------------------------------------
\* Types.

\* Every step of a request, the sweep, the provider or the operator leaves rows,
\* tokens and callers of their types.
LEMMA TypesStay ==
  ASSUME TokenTypeOK, [Next]_vars
  PROVE  TokenTypeOK'
<1> USE DEF TokenTypeOK
<1>1. /\ \A c \in Conns : row[c] \in Row /\ server[c] \in Server
      /\ \A k \in Calls : call[k] \in Call
  OBVIOUS
<1>2. ASSUME NEW k \in Calls
      PROVE  Idle(k) \in [Calls -> Call]
  <2>1. call[k].conn \in Conns
    BY <1>1 DEF Call
  <2>2. IdleCall(call[k].conn) \in Call
    BY <2>1, TokenAssumption DEF IdleCall, Call, Kinds, Token
  <2> QED
    BY <2>2 DEF Idle
<1>3. ASSUME NEW c \in Conns, NEW t \in Token, NEW done \in BOOLEAN,
             Write(c, WithToken(t), done)
      PROVE  row' \in [Conns -> Row] /\ faults' \subseteq Faults
  <2>1. WithToken(t) \in Row
    BY <1>3 DEF WithToken, Row
  <2> QED
    BY <1>3, <2>1 DEF Write, Happens
<1>4. ASSUME NEW k \in Calls, NEW c \in Conns, NEW kind \in Kinds,
             Load(k, c, kind)
      PROVE  TokenTypeOK'
  <2>1. [IdleCall(c) EXCEPT !.pc = "ready", !.kind = kind,
                            !.attempted = row[c].token, !.creds = row[c].token] \in Call
    <3>1. IdleCall(c) \in Call /\ row[c].token \in Token
      BY <1>1, TokenAssumption DEF IdleCall, Call, Kinds, Token, Row
    <3> QED
      BY <1>4, <3>1 DEF Call
  <2>2. call' = [call EXCEPT ![k] =
                   [IdleCall(c) EXCEPT !.pc = "ready", !.kind = kind,
                                       !.attempted = row[c].token, !.creds = row[c].token]]
    BY <1>4 DEF Load
  <2>3. call' \in [Calls -> Call]
    BY <2>1, <2>2, Zenon
  <2> QED
    BY <1>4, <2>3 DEF Load
<1>5. ASSUME NEW k \in Calls, Join(k)
      PROVE  TokenTypeOK'
  BY <1>1, <1>5 DEF Join, Call
<1>6. ASSUME NEW k \in Calls, NEW t \in Token, AnswerAtOnce(k, t)
      PROVE  TokenTypeOK'
  <2>1. PICK done \in BOOLEAN :
           Persist(k, t, done) /\ call' = [call EXCEPT ![k] = AtOnce(k, t, done)]
    BY <1>6 DEF AnswerAtOnce
  <2>2. call[k].conn \in Conns /\ (call[k].saved \/ Ran(k, done)) \in BOOLEAN
    BY <1>1 DEF Call, Ran, PersistsInMutex, SkipsPersist
  <2>3. row' \in [Conns -> Row] /\ faults' \subseteq Faults
    BY <1>3, <2>1, <2>2 DEF Persist
  <2>4. AtOnce(k, t, done) \in Call
    BY <1>1, <2>2, ZenonT(60) DEF AtOnce, Call
  <2>5. call' \in [Calls -> Call]
    BY <2>1, <2>4
  <2> QED
    BY <1>6, <2>3, <2>5 DEF AnswerAtOnce
<1>7. ASSUME NEW k \in Calls, Lead(k)
      PROVE  TokenTypeOK'
  <2>1. call[k].conn \in Conns /\ Presented(k) \in Token
    BY <1>1 DEF Call, Presented, Row
  <2>4. [call[k] EXCEPT !.pc = "leading", !.creds = Presented(k)] \in Call
    BY <1>1, <2>1, ZenonT(60) DEF Call
  <2>2. call' \in [Calls -> Call]
    BY <1>7, <2>4 DEF Lead
  <2>3. mutex' \in [Conns -> Calls \cup {NoCall}]
    BY <1>7, <2>1 DEF Lead
  <2> QED
    BY <1>7, <2>2, <2>3 DEF Lead
<1>22. ASSUME NEW k \in Calls, MayRetry(k)
       PROVE  RetriedCall(call[k]) \in Call
  <2>1. call[k].tries + 1 \in 1..Attempts
    BY <1>1, <1>22, TokenAssumption DEF MayRetry, Call
  <2> QED
    BY <1>1, <2>1, ZenonT(60) DEF RetriedCall, Call
<1>23. ASSUME NEW k \in Calls
       PROVE  RetryOrLeave(k) \in [Calls -> Call]
  BY <1>2, <1>22 DEF RetryOrLeave
<1>8. ASSUME NEW k \in Calls, GiveUp(k)
      PROVE  TokenTypeOK'
  <2>2. [call[k] EXCEPT !.gone = TRUE] \in Call
    BY <1>1, ZenonT(60) DEF Call
  <2>1. call' \in [Calls -> Call]
    BY <1>8, <1>23, <2>2 DEF GiveUp
  <2> QED
    BY <1>8, <2>1 DEF GiveUp, Happens
<1>24. ASSUME NEW k \in Calls, Overlap(k)
       PROVE  TokenTypeOK'
  <2>1. PICK j \in Calls :
           /\ call' = [call EXCEPT ![j] = [call[k] EXCEPT !.gone = TRUE],
                                   ![k] = [RetriedCall(@) EXCEPT !.left = j]]
           /\ call[j].pc = "idle" /\ call[k].pc # "idle"
           /\ mutex' = [mutex EXCEPT ![call[k].conn] = j]
    BY <1>24 DEF Overlap
  <2>2. [call[k] EXCEPT !.gone = TRUE] \in Call
    BY <1>1, ZenonT(60) DEF Call
  <2>3. RetriedCall(call[k]) \in Call
    BY <1>22, <1>24 DEF Overlap
  <2>4. [RetriedCall(call[k]) EXCEPT !.left = j] \in Call
    BY <2>3, ZenonT(60) DEF Call
  <2>5. call' \in [Calls -> Call]
    BY <1>1, <2>1, <2>2, <2>4
  <2>6. mutex' \in [Conns -> Calls \cup {NoCall}]
    BY <2>1
  <2> QED
    BY <1>24, <2>5, <2>6 DEF Overlap, Happens
<1>9. ASSUME NEW k \in Calls, NEW reply \in {"ok", "null", "dead"}, NEW t \in Token,
             Answer(k, reply, t)
      PROVE  call' \in [Calls -> Call]
  <2>1. [call[k] EXCEPT !.pc = "answered", !.reply = reply, !.got = t] \in Call
    BY <1>1, ZenonT(60) DEF Call
  <2> QED
    BY <1>9, <2>1 DEF Answer
<1>10. 0 \in Token
  BY TokenAssumption DEF Token
<1>11. ASSUME NEW k \in Calls, Grants(k)
       PROVE  TokenTypeOK'
  <2>1. call[k].conn \in Conns
    BY <1>1 DEF Call
  <2>2. server[call[k].conn].issued + 1 \in Token
    BY <1>1, <1>11, <2>1, TokenAssumption DEF Grants, Server, Token
  <2>3. server' \in [Conns -> Server]
    BY <1>1, <1>11, <2>1, <2>2 DEF Grants, Server
  <2>4. call' \in [Calls -> Call]
    BY <1>9, <1>10, <1>11, <2>2 DEF Grants
  <2> QED
    BY <1>11, <2>3, <2>4 DEF Grants, Happens
<1>12. ASSUME NEW k \in Calls, Refuses(k) \/ Unreachable(k)
       PROVE  TokenTypeOK'
  <2>1. call[k].conn \in Conns
    BY <1>1 DEF Call
  <2>2. server' \in [Conns -> Server]
    BY <1>1, <1>10, <1>12, <2>1 DEF Refuses, Unreachable, Server
  <2>3. call' \in [Calls -> Call]
    BY <1>9, <1>10, <1>12 DEF Refuses, Unreachable
  <2> QED
    BY <1>12, <2>2, <2>3 DEF Refuses, Unreachable
<1>13. ASSUME NEW k \in Calls, Conclude(k)
       PROVE  TokenTypeOK'
  <2>1. call[k].conn \in Conns /\ call[k].got \in Token /\ call[k].creds \in Token
    BY <1>1 DEF Call
  <2>2. memo' \subseteq Rotation
    BY <1>13, <2>1 DEF Conclude, Recorded, Rotation
  <2>7. PICK done \in BOOLEAN :
           /\ IF call[k].reply = "ok" THEN Persist(k, call[k].got, done)
              ELSE done /\ UNCHANGED <<row, faults>>
           /\ call' = Served(k, done)
    BY <1>13 DEF Conclude
  <2>3. row' \in [Conns -> Row] /\ faults' \subseteq Faults
    BY <1>3, <2>1, <2>7 DEF Persist
  <2>4. mutex' \in [Conns -> Calls \cup {NoCall}]
    BY <1>13, <2>1 DEF Conclude
  <2>5. ASSUME NEW j \in Calls
        PROVE  Served(k, done)[j] \in Call
    <3>1. IdleCall(call[k].conn) \in Call
      BY <1>10, <2>1, TokenAssumption DEF IdleCall, Call, Kinds
    <3> DEFINE ran == call[k].reply = "ok" /\ Ran(k, done)
    <3>2. (call[k].saved \/ ran) \in BOOLEAN /\ (call[j].saved \/ ran) \in BOOLEAN
      BY DEF Ran, PersistsInMutex, SkipsPersist
    <3>3. [call[k] EXCEPT !.pc = "served", !.saved = @ \/ ran] \in Call
      <4> HIDE DEF ran
      <4> QED
        BY <1>1, <3>2, ZenonT(60) DEF Call
    <3>4. Told(j, k) \in Call
      <4>1. [call[j] EXCEPT !.pc = "told", !.reply = call[k].reply, !.got = call[k].got] \in Call
        BY <1>1, <2>1, ZenonT(60) DEF Call
      <4> QED
        BY <1>1, <4>1 DEF Told
    <3>5. [Told(j, k) EXCEPT !.left = NoCall, !.saved = @ \/ ran,
                             !.creds = IF ran THEN call[k].got ELSE @] \in Call
      <4>1. Told(j, k).saved \in BOOLEAN /\ Told(j, k).creds \in Token
        BY <3>4 DEF Call
      <4>2. (Told(j, k).saved \/ ran) \in BOOLEAN
        BY DEF Ran, PersistsInMutex, SkipsPersist
      <4>3. (IF ran THEN call[k].got ELSE Told(j, k).creds) \in Token
        BY <2>1, <4>1
      <4> HIDE DEF ran
      <4> QED
        BY <3>4, <4>2, <4>3, ZenonT(60) DEF Call
    <3> QED
      BY <3>1, <3>3, <3>4, <3>5 DEF Served
  <2>6. call' \in [Calls -> Call]
    BY <2>5, <2>7 DEF Served
  <2> QED
    BY <1>13, <2>2, <2>3, <2>4, <2>6 DEF Conclude
<1>14. ASSUME NEW k \in Calls, AcceptReply(k)
       PROVE  TokenTypeOK'
  <2>1. call[k].conn \in Conns /\ call[k].got \in Token
    BY <1>1 DEF Call
  <2>2. row' \in [Conns -> Row] /\ faults' \subseteq Faults
    BY <1>3, <1>14, <2>1 DEF AcceptReply
  <2> QED
    BY <1>2, <1>14, <2>2 DEF AcceptReply
<1>15. ASSUME NEW k \in Calls, MissReply(k)
       PROVE  TokenTypeOK'
  BY <1>15, <1>23 DEF MissReply
<1>16. ASSUME NEW k \in Calls, SufferRefusal(k)
       PROVE  TokenTypeOK'
  <2>1. call[k].conn \in Conns
    BY <1>1 DEF Call
  <2>2. ASSUME NEW r \in Row
        PROVE  GiveUpAccount(k, r) \in Row
    BY <1>1, <1>10 DEF GiveUpAccount, Row, Call
  <2>3. row' \in [Conns -> Row]
    BY <1>1, <1>16, <2>1, <2>2 DEF SufferRefusal
  <2> QED
    BY <1>2, <1>16, <2>3 DEF SufferRefusal
<1>17. ASSUME NEW c \in Conns, Expire(c) \/ Reauthenticate(c)
       PROVE  TokenTypeOK'
  <2>1. CASE Expire(c)
    BY <1>1, <2>1 DEF Expire, Row
  <2>2. CASE Reauthenticate(c)
    <3>1. server[c].issued + 1 \in Token
      BY <1>1, <2>2, TokenAssumption DEF Reauthenticate, Server, Token
    <3>2. server' \in [Conns -> Server] /\ row' \in [Conns -> Row]
      BY <1>1, <2>2, <3>1 DEF Reauthenticate, Server, WithToken, Row
    <3> QED
      BY <2>2, <3>2 DEF Reauthenticate, Happens
  <2> QED
    BY <1>17, <2>1, <2>2
<1>18. CASE UNCHANGED vars
  BY <1>18 DEF vars, tokenVars
<1>19. ASSUME NEW m \in memo, ForgetRotation(m)
       PROVE  TokenTypeOK'
  BY <1>19 DEF ForgetRotation
<1>20. ASSUME NEW k \in Calls, ReuseRotation(k) \/ UseStoredToken(k)
       PROVE  TokenTypeOK'
  <2>1. \A m \in memo : m.new \in Token
    BY DEF Rotation
  <2>2. row[call[k].conn].token \in Token
    BY <1>1 DEF Call, Row
  <2> QED
    BY <1>6, <1>20, <2>1, <2>2 DEF ReuseRotation, UseStoredToken, Rotated
<1>21. ASSUME NEW k \in Calls, Refreshes(k)
       PROVE  TokenTypeOK'
  BY <1>5, <1>7, <1>11, <1>12, <1>13, <1>14, <1>15, <1>16, <1>20, <1>21 DEF Refreshes
<1> QED
  BY <1>4, <1>8, <1>17, <1>18, <1>19, <1>21, <1>24 DEF Next


\* The numbers of tokens are natural numbers, the records of rows and callers as
\* the types say.
LEMMA Typed ==
  ASSUME TokenTypeOK
  PROVE  /\ \A c \in Conns :
              /\ row[c].token \in Nat /\ row[c].fresh \in BOOLEAN
              /\ row[c].status \in {"active", "expired"}
              /\ server[c].issued \in Nat /\ server[c].valid \in Nat /\ server[c].family \in Nat
              /\ mutex[c] # NoCall => mutex[c] \in Calls
         /\ \A k \in Calls :
              /\ call[k].conn \in Conns
              /\ call[k].attempted \in Nat /\ call[k].creds \in Nat /\ call[k].got \in Nat
         /\ \A m \in memo : m.conn \in Conns /\ m.old \in Nat /\ m.new \in Nat
<1>1. /\ \A c \in Conns : row[c] \in Row /\ server[c] \in Server
      /\ \A k \in Calls : call[k] \in Call
      /\ \A m \in memo : m \in Rotation
      /\ \A c \in Conns : mutex[c] # NoCall => mutex[c] \in Calls
  BY DEF TokenTypeOK
<1>2. Token \subseteq Nat
  BY TokenAssumption DEF Token
<1> QED
  BY <1>1, <1>2 DEF Row, Server, Call, Rotation

-----------------------------------------------------------------------------
(* A step concerns one connection.                                         *)

\* Nothing that Sound(c) speaks of changes.
Untouched(c) ==
    /\ row'[c] = row[c] /\ server'[c] = server[c] /\ mutex'[c] = mutex[c]
    /\ \A m \in memo' : m.conn = c => m \in memo
    /\ \A k \in Calls : Active(k, c) => call'[k] = call[k]
    /\ \A k \in Calls : call'[k].pc # "idle" /\ call'[k].conn = c => call'[k] = call[k]
    /\ faults \subseteq faults'

\* What holds of a connection goes on holding when others are refreshed.
LEMMA OthersStaySound ==
  ASSUME NEW c \in Conns, TokenTypeOK, TokenTypeOK', Sound(c), Untouched(c)
  PROVE  Sound(c)'
<1> USE DEF Untouched, Active, Last, Family
<1>1. RowFits(c)'
  BY DEF Sound, RowFits
<1>2. Locked(c)'
  BY DEF Sound, Locked, HasReply, TokenTypeOK
<1>4. MemoSound(c)'
  BY DEF Sound, MemoSound, AllBefore
<1>5. CallersSound(c)'
  <2>1. ASSUME NEW k \in Calls, Active(k, c)'
        PROVE  CallFits(k, c)' /\ AnswerSound(k, c)' /\ RefusalSound(k, c)' /\ NotBehind(k, c)'
    <3>1. Active(k, c) /\ call'[k] = call[k]
      BY <2>1
    <3>2. CallFits(k, c) /\ AnswerSound(k, c) /\ RefusalSound(k, c) /\ NotBehind(k, c)
      BY <3>1 DEF Sound, CallersSound
    <3>3. CallFits(k, c)' /\ RefusalSound(k, c)' /\ NotBehind(k, c)'
      BY <3>1, <3>2 DEF CallFits, RefusalSound, NotBehind, HasReply
    <3>4. AnswerSound(k, c)'
      BY <3>1, <3>2 DEF AnswerSound, AllBefore
    <3> QED
      BY <3>3, <3>4
  <2> QED
    BY <2>1 DEF CallersSound
<1>6. Healthy(c)'
  <2>1. RotatedSound(c) => RotatedSound(c)'
    BY DEF RotatedSound, Unrevealed, Covered, WillWrite, Harmless
  <2>2. OldRotationSound(c) => OldRotationSound(c)'
    BY DEF OldRotationSound, WillWrite
  <2> QED
    BY <2>1, <2>2 DEF Sound, Healthy, Harmless
<1>7. Spotless(c)'
  BY DEF Sound, Spotless
<1> QED
  BY <1>1, <1>2, <1>4, <1>5, <1>6, <1>7 DEF Sound


-----------------------------------------------------------------------------
(* Writes of the row, and the answers of a refresh.                        *)

\* A write gives the row the token, or fails and leaves it as it is.
LEMMA WriteIs ==
  ASSUME TokenTypeOK, NEW c \in Conns, NEW t, NEW done \in BOOLEAN, Write(c, WithToken(t), done)
  PROVE  /\ \A d \in Conns \ {c} : row'[d] = row[d]
         /\ row'[c] = IF done THEN WithToken(t) ELSE row[c]
         /\ faults \subseteq faults' /\ ("reauth" \in faults' => "reauth" \in faults)
         /\ IF done THEN faults' = faults ELSE "unsaved" \in faults'
  BY DEF Write, Happens, TokenTypeOK

\* So does a persist inside the mutex, where there is one.
LEMMA PersistIs ==
  ASSUME TokenTypeOK, NEW k \in Calls, NEW c \in Conns, c = call[k].conn, NEW t,
         NEW done \in BOOLEAN, Persist(k, t, done)
  PROVE  /\ \A d \in Conns \ {c} : row'[d] = row[d]
         /\ row'[c] = IF PersistsInMutex(k, c) /\ done THEN WithToken(t) ELSE row[c]
         /\ faults \subseteq faults' /\ ("reauth" \in faults' => "reauth" \in faults)
         /\ IF done THEN faults' = faults ELSE "unsaved" \in faults'
<1>1. CASE PersistsInMutex(k, c)
  BY <1>1, WriteIs DEF Persist
<1>2. CASE ~PersistsInMutex(k, c)
  BY <1>2 DEF Persist
<1> QED
  BY <1>1, <1>2

\* Without overlaps the answer of a refresh reaches its leader and those who have
\* joined it, and nobody else.
LEMMA LeaderServed ==
  ASSUME TokenTypeOK, Undivided, NEW k \in Calls, call[k].pc = "answered", NEW done \in BOOLEAN
  PROVE  Served(k, done)[k] =
           IF call[k].gone THEN IdleCall(call[k].conn)
           ELSE [call[k] EXCEPT !.pc = "served", !.saved = call[k].reply = "ok" /\ Ran(k, done)]
<1> DEFINE ran == call[k].reply = "ok" /\ Ran(k, done)
<1>1. call[k].saved = FALSE
  BY DEF Undivided, TokenTypeOK, Call
<1>2. ran \in BOOLEAN
  BY DEF Ran, PersistsInMutex, SkipsPersist
<1>3. Served(k, done)[k] = IF call[k].gone THEN IdleCall(call[k].conn)
                           ELSE [call[k] EXCEPT !.pc = "served", !.saved = call[k].saved \/ ran]
  BY DEF Served
<1>4. (call[k].saved \/ ran) = ran
  <2> HIDE DEF ran
  <2> QED
    BY <1>1, <1>2
<1> HIDE DEF ran
<1>5. Served(k, done)[k] = IF call[k].gone THEN IdleCall(call[k].conn)
                           ELSE [call[k] EXCEPT !.pc = "served", !.saved = ran]
  BY <1>3, <1>4
<1> QED
  BY <1>5 DEF ran

LEMMA OthersTold ==
  ASSUME TokenTypeOK, Undivided, NEW k \in Calls, NEW done \in BOOLEAN, NEW j \in Calls, j # k
  PROVE  Served(k, done)[j] = Told(j, k)
<1>1. call[j].left # k
  BY TokenAssumption DEF Undivided
<1> QED
  BY <1>1 DEF Served

-----------------------------------------------------------------------------
(* The callers' steps.                                                     *)

\* A caller that reads the row while a rotation is remembered finds a token
\* older than the one that rotation leads to.
LEMMA LoadKeeps ==
  ASSUME TokenTypeOK, ~QuickRotations, NEW k \in Calls, NEW c \in Conns,
         NEW kind \in Kinds,
         Load(k, c, kind), Sound(c)
  PROVE  Sound(c)' /\ \A d \in Conns \ {c} : Untouched(d)
<1> USE DEF Active, Last, Family
<1>1. /\ row' = row /\ server' = server /\ mutex' = mutex /\ memo' = memo /\ faults' = faults
      /\ Quiet /\ row[c].token # 0 /\ call[k].pc = "idle"
      /\ row[c].fresh => ~Recent(c)
  BY DEF Load
<1>2. /\ call'[k].pc = "ready" /\ call'[k].conn = c /\ call'[k].reply = "none"
      /\ call'[k].attempted = row[c].token /\ call'[k].creds = row[c].token
      /\ ~call'[k].gone
      /\ \A j \in Calls : j # k => call'[j] = call[j]
  BY DEF Load, IdleCall, TokenTypeOK
<1>3. /\ row[c].token \in Nat /\ Last(c) \in Nat /\ Family(c) \in Nat
      /\ \A m \in memo : m.new \in Nat
      /\ \A j \in Calls : call[j].attempted \in Nat /\ call[j].creds \in Nat /\ call[j].got \in Nat
  BY Typed
<1>4. RowFits(c)'
  BY <1>1 DEF Sound, RowFits
<1>5. Locked(c)'
  BY <1>1, <1>2, Typed DEF Sound, Locked, HasReply
<1>6. ASSUME NEW m \in memo, m.conn = c
      PROVE  ~row[c].fresh /\ (m.new >= Family(c) => row[c].token < m.new)
  BY <1>1, <1>3, <1>6 DEF Sound, MemoSound, RowFits, Recent
<1>7. MemoSound(c)'
  BY <1>1, <1>2, <1>3, <1>6 DEF Sound, MemoSound, AllBefore
<1>8. CallersSound(c)'
  <2>1. CallFits(k, c)' /\ RefusalSound(k, c)' /\ AnswerSound(k, c)' /\ NotBehind(k, c)'
    BY <1>1, <1>2, <1>3 DEF Sound, RowFits, CallFits, RefusalSound, AnswerSound, NotBehind
  <2>2. ASSUME NEW j \in Calls, j # k, Active(j, c)'
        PROVE  CallFits(j, c)' /\ RefusalSound(j, c)' /\ AnswerSound(j, c)' /\ NotBehind(j, c)'
    <3>1. CallFits(j, c) /\ RefusalSound(j, c) /\ AnswerSound(j, c) /\ NotBehind(j, c)
      BY <1>2, <2>2 DEF Sound, CallersSound
    <3>2. CallFits(j, c)' /\ RefusalSound(j, c)' /\ NotBehind(j, c)'
      BY <1>1, <1>2, <2>2, <3>1 DEF CallFits, RefusalSound, NotBehind, HasReply
    <3>3. AnswerSound(j, c)'
      BY <1>1, <1>2, <1>3, <2>2, <3>1 DEF AnswerSound, AllBefore, Quiet, HasReply, CallFits
    <3> QED
      BY <3>2, <3>3
  <2> QED
    BY <2>1, <2>2 DEF CallersSound
<1>9. Healthy(c)'
  <2>1. RotatedSound(c) => RotatedSound(c)'
    BY <1>1, <1>2, <1>3 DEF RotatedSound, Unrevealed, Covered, WillWrite, Harmless, Quiet, HasReply
  <2>2. OldRotationSound(c) => OldRotationSound(c)'
    BY <1>1, <1>2, <1>3, <1>6 DEF OldRotationSound, WillWrite, Quiet, HasReply
  <2> QED
    BY <1>1, <1>2, <2>1, <2>2 DEF Sound, Healthy, Harmless
<1>10. Spotless(c)'
  BY <1>1, <1>2 DEF Sound, Spotless
<1>11. ASSUME NEW d \in Conns, d # c
       PROVE  Untouched(d)
  BY <1>1, <1>2, <1>11 DEF Untouched
<1> QED
  BY <1>4, <1>5, <1>7, <1>8, <1>9, <1>10, <1>11 DEF Sound


\* Sharing a refresh changes nothing of what its answer may be.
LEMMA JoinKeeps ==
  ASSUME TokenTypeOK, NEW k \in Calls, NEW c \in Conns, c = call[k].conn, Join(k), Sound(c)
  PROVE  Sound(c)' /\ \A d \in Conns \ {c} : Untouched(d)
<1> USE DEF Active, Last, Family
<1>1. /\ row' = row /\ server' = server /\ mutex' = mutex /\ memo' = memo /\ faults' = faults
      /\ Quiet /\ call[k].pc = "ready" /\ mutex[c] # NoCall
  BY DEF Join
<1>2. /\ call'[k].pc = "joined" /\ call'[k].conn = c /\ call'[k].reply = call[k].reply
      /\ call'[k].attempted = call[k].attempted /\ call'[k].creds = call[k].creds
      /\ call'[k].gone = call[k].gone
      /\ \A j \in Calls : j # k => call'[j] = call[j]
  BY DEF Join, TokenTypeOK, Call
<1>3. RowFits(c)'
  BY <1>1 DEF Sound, RowFits
<1>4. Locked(c)'
  BY <1>1, <1>2, Typed DEF Sound, Locked, HasReply
<1>5. MemoSound(c)'
  BY <1>1, <1>2 DEF Sound, MemoSound, AllBefore
<1>6. CallersSound(c)'
  <2>1. ASSUME NEW j \in Calls, Active(j, c)'
        PROVE  CallFits(j, c)' /\ RefusalSound(j, c)' /\ AnswerSound(j, c)' /\ NotBehind(j, c)'
    <3>1. CallFits(j, c) /\ RefusalSound(j, c) /\ AnswerSound(j, c) /\ NotBehind(j, c)
      BY <1>1, <1>2, <2>1 DEF Sound, CallersSound
    <3>2. CallFits(j, c)' /\ RefusalSound(j, c)' /\ NotBehind(j, c)'
      BY <1>1, <1>2, <3>1 DEF CallFits, RefusalSound, NotBehind, HasReply
    <3>3. AnswerSound(j, c)'
      BY <1>1, <1>2, <3>1 DEF AnswerSound, AllBefore, CallFits
    <3> QED
      BY <3>2, <3>3
  <2> QED
    BY <2>1 DEF CallersSound
<1>7. Healthy(c)'
  <2>1. CallFits(k, c)
    BY <1>1 DEF Sound, CallersSound
  <2>4. /\ \A j \in Calls : Active(j, c)' <=> Active(j, c)
        /\ \A j \in Calls : call'[j].creds = call[j].creds /\ call'[j].reply = call[j].reply
        /\ \A j \in Calls : call'[j].pc \in {"leading", "answered"} <=> call[j].pc \in {"leading", "answered"}
        /\ \A j \in Calls : ~WillWrite(j, c)
        /\ call[k].reply = "none"
    BY <1>1, <1>2, <2>1 DEF WillWrite, Quiet, HasReply, CallFits
  <2>2. ASSUME RotatedSound(c), Family(c) < Last(c)
        PROVE  RotatedSound(c)'
    <3>1. Unrevealed(c) => Unrevealed(c)'
      BY <1>1, <1>2 DEF Unrevealed
    <3>2. Covered(c) => Covered(c)'
      BY <1>1, <2>4 DEF Covered, Harmless
    <3>3. \A m \in memo' : m.conn = c => m.new = Last(c)
      BY <1>1, <2>2 DEF RotatedSound
    <3>4. Unrevealed(c)' \/ Covered(c)'
      BY <2>2, <2>4, <3>1, <3>2 DEF RotatedSound
    <3>5. ASSUME NEW j \in Calls, Active(j, c)'
          PROVE  /\ call'[j].reply = "ok" =>
                       \/ call'[j].got = Last(c)
                       \/ call'[j].pc # "answered" /\ call'[j].got = row[c].token
                 /\ \/ call'[j].reply = "dead"
                    \/ call'[j].pc = "leading" /\ call'[j].creds # Last(c)
                    => row[c].token # Last(c)
      BY <1>1, <1>2, <2>2, <2>4, <3>5 DEF RotatedSound
    <3> HIDE DEF Active
    <3> QED
      BY <1>1, <3>3, <3>4, <3>5 DEF RotatedSound
  <2>3. OldRotationSound(c) => OldRotationSound(c)'
    BY <1>1, <1>2 DEF OldRotationSound, WillWrite, Quiet, HasReply
  <2>5. server[c].issued \in Nat /\ server[c].family \in Nat
    BY Typed
  <2>6. Family(c) >= Last(c) => RotatedSound(c)'
    BY <1>1, <2>5 DEF RotatedSound
  <2> QED
    BY <1>1, <1>2, <2>2, <2>3, <2>5, <2>6 DEF Sound, Healthy, Harmless
<1>8. Spotless(c)'
  BY <1>1, <1>2 DEF Sound, Spotless
<1>9. ASSUME NEW d \in Conns, d # c
      PROVE  Untouched(d)
  BY <1>1, <1>2, <1>9 DEF Untouched
<1> QED
  BY <1>3, <1>4, <1>5, <1>6, <1>7, <1>8, <1>9 DEF Sound

\* While no refresh is under way and no answer is being dealt with, callers have
\* only loaded the row.
LEMMA NobodyRefreshes ==
  ASSUME TokenTypeOK, NEW c \in Conns, Sound(c), Quiet, mutex[c] = NoCall
  PROVE  \A j \in Calls : Active(j, c) =>
            call[j].pc = "ready" /\ call[j].reply = "none" /\ ~WillWrite(j, c)
<1> SUFFICES ASSUME NEW j \in Calls, Active(j, c)
             PROVE  call[j].pc = "ready" /\ call[j].reply = "none" /\ ~WillWrite(j, c)
  OBVIOUS
<1>1. call[j].pc \notin {"idle", "served", "told"} /\ CallFits(j, c)
  BY DEF Quiet, HasReply, Active, Sound, CallersSound
<1>2. call[j].pc \notin {"joined", "leading", "answered"}
  BY TokenAssumption DEF Sound, Locked
<1>3. call[j].pc \in {"idle", "ready", "joined", "leading", "answered", "served", "told"}
  BY DEF TokenTypeOK, Call
<1> QED
  BY <1>1, <1>2, <1>3 DEF CallFits, WillWrite

\* The leader presents the newest token it can know of.
LEMMA LeadKeeps ==
  ASSUME TokenTypeOK, NEW k \in Calls, NEW c \in Conns, c = call[k].conn, Lead(k), Sound(c)
  PROVE  Sound(c)' /\ \A d \in Conns \ {c} : Untouched(d)
<1> USE DEF Active, Last, Family
<1>1. /\ row' = row /\ server' = server /\ memo' = memo /\ faults' = faults
      /\ Quiet /\ call[k].pc = "ready" /\ mutex[c] = NoCall
      /\ mutex'[c] = k /\ \A d \in Conns \ {c} : mutex'[d] = mutex[d]
  BY DEF Lead, Alone, TokenTypeOK
<1>2. /\ call'[k].pc = "leading" /\ call'[k].conn = c /\ call'[k].reply = call[k].reply
      /\ call'[k].attempted = call[k].attempted /\ call'[k].creds = Presented(k)
      /\ call'[k].gone = call[k].gone
      /\ \A j \in Calls : j # k => call'[j] = call[j]
  BY DEF Lead, TokenTypeOK, Call
<1>3. \/ /\ row[c].token # 0 /\ row[c].token # call[k].creds
         /\ ~row[c].fresh /\ Presented(k) = row[c].token
      \/ row[c].token \in {0, call[k].creds} /\ Presented(k) = call[k].creds
  BY DEF Lead, Presented, RowDiffers
<1>4. /\ row[c].token \in Nat /\ Last(c) \in Nat /\ Family(c) \in Nat
      /\ \A m \in memo : m.new \in Nat
      /\ \A j \in Calls : call[j].attempted \in Nat /\ call[j].creds \in Nat /\ call[j].got \in Nat
  BY Typed
<1>5. CallFits(k, c) /\ RefusalSound(k, c) /\ RowFits(c)
  BY <1>1 DEF Sound, CallersSound
<1>6. \A j \in Calls : Active(j, c) =>
         call[j].pc = "ready" /\ call[j].reply = "none" /\ ~WillWrite(j, c)
  BY <1>1, NobodyRefreshes
<1>7. RowFits(c)'
  BY <1>1 DEF Sound, RowFits
<1>8. Locked(c)'
  BY <1>1, <1>2, <1>6 DEF Locked, HasReply
<1>9. MemoSound(c)'
  <2>1. ASSUME NEW m \in memo, m.conn = c, m.new = Last(c), AllBefore(c, m.new),
               row[c].token = m.new => row[c].fresh
        PROVE  AllBefore(c, m.new)'
    <3>1. Presented(k) < m.new
      BY <1>1, <1>3, <1>4, <1>5, <2>1 DEF AllBefore, RowFits
    <3> QED
      BY <1>1, <1>2, <2>1, <3>1 DEF AllBefore
  <2> QED
    BY <1>1, <2>1 DEF Sound, MemoSound
<1>10. CallersSound(c)'
  <2>1. CallFits(k, c)' /\ RefusalSound(k, c)' /\ AnswerSound(k, c)' /\ NotBehind(k, c)'
    BY <1>1, <1>2, <1>3, <1>4, <1>5, <1>6
    DEF RowFits, CallFits, RefusalSound, AnswerSound, NotBehind, HasReply
  <2>2. ASSUME NEW j \in Calls, j # k, Active(j, c)'
        PROVE  CallFits(j, c)' /\ RefusalSound(j, c)' /\ AnswerSound(j, c)' /\ NotBehind(j, c)'
    BY <1>1, <1>2, <1>6, <2>2 DEF Sound, CallersSound, CallFits, RefusalSound, AnswerSound, NotBehind
  <2> QED
    BY <2>1, <2>2 DEF CallersSound
<1>11. Healthy(c)'
  <2>1. ASSUME faults \subseteq {"reauth"}
        PROVE  Harmless(c, Presented(k))
    <3>1. Active(k, c) /\ call[k].creds \in 1..Last(c) /\ row[c].token <= Last(c)
          /\ Family(c) \in 1..Last(c) /\ RotatedSound(c)
      BY <1>1, <1>5, <2>1 DEF CallFits, RowFits, Sound, Healthy
    <3>2. CASE Family(c) = Last(c)
      BY <1>3, <1>4, <3>1, <3>2 DEF Harmless
    <3>3. CASE Family(c) < Last(c)
      <4>1. Covered(c)
        BY <1>6, <3>1, <3>3 DEF RotatedSound, Unrevealed, WillWrite
      <4>2. Presented(k) = row[c].token \/ row[c].token = 0
        BY <1>3
      <4> QED
        BY <1>3, <3>1, <4>1, <4>2 DEF Covered
    <3> QED
      BY <1>4, <3>1, <3>2, <3>3
  <2>2. ASSUME RotatedSound(c), Family(c) < Last(c)
        PROVE  RotatedSound(c)'
    <3>1. Covered(c)
      BY <1>6, <2>2 DEF RotatedSound, Unrevealed, WillWrite
    <3>2. Covered(c)'
      BY <1>1, <1>2, <1>3, <3>1 DEF Covered, Harmless
    <3>3. row[c].token # Last(c) \/ Presented(k) = Last(c)
      BY <1>3, <1>4, <1>5 DEF RowFits
    <3> QED
      BY <1>1, <1>2, <1>6, <2>2, <3>2, <3>3 DEF RotatedSound
  <2>3. ASSUME OldRotationSound(c)
        PROVE  OldRotationSound(c)'
    <3> SUFFICES ASSUME NEW m \in memo, m.conn = c, m.new < Family(c)
                 PROVE  /\ row[c].fresh /\ row[c].token # 0
                        /\ \A j \in Calls : Active(j, c)' /\ call'[j].pc = "leading"
                              => call'[j].creds < Last(c)
                        /\ row[c].token = Last(c) =>
                              \A j \in Calls : Active(j, c)' => call'[j].creds < Last(c)
      <4> HIDE DEF Active
      <4> QED
        BY <1>1 DEF OldRotationSound
    <3>1. /\ row[c].fresh /\ row[c].token # 0
          /\ row[c].token = Last(c) => \A j \in Calls : Active(j, c) => call[j].creds < Last(c)
      BY <1>6, <2>3 DEF OldRotationSound, WillWrite
    <3>2. Presented(k) = call[k].creds /\ call[k].creds = row[c].token
      BY <1>3, <3>1
    <3>3. \A j \in Calls : Active(j, c)' => Active(j, c) /\ call'[j].creds = call[j].creds
      BY <1>1, <1>2, <3>2
    <3>4. \A j \in Calls : Active(j, c)' /\ call'[j].pc = "leading" => j = k
      BY <1>2, <1>6
    <3>5. call[k].creds <= Last(c) /\ Active(k, c)
      BY <1>1, <1>4, <1>5 DEF CallFits
    <3> QED
      BY <1>4, <3>1, <3>2, <3>3, <3>4, <3>5
  <2>4. Family(c) >= Last(c) => RotatedSound(c)'
    BY <1>1, <1>4 DEF RotatedSound
  <2> QED
    BY <1>1, <1>2, <1>4, <1>6, <2>1, <2>2, <2>3, <2>4 DEF Sound, Healthy, Harmless
<1>12. Spotless(c)'
  BY <1>1, <1>2 DEF Sound, Spotless
<1>13. ASSUME NEW d \in Conns, d # c
       PROVE  Untouched(d)
  BY <1>1, <1>2, <1>13 DEF Untouched
<1> QED
  BY <1>7, <1>8, <1>9, <1>10, <1>11, <1>12, <1>13 DEF Sound


\* A request that stops waiting, to try again or for good, leaves the refresh as
\* it is.
LEMMA GiveUpKeeps ==
  ASSUME TokenTypeOK, NEW k \in Calls, NEW c \in Conns, c = call[k].conn, GiveUp(k), Sound(c)
  PROVE  Sound(c)' /\ \A d \in Conns \ {c} : Untouched(d)
<1> USE DEF Active, Last, Family
<1>1. /\ row' = row /\ server' = server /\ memo' = memo /\ mutex' = mutex
      /\ faults' = faults \cup {"gaveUp"} /\ Quiet
  BY DEF GiveUp, Happens
<1>2. /\ call'[k].conn = c
      /\ \/ call[k].pc = "joined" /\ call'[k].pc = "idle"
         \/ /\ call[k].pc = "joined" /\ call'[k].pc = "ready" /\ call'[k].reply = "none"
            /\ call'[k].attempted = call[k].attempted /\ call'[k].creds = call[k].creds
            /\ call'[k].gone = call[k].gone
         \/ /\ call[k].pc \in {"leading", "answered"} /\ call'[k].pc = call[k].pc
            /\ call'[k].reply = call[k].reply /\ call'[k].got = call[k].got
            /\ call'[k].attempted = call[k].attempted /\ call'[k].creds = call[k].creds
      /\ \A j \in Calls : j # k => call'[j] = call[j]
  <2>1. CASE call[k].pc = "joined" /\ MayRetry(k)
    BY <2>1 DEF GiveUp, RetryOrLeave, RetriedCall, TokenTypeOK, Call
  <2>2. CASE call[k].pc = "joined" /\ ~MayRetry(k)
    BY <2>2 DEF GiveUp, RetryOrLeave, Idle, IdleCall, TokenTypeOK, Call
  <2>3. CASE call[k].pc # "joined"
    BY <2>3 DEF GiveUp, TokenTypeOK, Call
  <2> QED
    BY <2>1, <2>2, <2>3
<1>3. RowFits(c)'
  BY <1>1 DEF Sound, RowFits
<1>4. Locked(c)'
  BY <1>1, <1>2, Typed DEF Sound, Locked, HasReply
<1>5. MemoSound(c)'
  BY <1>1, <1>2 DEF Sound, MemoSound, AllBefore
<1>6. CallersSound(c)'
  <2>1. ASSUME NEW j \in Calls, Active(j, c)'
        PROVE  CallFits(j, c)' /\ RefusalSound(j, c)' /\ AnswerSound(j, c)' /\ NotBehind(j, c)'
    <3>1. CallFits(j, c) /\ RefusalSound(j, c) /\ AnswerSound(j, c) /\ NotBehind(j, c)
      BY <1>1, <1>2, <2>1 DEF Sound, CallersSound
    <3>2. CallFits(j, c)' /\ RefusalSound(j, c)' /\ NotBehind(j, c)'
      BY <1>1, <1>2, <2>1, <3>1 DEF CallFits, RefusalSound, NotBehind, HasReply
    <3>3. AnswerSound(j, c)'
      BY <1>1, <1>2, <2>1, <3>1 DEF AnswerSound, AllBefore
    <3> QED
      BY <3>2, <3>3
  <2> QED
    BY <2>1 DEF CallersSound
<1>7. Healthy(c)' /\ Spotless(c)'
  BY <1>1 DEF Healthy, Spotless
<1>8. ASSUME NEW d \in Conns, d # c
      PROVE  Untouched(d)
  BY <1>1, <1>2, <1>8 DEF Untouched
<1> QED
  BY <1>3, <1>4, <1>5, <1>6, <1>7, <1>8 DEF Sound

\* A leader answered without a refresh is given the newest token, one before the
\* last sign-in or the row's.
LEMMA AnswerAtOnceKeeps ==
  ASSUME TokenTypeOK, NEW k \in Calls, NEW c \in Conns, c = call[k].conn, Sound(c),
         Undivided, ReuseRotation(k) \/ UseStoredToken(k)
  PROVE  Sound(c)' /\ \A d \in Conns \ {c} : Untouched(d)
<1> USE DEF Active, Last, Family
<1>1. /\ row[c].token \in Nat /\ Last(c) \in Nat /\ Family(c) \in Nat
      /\ \A m \in memo : m.new \in Nat
      /\ \A j \in Calls : call[j].attempted \in Nat /\ call[j].creds \in Nat /\ call[j].got \in Nat
  BY Typed
<1>2. Quiet /\ call[k].pc = "ready" /\ mutex[c] = NoCall
  BY DEF ReuseRotation, UseStoredToken, Alone
<1>3. \A j \in Calls : Active(j, c) =>
         call[j].pc = "ready" /\ call[j].reply = "none" /\ ~WillWrite(j, c)
  BY <1>2, NobodyRefreshes
<1>4. PICK t \in 1..Last(c) :
         /\ AnswerAtOnce(k, t)
         /\ \/ t < Family(c)
            \/ t = Last(c) /\ AllBefore(c, t)
            \/ t = row[c].token /\ row[c].fresh
         /\ t = row[c].token \/ \E m \in memo : m.conn = c /\ m.new = t
  <2>1. CASE ReuseRotation(k)
    <3>1. PICK m \in memo : m.conn = c /\ AnswerAtOnce(k, m.new)
      BY <2>1 DEF ReuseRotation, Rotated
    <3> QED
      BY <3>1 DEF Sound, MemoSound
  <2>2. CASE UseStoredToken(k)
    BY <1>1, <2>2 DEF UseStoredToken, RowDiffers, Sound, RowFits
  <2> QED
    BY <2>1, <2>2
<1>16. PICK done \in BOOLEAN :
          Persist(k, t, done) /\ call' = [call EXCEPT ![k] = AtOnce(k, t, done)]
  BY <1>4 DEF AnswerAtOnce
<1>17. Ran(k, done) \in BOOLEAN /\ call[k].saved = FALSE
  BY <1>2 DEF Undivided, TokenTypeOK, Call, Ran, PersistsInMutex, SkipsPersist
<1>5. /\ server' = server /\ memo' = memo /\ mutex' = mutex
      /\ faults \subseteq faults' /\ ("reauth" \in faults' => "reauth" \in faults)
      /\ "unsaved" \notin faults' => faults' = faults
      /\ \A d \in Conns \ {c} : row'[d] = row[d]
      /\ \/ row'[c].token = t /\ row'[c].fresh /\ row'[c].status = "active"
         \/ row'[c] = row[c]
      /\ call'[k].pc = "served" /\ call'[k].conn = c /\ call'[k].reply = "ok" /\ call'[k].got = t
      /\ call'[k].attempted = call[k].attempted /\ call'[k].creds = call[k].creds
      /\ call'[k].gone = call[k].gone
      /\ \A j \in Calls : j # k => call'[j] = call[j]
  <2>1. /\ \A d \in Conns \ {c} : row'[d] = row[d]
        /\ row'[c] = WithToken(t) \/ row'[c] = row[c]
        /\ faults \subseteq faults' /\ ("reauth" \in faults' => "reauth" \in faults)
        /\ "unsaved" \notin faults' => faults' = faults
    BY <1>16, PersistIs
  <2> QED
    BY <1>4, <1>16, <1>17, <2>1 DEF AnswerAtOnce, AtOnce, WithToken, TokenTypeOK, Call
<1>6. RowFits(c) /\ CallFits(k, c)
  BY <1>2 DEF Sound, CallersSound
<1>7. \A j \in Calls : Active(j, c)' => Active(j, c)
  BY <1>2, <1>5
<1>8. RowFits(c)'
  BY <1>1, <1>5 DEF Sound, RowFits
<1>9. Locked(c)'
  BY <1>2, <1>3, <1>5 DEF Locked, HasReply
<1>11. MemoSound(c)'
  BY <1>1, <1>5, <1>7 DEF Sound, MemoSound, AllBefore
<1>12. CallersSound(c)'
  <2>1. ASSUME NEW j \in Calls, Active(j, c)'
        PROVE  RefusalSound(j, c)'
    <3>1. RefusalSound(j, c) /\ CallFits(j, c)
      BY <1>7, <2>1 DEF Sound, CallersSound
    <3>2. AllBefore(c, t) => call[j].attempted < t
      BY <1>7, <2>1 DEF AllBefore
    <3>3. call[j].attempted = server[c].valid => call[j].attempted = Last(c)
      BY <1>1, <1>6, <3>1 DEF RowFits, CallFits
    <3> QED
      BY <1>1, <1>3, <1>4, <1>5, <1>6, <1>7, <2>1, <3>1, <3>2, <3>3 DEF RefusalSound, RowFits
  <2>2. CallFits(k, c)' /\ AnswerSound(k, c)'
    <3>1. CallFits(k, c)'
      BY <1>2, <1>5, <1>6 DEF CallFits
    <3>2. AnswerSound(k, c)'
      BY <1>1, <1>4, <1>5, <1>7 DEF AnswerSound, AllBefore
    <3> QED
      BY <3>1, <3>2
  <2>3. NotBehind(k, c)'
    BY <1>1, <1>4, <1>5, <1>6 DEF NotBehind, RowFits
  <2>4. ASSUME NEW j \in Calls, j # k, Active(j, c)'
        PROVE  CallFits(j, c)' /\ AnswerSound(j, c)' /\ NotBehind(j, c)'
    BY <1>3, <1>5, <2>4 DEF Sound, CallersSound, CallFits, AnswerSound, NotBehind
  <2> QED
    BY <2>1, <2>2, <2>3, <2>4 DEF CallersSound
<1>13. Healthy(c)'
  <2> SUFFICES ASSUME faults' = faults
               PROVE  Healthy(c)'
    BY <1>5 DEF Healthy
  <2>1. ASSUME RotatedSound(c), Family(c) < Last(c)
        PROVE  RotatedSound(c)'
    <3>1. Covered(c)
      BY <1>3, <2>1 DEF RotatedSound, Unrevealed, WillWrite
    <3>2. t = Last(c) \/ t = row[c].token
      BY <1>4, <2>1 DEF RotatedSound
    <3>3. Covered(c)'
      BY <1>5, <1>7, <3>1, <3>2 DEF Covered, Harmless
    <3>4. \A m \in memo' : m.conn = c => m.new = Last(c)
      BY <1>5, <2>1 DEF RotatedSound
    <3> QED
      BY <1>3, <1>5, <3>2, <3>3, <3>4 DEF RotatedSound
  <2>2. ASSUME OldRotationSound(c)
        PROVE  OldRotationSound(c)'
    <3> SUFFICES ASSUME NEW m \in memo, m.conn = c, m.new < Family(c)
                 PROVE  /\ row'[c].fresh /\ row'[c].token # 0
                        /\ row'[c].token = Last(c) =>
                              \A j \in Calls : Active(j, c)' => call'[j].creds < Last(c)
      <4>1. \A j \in Calls : Active(j, c)' => call'[j].pc # "leading"
        BY <1>3, <1>5, <1>7
      <4> HIDE DEF Active
      <4> QED
        BY <1>5, <4>1 DEF OldRotationSound
    <3>1. /\ row[c].fresh /\ row[c].token # 0
          /\ row[c].token = Last(c) => \A j \in Calls : Active(j, c) => call[j].creds < Last(c)
      BY <1>3, <2>2 DEF OldRotationSound, WillWrite
    <3>2. \A j \in Calls : Active(j, c)' => Active(j, c) /\ call'[j].creds = call[j].creds
      BY <1>5, <1>7
    <3>3. CASE row'[c] = row[c]
      BY <3>1, <3>2, <3>3
    <3>4. CASE row'[c].token = t /\ row'[c].fresh
      <4>1. t = Last(c) => t = row[c].token \/ AllBefore(c, Last(c))
        BY <1>1, <1>4, <1>6 DEF RowFits
      <4> QED
        BY <3>1, <3>2, <3>4, <4>1 DEF AllBefore
    <3> QED
      BY <1>5, <3>3, <3>4
  <2>3. Family(c) >= Last(c) => RotatedSound(c)'
    BY <1>1, <1>5 DEF RotatedSound
  <2> QED
    BY <1>1, <1>3, <1>5, <1>7, <2>1, <2>2, <2>3 DEF Sound, Healthy, Harmless
<1>14. Spotless(c)'
  <2>1. faults' = {} => faults = {}
    BY <1>5
  <2> QED
    BY <1>1, <1>3, <1>4, <1>5, <2>1 DEF Sound, Spotless
<1>15. ASSUME NEW d \in Conns, d # c
       PROVE  Untouched(d)
  BY <1>5, <1>15 DEF Untouched
<1> QED
  BY <1>8, <1>9, <1>11, <1>12, <1>13, <1>14, <1>15 DEF Sound


-----------------------------------------------------------------------------
(* The provider's steps.                                                   *)

\* While a refresh is under way the other callers of the connection wait, or have
\* only loaded the row.
LEMMA OneLeads ==
  ASSUME TokenTypeOK, NEW k \in Calls, NEW c \in Conns, c = call[k].conn, Sound(c), Quiet,
         call[k].pc \in {"leading", "answered"}
  PROVE  /\ mutex[c] = k /\ CallFits(k, c) /\ AnswerSound(k, c) /\ RefusalSound(k, c)
         /\ call[k].pc = "leading" => call[k].reply = "none"
         /\ \A j \in Calls : j # k /\ Active(j, c) =>
               call[j].pc \in {"ready", "joined"} /\ call[j].reply = "none"
         /\ \A j \in Calls : ~WillWrite(j, c)
<1>1. mutex[c] = k /\ CallFits(k, c) /\ AnswerSound(k, c) /\ RefusalSound(k, c)
  BY DEF Sound, Locked, CallersSound, Active
<1>2. ASSUME NEW j \in Calls, j # k, Active(j, c)
      PROVE  call[j].pc \in {"ready", "joined"} /\ call[j].reply = "none"
  <2>1. call[j].pc \notin {"idle", "served", "told"} /\ CallFits(j, c)
    BY <1>2 DEF Quiet, HasReply, Active, Sound, CallersSound
  <2>2. call[j].pc \notin {"leading", "answered"}
    BY <1>1, <1>2 DEF Sound, Locked
  <2>3. call[j].pc \in {"idle", "ready", "joined", "leading", "answered", "served", "told"}
    BY DEF TokenTypeOK, Call
  <2> QED
    BY <2>1, <2>2, <2>3 DEF CallFits
<1>3. \A j \in Calls : ~WillWrite(j, c)
  BY DEF Quiet, HasReply, WillWrite
<1> QED
  BY <1>1, <1>2, <1>3 DEF CallFits

\* An attempt that fails without an answer leaves the tokens as they are.
LEMMA UnreachableKeeps ==
  ASSUME TokenTypeOK, NEW k \in Calls, NEW c \in Conns, c = call[k].conn, Unreachable(k), Sound(c)
  PROVE  Sound(c)' /\ \A d \in Conns \ {c} : Untouched(d)
<1> USE DEF Active, Last, Family
<1>1. /\ row' = row /\ server' = server /\ memo' = memo /\ mutex' = mutex /\ faults' = faults
      /\ Quiet /\ call[k].pc = "leading"
      /\ call'[k].pc = "answered" /\ call'[k].conn = c /\ call'[k].reply = "null"
      /\ call'[k].attempted = call[k].attempted /\ call'[k].creds = call[k].creds
      /\ call'[k].gone = call[k].gone
      /\ \A j \in Calls : j # k => call'[j] = call[j]
  BY DEF Unreachable, Waits, Answer, TokenTypeOK, Call
<1>2. /\ mutex[c] = k /\ CallFits(k, c) /\ RefusalSound(k, c)
      /\ \A j \in Calls : j # k /\ Active(j, c) =>
            call[j].pc \in {"ready", "joined"} /\ call[j].reply = "none"
      /\ \A j \in Calls : ~WillWrite(j, c)
  BY <1>1, OneLeads
<1>3. RowFits(c)'
  BY <1>1 DEF Sound, RowFits
<1>4. Locked(c)'
  BY <1>1, <1>2, TokenAssumption DEF Locked, HasReply
<1>5. MemoSound(c)'
  BY <1>1 DEF Sound, MemoSound, AllBefore
<1>6. CallersSound(c)'
  <2>1. ASSUME NEW j \in Calls, Active(j, c)'
        PROVE  CallFits(j, c)' /\ RefusalSound(j, c)' /\ AnswerSound(j, c)' /\ NotBehind(j, c)'
    BY <1>1, <1>2, <2>1
    DEF Sound, CallersSound, CallFits, RefusalSound, AnswerSound, NotBehind, HasReply
  <2> QED
    BY <2>1 DEF CallersSound
<1>7. Healthy(c)'
  <2>1. RotatedSound(c) => RotatedSound(c)'
    BY <1>1, <1>2 DEF RotatedSound, Unrevealed, Covered, Harmless, WillWrite
  <2>2. OldRotationSound(c) => OldRotationSound(c)'
    BY <1>1, <1>2 DEF OldRotationSound
  <2> QED
    BY <1>1, <2>1, <2>2 DEF Sound, Healthy, Harmless
<1>8. Spotless(c)'
  BY <1>1 DEF Sound, Spotless
<1>9. ASSUME NEW d \in Conns, d # c
      PROVE  Untouched(d)
  BY <1>1, <1>9 DEF Untouched
<1> QED
  BY <1>3, <1>4, <1>5, <1>6, <1>7, <1>8, <1>9 DEF Sound

\* A token that is refused was not the valid one; while nothing is lost it is of
\* a family that is dead already.
LEMMA RefusesKeeps ==
  ASSUME TokenTypeOK, NEW k \in Calls, NEW c \in Conns, c = call[k].conn, Refuses(k), Sound(c)
  PROVE  Sound(c)' /\ \A d \in Conns \ {c} : Untouched(d)
<1> USE DEF Active, Last, Family
<1>1. /\ row' = row /\ memo' = memo /\ mutex' = mutex /\ faults' = faults
      /\ \A d \in Conns \ {c} : server'[d] = server[d]
      /\ server'[c].issued = server[c].issued /\ server'[c].family = server[c].family
      /\ server'[c].valid \in {0, server[c].valid}
      /\ call[k].creds < server[c].family => server'[c].valid = server[c].valid
      /\ call[k].creds # server[c].valid
      /\ Quiet /\ call[k].pc = "leading"
      /\ call'[k].pc = "answered" /\ call'[k].conn = c /\ call'[k].reply = "dead"
      /\ call'[k].attempted = call[k].attempted /\ call'[k].creds = call[k].creds
      /\ call'[k].gone = call[k].gone
      /\ \A j \in Calls : j # k => call'[j] = call[j]
  <2>1. server[c].issued \in Nat /\ server[c].family \in Nat /\ call[k].creds \in Nat
    BY Typed
  <2> QED
    BY <2>1 DEF Refuses, Waits, Answer, TokenTypeOK, Call, Server
<1>2. /\ mutex[c] = k /\ CallFits(k, c) /\ RefusalSound(k, c)
      /\ \A j \in Calls : j # k /\ Active(j, c) =>
            call[j].pc \in {"ready", "joined"} /\ call[j].reply = "none"
      /\ \A j \in Calls : ~WillWrite(j, c)
  BY <1>1, OneLeads
<1>3. /\ row[c].token \in Nat /\ Last(c) \in Nat /\ Family(c) \in Nat
      /\ \A j \in Calls : call[j].attempted \in Nat /\ call[j].creds \in Nat
  BY Typed
<1>4. RowFits(c)'
  BY <1>1 DEF Sound, RowFits
<1>5. Locked(c)'
  BY <1>1, <1>2, TokenAssumption DEF Locked, HasReply
<1>6. MemoSound(c)'
  BY <1>1 DEF Sound, MemoSound, AllBefore
<1>7. CallersSound(c)'
  <2>1. ASSUME NEW j \in Calls, Active(j, c)'
        PROVE  CallFits(j, c)' /\ RefusalSound(j, c)' /\ AnswerSound(j, c)' /\ NotBehind(j, c)'
    <3>1. CallFits(j, c) /\ RefusalSound(j, c)
      BY <1>1, <2>1 DEF Sound, CallersSound
    <3>2. CallFits(j, c)' /\ AnswerSound(j, c)' /\ NotBehind(j, c)'
      BY <1>1, <1>2, <2>1, <3>1 DEF CallFits, AnswerSound, NotBehind
    <3>3. RefusalSound(j, c)'
      BY <1>1, <1>2, <1>3, <2>1, <3>1 DEF CallFits, RefusalSound
    <3> QED
      BY <3>2, <3>3
  <2> QED
    BY <2>1 DEF CallersSound
<1>8. ASSUME faults \subseteq {"reauth"}
      PROVE  call[k].creds < Family(c) /\ server'[c].valid = Last(c)
  BY <1>1, <1>8 DEF Sound, Healthy, Harmless
<1>9. Healthy(c)'
  <2>1. ASSUME RotatedSound(c), call[k].creds < Family(c)
        PROVE  RotatedSound(c)'
    <3> SUFFICES ASSUME Family(c) < Last(c)
                 PROVE  RotatedSound(c)'
      BY <1>1, <1>3 DEF RotatedSound
    <3>1. Covered(c)
      BY <1>1, <1>2, <2>1 DEF RotatedSound, Unrevealed
    <3>2. row[c].token # Last(c)
      BY <1>1, <1>3, <2>1 DEF RotatedSound
    <3>3. Covered(c)'
      BY <1>1, <3>1 DEF Covered, Harmless
    <3>4. \A m \in memo' : m.conn = c => m.new = Last(c)
      BY <1>1, <2>1 DEF RotatedSound
    <3>5. \A j \in Calls : Active(j, c)' => call'[j].reply # "ok"
      BY <1>1, <1>2
    <3> QED
      BY <1>1, <3>2, <3>3, <3>4, <3>5 DEF RotatedSound
  <2>2. ASSUME OldRotationSound(c)
        PROVE  OldRotationSound(c)'
    <3>1. \A j \in Calls : Active(j, c)' => call'[j].pc # "leading"
      BY <1>1, <1>2
    <3>2. \A j \in Calls : Active(j, c)' => Active(j, c) /\ call'[j].creds = call[j].creds
      BY <1>1
    <3> QED
      BY <1>1, <1>2, <2>2, <3>1, <3>2 DEF OldRotationSound
  <2> QED
    BY <1>1, <1>8, <2>1, <2>2 DEF Sound, Healthy, Harmless
<1>10. Spotless(c)'
  <2>1. "reauth" \notin faults => Family(c) = 1
    BY DEF Sound, RowFits
  <2>2. call[k].creds \in 1..Last(c)
    BY <1>2 DEF CallFits
  <2>3. faults # {}
    BY <1>3, <1>8, <2>1, <2>2
  <2> QED
    BY <1>1, <2>3 DEF Spotless
<1>11. ASSUME NEW d \in Conns, d # c
       PROVE  Untouched(d)
  BY <1>1, <1>11 DEF Untouched
<1> QED
  BY <1>4, <1>5, <1>6, <1>7, <1>9, <1>10, <1>11 DEF Sound

\* A grant spends the newest token: no remembered rotation and no other caller
\* can lead anybody past the token it issues.
LEMMA GrantsKeeps ==
  ASSUME TokenTypeOK, NEW k \in Calls, NEW c \in Conns, c = call[k].conn, Grants(k), Sound(c)
  PROVE  Sound(c)' /\ \A d \in Conns \ {c} : Untouched(d)
<1> USE DEF Active, Last, Family
<1>1. /\ row' = row /\ memo' = memo /\ mutex' = mutex
      /\ \A d \in Conns \ {c} : server'[d] = server[d]
      /\ server'[c].issued = server[c].issued + 1 /\ server'[c].family = server[c].family
      /\ server'[c].valid = server[c].issued + 1
      /\ call[k].creds = server[c].valid
      /\ Quiet /\ call[k].pc = "leading"
      /\ call'[k].pc = "answered" /\ call'[k].conn = c
      /\ \/ call'[k].reply = "ok" /\ call'[k].got = server[c].issued + 1 /\ faults' = faults
         \/ call'[k].reply = "null" /\ faults' = faults \cup {"lost"}
      /\ call'[k].attempted = call[k].attempted /\ call'[k].creds = call[k].creds
      /\ call'[k].gone = call[k].gone
      /\ \A j \in Calls : j # k => call'[j] = call[j]
  BY DEF Grants, Happens, Waits, Answer, TokenTypeOK, Call, Server
<1>2. /\ mutex[c] = k /\ CallFits(k, c) /\ RefusalSound(k, c)
      /\ \A j \in Calls : j # k /\ Active(j, c) =>
            call[j].pc \in {"ready", "joined"} /\ call[j].reply = "none"
      /\ \A j \in Calls : ~WillWrite(j, c)
  BY <1>1, OneLeads
<1>3. /\ row[c].token \in Nat /\ Last(c) \in Nat /\ Family(c) \in Nat
      /\ \A m \in memo : m.new \in Nat
      /\ \A j \in Calls : call[j].attempted \in Nat /\ call[j].creds \in Nat
  BY Typed
<1>4. /\ call[k].creds = Last(c) /\ row[c].token <= Last(c) /\ Family(c) \in 1..Last(c)
      /\ \A j \in Calls : Active(j, c) =>
            call[j].attempted \in 1..Last(c) /\ call[j].creds \in 1..Last(c)
  <2>1. /\ \A j \in Calls : Active(j, c) =>
              call[j].attempted \in 1..Last(c) /\ call[j].creds \in 1..Last(c)
        /\ call[k].creds \in 1..Last(c)
    BY <1>2 DEF Sound, CallersSound, CallFits
  <2>2. row[c].token <= Last(c) /\ Family(c) \in 1..Last(c) /\ server[c].valid \in {0, Last(c)}
    BY DEF Sound, RowFits
  <2>3. call[k].creds = server[c].valid
    BY <1>1
  <2> QED
    BY <2>1, <2>2, <2>3
<1>5. RowFits(c)'
  <2>1. (row[c].token = 0 => row[c].status = "expired") /\ ("reauth" \notin faults => Family(c) = 1)
    BY DEF Sound, RowFits
  <2>2. "reauth" \notin faults' => "reauth" \notin faults
    BY <1>1
  <2> QED
    BY <1>1, <1>3, <1>4, <2>1, <2>2 DEF RowFits
<1>6. Locked(c)'
  BY <1>1, <1>2, TokenAssumption DEF Locked, HasReply
<1>7. \A m \in memo : m.conn = c => m.new < Family(c) /\ m.new \in 1..Last(c)
  <2>1. ASSUME NEW m \in memo, m.conn = c, AllBefore(c, m.new)
        PROVE  m.new # Last(c)
    <3>1. Active(k, c) /\ call[k].creds = Last(c)
      BY <1>1, <1>4
    <3>2. call[k].creds < m.new
      BY <2>1, <3>1 DEF AllBefore
    <3> QED
      BY <1>3, <3>1, <3>2
  <2> QED
    BY <2>1 DEF Sound, MemoSound
<1>8. MemoSound(c)'
  BY <1>1, <1>3, <1>7 DEF MemoSound
<1>9. CallersSound(c)'
  <2>1. ASSUME NEW j \in Calls, Active(j, c)'
        PROVE  CallFits(j, c)' /\ RefusalSound(j, c)' /\ AnswerSound(j, c)' /\ NotBehind(j, c)'
    <3>1. CallFits(j, c) /\ RefusalSound(j, c)
      BY <1>1, <2>1 DEF Sound, CallersSound
    <3>2. CallFits(j, c)'
      BY <1>1, <1>2, <1>3, <2>1, <3>1 DEF CallFits
    <3>3. RefusalSound(j, c)' /\ NotBehind(j, c)'
      <4>1. call'[j].attempted # Last(c) + 1 /\ call'[j].creds # Last(c) + 1
        BY <1>1, <1>3, <1>4, <2>1
      <4>2. ~(call'[j].pc \in {"served", "told"})
        BY <1>1, <1>2, <2>1
      <4> QED
        BY <1>1, <4>1, <4>2 DEF RefusalSound, NotBehind, HasReply
    <3>4. AnswerSound(j, c)'
      <4>1. AllBefore(c, Last(c))'
        <5>1. ASSUME NEW i \in Calls, Active(i, c)'
              PROVE  call'[i].attempted < Last(c) + 1 /\ call'[i].creds < Last(c) + 1
          <6>1. Active(i, c) /\ call'[i].attempted = call[i].attempted /\ call'[i].creds = call[i].creds
            BY <1>1, <5>1
          <6> QED
            BY <1>3, <1>4, <6>1
        <5>2. server'[c].issued = Last(c) + 1
          BY <1>1
        <5> QED
          BY <5>1, <5>2 DEF AllBefore
      <4>2. CASE j = k
        <5>1. server'[c].issued = Last(c) + 1 /\ row'[c].token < Last(c) + 1
          BY <1>1, <1>3, <1>4
        <5>2. call'[k].reply = "ok" => call'[k].got = Last(c) + 1
          BY <1>1
        <5> HIDE DEF Active, Family
        <5> QED
          BY <1>1, <4>1, <4>2, <5>1, <5>2 DEF AnswerSound
      <4>3. CASE j # k
        BY <1>1, <1>2, <2>1, <4>3 DEF AnswerSound
      <4> QED
        BY <4>2, <4>3
    <3> QED
      BY <3>2, <3>3, <3>4
  <2> QED
    BY <2>1 DEF CallersSound
<1>10. Healthy(c)'
  <2> SUFFICES ASSUME faults' \subseteq {"reauth"}
               PROVE  Healthy(c)'
    BY DEF Healthy
  <2>1. faults' = faults /\ call'[k].reply = "ok" /\ call'[k].got = Last(c) + 1
    BY <1>1
  <2>2. OldRotationSound(c)
    BY <2>1 DEF Sound, Healthy
  <2>3. \A m \in memo : m.conn # c
    <3> SUFFICES ASSUME NEW m \in memo, m.conn = c
                 PROVE  FALSE
      OBVIOUS
    <3>1. m.new < Family(c)
      BY <1>7
    <3>2. call[k].creds < Last(c)
      BY <1>1, <2>2, <3>1 DEF OldRotationSound
    <3> QED
      BY <1>3, <1>4, <3>2
  <2>4. RotatedSound(c)'
    <3>1. Unrevealed(c)'
      BY <1>1, <2>1 DEF Unrevealed
    <3>2. ASSUME NEW j \in Calls, Active(j, c)', j # k
          PROVE  call'[j].reply = "none" /\ call'[j].pc # "leading"
      BY <1>1, <1>2, <3>2
    <3>3. call'[k].pc = "answered" /\ call'[k].reply = "ok"
          /\ call'[k].got = server'[c].issued /\ memo' = memo
      BY <1>1, <2>1
    <3> HIDE DEF Active
    <3> QED
      BY <2>3, <3>1, <3>2, <3>3 DEF RotatedSound
  <2>5. OldRotationSound(c)'
    BY <1>1, <2>3 DEF OldRotationSound
  <2> QED
    BY <1>1, <1>2, <2>4, <2>5 DEF Healthy
<1>11. Spotless(c)'
  BY <1>1, <1>2 DEF Sound, Spotless
<1>12. ASSUME NEW d \in Conns, d # c
       PROVE  Untouched(d)
  BY <1>1, <1>12 DEF Untouched
<1> QED
  BY <1>5, <1>6, <1>8, <1>9, <1>10, <1>11, <1>12 DEF Sound


-----------------------------------------------------------------------------
(* The end of a refresh.                                                   *)

\* The rotation that is recorded leads to a token nobody holds yet; it reaches
\* the row now, or with the leader's own persist.
LEMMA ConcludeKeeps ==
  ASSUME TokenTypeOK, NEW k \in Calls, NEW c \in Conns, c = call[k].conn, Conclude(k), Sound(c),
         Undivided
  PROVE  Sound(c)' /\ \A d \in Conns \ {c} : Untouched(d)
<1> USE DEF Active, Last, Family
<1>18. PICK done \in BOOLEAN :
          /\ IF call[k].reply = "ok" THEN Persist(k, call[k].got, done)
             ELSE done /\ UNCHANGED <<row, faults>>
          /\ call' = Served(k, done)
  BY DEF Conclude
<1> DEFINE ok == call[k].reply = "ok"
           persists == PersistsInMutex(k, c) /\ done
           t == call[k].got
<1>4. /\ \A d \in Conns \ {c} : row'[d] = row[d]
      /\ IF ok /\ persists
           THEN row'[c].token = t /\ row'[c].fresh /\ row'[c].status = "active"
           ELSE row'[c] = row[c]
      /\ faults \subseteq faults' /\ ("reauth" \in faults' => "reauth" \in faults)
      /\ IF done THEN faults' = faults ELSE "unsaved" \in faults'
  <2>1. CASE ok
    <3>1. Persist(k, t, done)
      BY <1>18, <2>1
    <3>2. /\ \A d \in Conns \ {c} : row'[d] = row[d]
          /\ row'[c] = IF persists THEN WithToken(t) ELSE row[c]
          /\ faults \subseteq faults' /\ ("reauth" \in faults' => "reauth" \in faults)
          /\ IF done THEN faults' = faults ELSE "unsaved" \in faults'
      BY <3>1, PersistIs
    <3> QED
      BY <2>1, <3>2 DEF WithToken
  <2>2. CASE ~ok
    BY <1>18, <2>2
  <2> QED
    BY <2>1, <2>2
<1>1. /\ server' = server /\ Quiet /\ call[k].pc = "answered"
      /\ mutex'[c] = NoCall /\ \A d \in Conns \ {c} : mutex'[d] = mutex[d]
      /\ memo' = Recorded(k)
      /\ \A d \in Conns \ {c} : row'[d] = row[d]
      /\ faults \subseteq faults' /\ ("reauth" \in faults' => "reauth" \in faults)
  BY <1>4 DEF Conclude, TokenTypeOK
<1>2. /\ mutex[c] = k /\ CallFits(k, c) /\ AnswerSound(k, c) /\ RefusalSound(k, c)
      /\ \A j \in Calls : j # k /\ Active(j, c) =>
            call[j].pc \in {"ready", "joined"} /\ call[j].reply = "none"
      /\ \A j \in Calls : ~WillWrite(j, c)
  BY <1>1, OneLeads
<1>3. /\ row[c].token \in Nat /\ Last(c) \in Nat /\ Family(c) \in Nat /\ server[c].valid \in Nat
      /\ \A m \in memo : m.new \in Nat
      /\ \A j \in Calls : call[j].attempted \in Nat /\ call[j].creds \in Nat /\ call[j].got \in Nat
  BY Typed
<1>5. IF call[k].gone THEN call'[k].pc = "idle"
      ELSE /\ call'[k].pc = "served" /\ call'[k].conn = c /\ ~call'[k].gone
           /\ call'[k].attempted = call[k].attempted /\ call'[k].creds = call[k].creds
           /\ call'[k].reply = call[k].reply /\ call'[k].got = t
           /\ call'[k].kind = call[k].kind
           /\ call'[k].saved = (ok /\ Ran(k, done))
  <2> DEFINE ran == ok /\ Ran(k, done)
  <2>1. call'[k] = IF call[k].gone THEN IdleCall(c)
                   ELSE [call[k] EXCEPT !.pc = "served", !.saved = ran]
    BY <1>1, <1>18, LeaderServed
  <2>2. call[k] \in Call
    BY DEF TokenTypeOK
  <2> HIDE DEF ran
  <2>3. CASE call[k].gone
    BY <2>1, <2>3 DEF IdleCall
  <2>4. CASE ~call[k].gone
    <3>1. /\ call'[k].pc = "served" /\ call'[k].conn = c /\ ~call'[k].gone
          /\ call'[k].attempted = call[k].attempted /\ call'[k].creds = call[k].creds
          /\ call'[k].reply = call[k].reply /\ call'[k].got = t
          /\ call'[k].kind = call[k].kind /\ call'[k].saved = ran
      BY <2>1, <2>2, <2>4 DEF Call
    <3> QED
      BY <2>4, <3>1 DEF ran
  <2> QED
    BY <2>3, <2>4
<1>6. ASSUME NEW j \in Calls, j # k
      PROVE  IF call[j].pc = "joined" /\ call[j].conn = c
             THEN /\ call'[j].pc = "told" /\ call'[j].conn = c /\ call'[j].gone = call[j].gone
                  /\ call'[j].attempted = call[j].attempted /\ call'[j].creds = call[j].creds
                  /\ call'[j].reply = call[k].reply /\ call'[j].got = t
             ELSE call'[j] = call[j]
  <2>1. call'[j] = IF call[j].pc = "joined" /\ call[j].conn = c
                   THEN [call[j] EXCEPT !.pc = "told", !.reply = call[k].reply, !.got = t]
                   ELSE call[j]
    <3>1. call'[j] = Told(j, k)
      BY <1>6, <1>18, OthersTold
    <3> QED
      BY <3>1 DEF Told
  <2>2. call[j] \in Call
    BY DEF TokenTypeOK
  <2> QED
    BY <2>1, <2>2 DEF Call
<1>7. /\ \A m \in memo' : m \in memo \/ (ok /\ m.conn = c /\ m.new = t)
      /\ ~ok => memo' = memo
  <2>1. memo' = IF ok THEN {m \in memo : ~(m.conn = c /\ m.old = call[k].creds)}
                            \cup {[conn |-> c, old |-> call[k].creds, new |-> t]}
                ELSE memo
    BY <1>1 DEF Recorded
  <2> QED
    BY <2>1
<1>8. ASSUME ok
      PROVE  t \in 1..Last(c) /\ \/ t < Family(c) /\ Family(c) = Last(c)
                                 \/ t = Last(c) /\ row[c].token < Last(c) /\ AllBefore(c, Last(c))
  BY <1>1, <1>2, <1>8 DEF AnswerSound, CallFits
<1>9. \A j \in Calls : Active(j, c)' =>
         /\ Active(j, c)
         /\ call'[j].pc \in {"ready", "served", "told"}
         /\ call'[j].attempted = call[j].attempted /\ call'[j].creds = call[j].creds
         /\ call'[j].reply = IF HasReply(j)' THEN call[k].reply ELSE "none"
         /\ HasReply(j)' => call'[j].got = t
         /\ HasReply(j)' /\ call'[j].pc = "served" => j = k
  BY <1>1, <1>2, <1>5, <1>6 DEF HasReply
<1>10. AllBefore(c, Last(c)) => AllBefore(c, Last(c))'
  BY <1>1, <1>9 DEF AllBefore
<1>11. RowFits(c)'
  BY <1>1, <1>3, <1>4, <1>8 DEF Sound, RowFits
<1>12. Locked(c)'
  BY <1>1, <1>9 DEF Locked
<1>13. MemoSound(c)'
  <2>1. ASSUME NEW m \in memo, m.conn = c, m \in memo'
        PROVE  /\ m.new \in 1..Last(c)
               /\ \/ m.new < Family(c)
                  \/ /\ m.new = Last(c) /\ AllBefore(c, m.new)'
                     /\ row'[c].token = m.new => row'[c].fresh
    BY <1>1, <1>4, <1>9, <2>1 DEF Sound, MemoSound, AllBefore
  <2>2. ASSUME NEW m \in memo', m \notin memo, m.conn = c
        PROVE  /\ m.new \in 1..Last(c)
               /\ \/ m.new < Family(c)
                  \/ /\ m.new = Last(c) /\ AllBefore(c, m.new)'
                     /\ row'[c].token = m.new => row'[c].fresh
    <3>1. ok /\ m.new = t
      BY <1>7, <2>2
    <3> QED
      BY <1>1, <1>3, <1>4, <1>8, <1>9, <3>1 DEF AllBefore
  <2> QED
    BY <1>1, <2>1, <2>2 DEF MemoSound
<1>14. CallersSound(c)'
  <2>1. ASSUME NEW j \in Calls, Active(j, c)'
        PROVE  CallFits(j, c)' /\ RefusalSound(j, c)' /\ AnswerSound(j, c)' /\ NotBehind(j, c)'
    <3>1. CallFits(j, c) /\ RefusalSound(j, c)
      BY <1>9, <2>1 DEF Sound, CallersSound
    <3>2. CallFits(j, c)'
      BY <1>1, <1>2, <1>5, <1>6, <1>8, <1>9, <2>1, <3>1 DEF CallFits, HasReply
    <3>3. RefusalSound(j, c)'
      <4>1. call[j].attempted = server[c].valid => call[j].attempted = Last(c)
        BY <3>1 DEF Sound, RowFits, CallFits
      <4>2. row'[c] = row[c] \/ row'[c].token # Last(c) \/ call[j].attempted < Last(c)
        BY <1>1, <1>3, <1>4, <1>8, <1>9, <2>1 DEF AllBefore, Sound, RowFits
      <4> QED
        BY <1>1, <1>2, <1>3, <1>9, <2>1, <3>1, <4>1, <4>2 DEF RefusalSound, HasReply
    <3>4. AnswerSound(j, c)'
      BY <1>1, <1>8, <1>9, <1>10, <2>1 DEF AnswerSound, HasReply
    <3>5. NotBehind(j, c)'
      BY <1>1, <1>3, <1>4, <1>8, <1>9, <2>1 DEF NotBehind, HasReply, Sound, RowFits
    <3> QED
      BY <3>2, <3>3, <3>4, <3>5
  <2> QED
    BY <2>1 DEF CallersSound
<1>15. Healthy(c)'
  <2> SUFFICES ASSUME faults' \subseteq {"reauth"}
               PROVE  Healthy(c)'
    BY DEF Healthy
  <2>5. done /\ faults' = faults
    BY <1>4
  <2>1. RotatedSound(c) /\ OldRotationSound(c) /\ server[c].valid = Last(c) /\ ~call[k].gone
    BY <1>2, <2>5 DEF Sound, Healthy, CallFits
  <2>2. ok /\ ~persists => WillWrite(k, c)'
    BY <1>5, <2>1, <2>5 DEF WillWrite, Ran, PersistsInMutex, SkipsPersist
  <2>3. RotatedSound(c)'
    <3> SUFFICES ASSUME Family(c) < Last(c)
                 PROVE  RotatedSound(c)'
      BY <1>1, <1>3 DEF RotatedSound
    <3>1. ok => t = Last(c)
      BY <1>3, <1>8
    <3>2. Covered(c)' \/ \E j \in Calls : WillWrite(j, c)' /\ call'[j].got = Last(c)
      <4>1. CASE ok /\ persists
        BY <1>1, <1>4, <3>1, <4>1 DEF Covered, Harmless
      <4>2. CASE ok /\ ~persists
        BY <1>5, <2>1, <2>2, <3>1, <4>2
      <4>3. CASE ~ok
        <5>1. Covered(c)
          BY <1>2, <2>1, <4>3 DEF RotatedSound, Unrevealed
        <5> QED
          BY <1>1, <1>4, <1>9, <4>3, <5>1 DEF Covered, Harmless
      <4> QED
        BY <4>1, <4>2, <4>3
    <3>3. \A m \in memo' : m.conn = c => m.new = Last(c)
      BY <1>7, <2>1, <3>1 DEF RotatedSound
    <3>4. call[k].reply = "dead" => row'[c].token # Last(c)
      BY <1>1, <1>4, <2>1 DEF RotatedSound
    <3> QED
      BY <1>1, <1>9, <3>1, <3>2, <3>3, <3>4 DEF RotatedSound, HasReply
  <2>4. OldRotationSound(c)'
    <3> SUFFICES ASSUME NEW m \in memo', m.conn = c, m.new < Family(c)
                 PROVE  \/ /\ row'[c].fresh /\ row'[c].token # 0
                           /\ row'[c].token = Last(c) =>
                                 \A j \in Calls : Active(j, c)' => call'[j].creds < Last(c)
                        \/ \E j \in Calls : WillWrite(j, c)' /\ call'[j].got < Last(c)
      <4>1. \A j \in Calls : Active(j, c)' => call'[j].pc # "leading"
        BY <1>9
      <4> HIDE DEF Active
      <4> QED
        BY <1>1, <4>1 DEF OldRotationSound
    <3>1. CASE ok /\ t < Family(c)
      <4>1. t # 0 /\ t < Last(c)
        BY <1>3, <1>8, <3>1 DEF Sound, RowFits
      <4>2. persists => row'[c].fresh /\ row'[c].token = t
        BY <1>4, <3>1
      <4>3. ~persists => WillWrite(k, c)' /\ call'[k].got = t
        BY <1>5, <2>1, <2>2, <3>1
      <4> QED
        BY <1>3, <4>1, <4>2, <4>3
    <3>2. CASE ~(ok /\ t < Family(c))
      <4>1. m \in memo
        BY <1>7, <3>2
      <4>2. /\ row[c].fresh /\ row[c].token # 0
            /\ row[c].token = Last(c) => \A j \in Calls : Active(j, c) => call[j].creds < Last(c)
        BY <1>2, <2>1, <4>1 DEF OldRotationSound
      <4>3. ok => t = Last(c) /\ row[c].token < Last(c) /\ AllBefore(c, Last(c))
        BY <1>8, <3>2
      <4> QED
        BY <1>3, <1>4, <1>8, <1>9, <4>2, <4>3 DEF AllBefore
    <3> QED
      BY <3>1, <3>2
  <2> QED
    BY <1>1, <1>9, <2>1, <2>3, <2>4, <2>5 DEF Healthy
<1>16. Spotless(c)'
  <2>1. faults' = {} => faults = {}
    BY <1>1
  <2> QED
    BY <1>1, <1>2, <1>4, <1>8, <1>9, <2>1 DEF Sound, Spotless
<1>17. ASSUME NEW d \in Conns, d # c
       PROVE  Untouched(d)
  BY <1>1, <1>5, <1>6, <1>7, <1>17 DEF Untouched
<1> QED
  BY <1>11, <1>12, <1>13, <1>14, <1>15, <1>16, <1>17 DEF Sound


-----------------------------------------------------------------------------
(* Answered callers.                                                       *)

\* Those who have been answered were told the same, and nobody refreshes meanwhile.
LEMMA AnswersAgree ==
  ASSUME TokenTypeOK, NEW k \in Calls, NEW c \in Conns, c = call[k].conn, Sound(c), OneAnswer, HasReply(k)
  PROVE  /\ mutex[c] = NoCall
         /\ CallFits(k, c) /\ AnswerSound(k, c) /\ RefusalSound(k, c) /\ NotBehind(k, c)
         /\ \A j \in Calls : Active(j, c) =>
               \/ call[j].pc = "ready" /\ call[j].reply = "none"
               \/ HasReply(j) /\ call[j].reply = call[k].reply /\ call[j].got = call[k].got
<1>1. Active(k, c)
  BY DEF HasReply, Active
<1>2. mutex[c] = NoCall
  BY <1>1 DEF Sound, Locked
<1>3. ASSUME NEW j \in Calls, Active(j, c)
      PROVE  \/ call[j].pc = "ready" /\ call[j].reply = "none"
             \/ HasReply(j) /\ call[j].reply = call[k].reply /\ call[j].got = call[k].got
  <2>1. call[j].pc \notin {"idle", "leading", "answered", "joined"} /\ CallFits(j, c)
    BY <1>2, <1>3, TokenAssumption DEF Sound, CallersSound, Locked, Active
  <2>2. call[j].pc \in {"idle", "ready", "joined", "leading", "answered", "served", "told"}
    BY DEF TokenTypeOK, Call
  <2> QED
    BY <2>1, <2>2 DEF CallFits, OneAnswer, HasReply
<1> QED
  BY <1>1, <1>2, <1>3 DEF Sound, CallersSound

\* What is written after a refresh is the newest token, the row's own, or one that
\* a sign-in overtook: no newer token is lost.
LEMMA AcceptReplyKeeps ==
  ASSUME TokenTypeOK, NEW k \in Calls, NEW c \in Conns, c = call[k].conn,
         AcceptReply(k), Sound(c), OneAnswer
  PROVE  Sound(c)' /\ \A d \in Conns \ {c} : Untouched(d)
<1> USE DEF Active, Last, Family
<1> DEFINE t == call[k].got
           writes == ~call[k].saved /\ call[k].kind # "proactive"
<1>14. PICK done \in BOOLEAN :
          IF writes THEN Write(c, WithToken(t), done) ELSE done /\ UNCHANGED <<row, faults>>
  BY DEF AcceptReply
<1>1. /\ server' = server /\ memo' = memo /\ mutex' = mutex
      /\ HasReply(k) /\ call[k].reply = "ok"
      /\ \A d \in Conns \ {c} : row'[d] = row[d]
      /\ IF writes /\ done THEN row'[c].token = t /\ row'[c].fresh /\ row'[c].status = "active"
                           ELSE row'[c] = row[c]
      /\ faults \subseteq faults' /\ ("reauth" \in faults' => "reauth" \in faults)
      /\ IF done THEN faults' = faults ELSE "unsaved" \in faults'
  <2>1. CASE writes
    BY <1>14, <2>1, WriteIs DEF AcceptReply, WithToken
  <2>2. CASE ~writes
    BY <1>14, <2>2 DEF AcceptReply
  <2> QED
    BY <2>1, <2>2
<1>2. call'[k].pc = "idle" /\ \A j \in Calls : j # k => call'[j] = call[j]
  BY DEF AcceptReply, Idle, IdleCall, TokenTypeOK
<1>3. /\ mutex[c] = NoCall
      /\ CallFits(k, c) /\ AnswerSound(k, c) /\ RefusalSound(k, c) /\ NotBehind(k, c)
      /\ \A j \in Calls : Active(j, c) =>
            \/ call[j].pc = "ready" /\ call[j].reply = "none"
            \/ HasReply(j) /\ call[j].reply = call[k].reply /\ call[j].got = t
  BY <1>1, AnswersAgree
<1>4. /\ row[c].token \in Nat /\ Last(c) \in Nat /\ Family(c) \in Nat /\ server[c].valid \in Nat
      /\ \A m \in memo : m.new \in Nat
      /\ \A j \in Calls : call[j].attempted \in Nat /\ call[j].creds \in Nat /\ call[j].got \in Nat
  BY Typed
<1>5. /\ t \in 1..Last(c)
      /\ \/ t = row[c].token
         \/ t = Last(c) /\ AllBefore(c, Last(c))
         \/ t < Family(c)
  BY <1>1, <1>3 DEF CallFits, AnswerSound, HasReply
<1>6. \A j \in Calls : Active(j, c)' =>
         /\ Active(j, c) /\ call'[j] = call[j]
         /\ \/ call[j].pc = "ready" /\ call[j].reply = "none"
            \/ call[j].pc \in {"served", "told"} /\ call[j].reply = "ok" /\ call[j].got = t
  BY <1>1, <1>2, <1>3 DEF HasReply
<1>7. RowFits(c)'
  BY <1>1, <1>4, <1>5 DEF Sound, RowFits
<1>8. Locked(c)'
  BY <1>1, <1>3, <1>6 DEF Locked
<1>9. MemoSound(c)'
  BY <1>1, <1>6 DEF Sound, MemoSound, AllBefore
<1>10. CallersSound(c)'
  <2>1. ASSUME NEW j \in Calls, Active(j, c)'
        PROVE  CallFits(j, c)' /\ RefusalSound(j, c)' /\ AnswerSound(j, c)' /\ NotBehind(j, c)'
    <3>1. CallFits(j, c) /\ RefusalSound(j, c) /\ AnswerSound(j, c) /\ NotBehind(j, c)
      BY <1>6, <2>1 DEF Sound, CallersSound
    <3>2. CallFits(j, c)'
      BY <1>1, <1>6, <2>1, <3>1 DEF CallFits, HasReply
    <3>3. RefusalSound(j, c)'
      <4>1. call[j].attempted = server[c].valid => call[j].attempted = Last(c)
        BY <3>1 DEF Sound, RowFits, CallFits
      <4>2. row'[c].token = row[c].token \/ row'[c].token # Last(c) \/ call[j].attempted < Last(c)
        BY <1>1, <1>4, <1>5, <1>6, <2>1 DEF AllBefore, Sound, RowFits
      <4> QED
        BY <1>1, <1>4, <1>6, <2>1, <3>1, <4>1, <4>2 DEF RefusalSound
    <3>4. AnswerSound(j, c)'
      BY <1>1, <1>5, <1>6, <2>1, <3>1 DEF AnswerSound, AllBefore
    <3>5. NotBehind(j, c)'
      BY <1>1, <1>4, <1>6, <2>1, <3>1 DEF NotBehind, HasReply
    <3> QED
      BY <3>2, <3>3, <3>4, <3>5
  <2> QED
    BY <2>1 DEF CallersSound
<1>11. Healthy(c)'
  <2> SUFFICES ASSUME done
               PROVE  Healthy(c)'
    BY <1>1 DEF Healthy
  <2>1. ASSUME NEW j \in Calls, WillWrite(j, c)
        PROVE  IF j = k THEN writes ELSE WillWrite(j, c)'
    BY <1>2, <2>1 DEF WillWrite
  <2>2. ASSUME RotatedSound(c), Family(c) < Last(c)
        PROVE  RotatedSound(c)'
    <3>1. t = Last(c) \/ t = row[c].token
      BY <1>1, <1>3, <2>2 DEF RotatedSound, HasReply
    <3>2. Covered(c)' \/ \E j \in Calls : WillWrite(j, c)' /\ call'[j].got = Last(c)
      <4>1. CASE writes /\ t = Last(c)
        BY <1>1, <4>1 DEF Covered, Harmless
      <4>2. CASE row'[c].token = row[c].token /\ Covered(c)
        BY <1>1, <1>6, <4>2 DEF Covered, Harmless
      <4>3. CASE ~(writes /\ t = Last(c)) /\ ~Covered(c)
        <5>1. ~Unrevealed(c)
          BY <1>3 DEF Unrevealed, HasReply
        <5>2. PICK j \in Calls : WillWrite(j, c) /\ call[j].got = Last(c)
          BY <2>2, <4>3, <5>1 DEF RotatedSound
        <5> QED
          BY <1>2, <2>1, <4>3, <5>2
      <4> QED
        BY <1>1, <3>1, <4>1, <4>2, <4>3
    <3>3. \A m \in memo' : m.conn = c => m.new = Last(c)
      BY <1>1, <2>2 DEF RotatedSound
    <3> QED
      BY <1>1, <1>6, <3>1, <3>2, <3>3 DEF RotatedSound
  <2>3. ASSUME OldRotationSound(c)
        PROVE  OldRotationSound(c)'
    <3> SUFFICES ASSUME NEW m \in memo, m.conn = c, m.new < Family(c)
                 PROVE  \/ /\ row'[c].fresh /\ row'[c].token # 0
                           /\ row'[c].token = Last(c) =>
                                 \A j \in Calls : Active(j, c)' => call'[j].creds < Last(c)
                        \/ \E j \in Calls : WillWrite(j, c)' /\ call'[j].got < Last(c)
      <4>1. \A j \in Calls : Active(j, c)' => call'[j].pc # "leading"
        BY <1>6
      <4> HIDE DEF Active
      <4> QED
        BY <1>1, <4>1 DEF OldRotationSound
    <3>1. CASE \E j \in Calls : WillWrite(j, c) /\ call[j].got < Last(c)
      <4>1. PICK j \in Calls : WillWrite(j, c) /\ call[j].got < Last(c)
        BY <3>1
      <4>2. CASE j = k
        BY <1>1, <1>4, <1>5, <2>1, <4>1, <4>2
      <4>3. CASE j # k
        BY <1>2, <2>1, <4>1, <4>3
      <4> QED
        BY <4>2, <4>3
    <3>2. CASE /\ row[c].fresh /\ row[c].token # 0
               /\ row[c].token = Last(c) =>
                     \A j \in Calls : Active(j, c) => call[j].creds < Last(c)
      <4>1. t = Last(c) => t = row[c].token \/ AllBefore(c, Last(c))
        BY <1>4, <1>5 DEF Sound, RowFits
      <4>2. CASE writes
        <5>1. t = Last(c) => \A j \in Calls : Active(j, c) => call[j].creds < Last(c)
          BY <3>2, <4>1 DEF AllBefore
        <5>2. row'[c].token = t /\ row'[c].fresh /\ t # 0
          BY <1>1, <1>4, <1>5, <4>2
        <5> QED
          BY <1>6, <5>1, <5>2
      <4>3. CASE ~writes
        BY <1>1, <1>6, <3>2, <4>3
      <4> QED
        BY <4>2, <4>3
    <3> QED
      BY <2>3, <3>1, <3>2 DEF OldRotationSound
  <2>4. Family(c) >= Last(c) => RotatedSound(c)'
    BY <1>1, <1>4 DEF RotatedSound
  <2> QED
    BY <1>1, <1>4, <1>6, <2>2, <2>3, <2>4 DEF Sound, Healthy
<1>12. Spotless(c)'
  <2>1. faults' = {} => faults = {}
    BY <1>1
  <2> QED
    BY <1>1, <1>5, <1>6, <2>1 DEF Sound, Spotless
<1>13. ASSUME NEW d \in Conns, d # c
       PROVE  Untouched(d)
  BY <1>1, <1>2, <1>13 DEF Untouched, HasReply
<1> QED
  BY <1>7, <1>8, <1>9, <1>10, <1>11, <1>12, <1>13 DEF Sound


\* Who got no answer tries again with what it holds, or leaves.
LEMMA MissReplyKeeps ==
  ASSUME TokenTypeOK, NEW k \in Calls, NEW c \in Conns, c = call[k].conn,
         MissReply(k), Sound(c), OneAnswer
  PROVE  Sound(c)' /\ \A d \in Conns \ {c} : Untouched(d)
<1> USE DEF Active, Last, Family
<1>1. /\ row' = row /\ server' = server /\ memo' = memo /\ mutex' = mutex /\ faults' = faults
      /\ HasReply(k) /\ call[k].reply # "ok"
      /\ \A j \in Calls : j # k => call'[j] = call[j]
  <2>1. CASE MayRetry(k)
    BY <2>1 DEF MissReply, RetryOrLeave, TokenTypeOK
  <2>2. CASE ~MayRetry(k)
    BY <2>2 DEF MissReply, RetryOrLeave, Idle, TokenTypeOK
  <2> QED
    BY <2>1, <2>2
<1>2. \/ call'[k].pc = "idle"
      \/ /\ call'[k].pc = "ready" /\ call'[k].conn = c /\ call'[k].reply = "none"
         /\ call'[k].attempted = call[k].attempted /\ call'[k].creds = call[k].creds
         /\ call'[k].gone = call[k].gone
  <2>1. CASE MayRetry(k)
    BY <2>1 DEF MissReply, RetryOrLeave, RetriedCall, TokenTypeOK, Call
  <2>2. CASE ~MayRetry(k)
    BY <2>2 DEF MissReply, RetryOrLeave, Idle, IdleCall, TokenTypeOK
  <2> QED
    BY <2>1, <2>2
<1>3. /\ mutex[c] = NoCall /\ CallFits(k, c) /\ RefusalSound(k, c)
      /\ \A j \in Calls : Active(j, c) =>
            \/ call[j].pc = "ready" /\ call[j].reply = "none"
            \/ HasReply(j) /\ call[j].reply = call[k].reply
  BY <1>1, AnswersAgree
<1>4. \A j \in Calls : Active(j, c)' =>
         /\ Active(j, c) /\ call'[j].reply # "ok"
         /\ call'[j].reply = "dead" => call'[j] = call[j]
         /\ call'[j].pc \in {"ready", "served", "told"}
         /\ call'[j].attempted = call[j].attempted /\ call'[j].creds = call[j].creds
  BY <1>1, <1>2, <1>3 DEF HasReply
<1>5. RowFits(c)'
  BY <1>1 DEF Sound, RowFits
<1>6. Locked(c)'
  BY <1>1, <1>3, <1>4 DEF Locked
<1>7. MemoSound(c)'
  BY <1>1, <1>4 DEF Sound, MemoSound, AllBefore
<1>8. CallersSound(c)'
  <2>1. ASSUME NEW j \in Calls, Active(j, c)'
        PROVE  CallFits(j, c)' /\ RefusalSound(j, c)' /\ AnswerSound(j, c)' /\ NotBehind(j, c)'
    <3>1. CallFits(j, c) /\ RefusalSound(j, c)
      BY <1>4, <2>1 DEF Sound, CallersSound
    <3>2. CallFits(j, c)'
      BY <1>1, <1>2, <1>3, <2>1, <3>1 DEF CallFits, HasReply
    <3>3. RefusalSound(j, c)' /\ AnswerSound(j, c)' /\ NotBehind(j, c)'
      BY <1>1, <1>4, <2>1, <3>1 DEF RefusalSound, AnswerSound, NotBehind
    <3> QED
      BY <3>2, <3>3
  <2> QED
    BY <2>1 DEF CallersSound
<1>9. \A j \in Calls : ~WillWrite(j, c)
  BY <1>1, <1>3 DEF WillWrite, HasReply
<1>10. Healthy(c)'
  <2>1. ASSUME RotatedSound(c), Family(c) < Last(c)
        PROVE  RotatedSound(c)'
    <3>1. Covered(c)
      BY <1>3, <1>9, <2>1 DEF RotatedSound, Unrevealed, HasReply
    <3>2. Covered(c)'
      BY <1>1, <1>4, <3>1 DEF Covered, Harmless
    <3>3. \A m \in memo' : m.conn = c => m.new = Last(c)
      BY <1>1, <2>1 DEF RotatedSound
    <3> QED
      BY <1>1, <1>4, <2>1, <3>2, <3>3 DEF RotatedSound
  <2>2. OldRotationSound(c) => OldRotationSound(c)'
    BY <1>1, <1>4, <1>9 DEF OldRotationSound
  <2>3. \A j \in Calls : Active(j, c)' => call'[j].pc # "leading"
    BY <1>4
  <2>4. server[c].issued \in Nat /\ server[c].family \in Nat
    BY Typed
  <2>5. Family(c) >= Last(c) => RotatedSound(c)'
    BY <1>1, <2>4 DEF RotatedSound
  <2> QED
    BY <1>1, <2>1, <2>2, <2>3, <2>4, <2>5 DEF Sound, Healthy
<1>11. Spotless(c)'
  BY <1>1, <1>4 DEF Sound, Spotless
<1>12. ASSUME NEW d \in Conns, d # c
       PROVE  Untouched(d)
  BY <1>1, <1>2, <1>12 DEF Untouched, HasReply
<1> QED
  BY <1>5, <1>6, <1>7, <1>8, <1>10, <1>11, <1>12 DEF Sound

\* A refusal clears the stored token only when it is not the valid one.
LEMMA SufferRefusalKeeps ==
  ASSUME TokenTypeOK, NEW k \in Calls, NEW c \in Conns, c = call[k].conn,
         SufferRefusal(k), Sound(c), OneAnswer
  PROVE  Sound(c)' /\ \A d \in Conns \ {c} : Untouched(d)
<1> USE DEF Active, Last, Family
<1>1. /\ server' = server /\ memo' = memo /\ mutex' = mutex /\ faults' = faults
      /\ HasReply(k) /\ call[k].reply = "dead"
      /\ \A d \in Conns \ {c} : row'[d] = row[d]
      /\ call'[k].pc = "idle" /\ \A j \in Calls : j # k => call'[j] = call[j]
  BY DEF SufferRefusal, Idle, IdleCall, TokenTypeOK
<1>2. /\ row[c].token \in Nat /\ Last(c) \in Nat /\ Family(c) \in Nat
      /\ \A m \in memo : m.new \in Nat
      /\ \A j \in Calls : call[j].attempted \in Nat /\ call[j].creds \in Nat
  BY Typed
<1>3. /\ mutex[c] = NoCall /\ CallFits(k, c) /\ RefusalSound(k, c)
      /\ \A j \in Calls : Active(j, c) =>
            \/ call[j].pc = "ready" /\ call[j].reply = "none"
            \/ HasReply(j) /\ call[j].reply = "dead"
  BY <1>1, AnswersAgree
<1>4. /\ row'[c].fresh = row[c].fresh
      /\ \/ row'[c].token = row[c].token /\ (row[c].token = 0 => row'[c].status = "expired")
         \/ ~row[c].fresh /\ row'[c].token = 0 /\ row'[c].status = "expired"
  <2>1. row[c].token = 0 => row[c].status = "expired"
    BY DEF Sound, RowFits
  <2>2. row'[c] = row[c] \/ (StillHeld(k) /\ row'[c] = GiveUpAccount(k, row[c]))
    BY DEF SufferRefusal, TokenTypeOK
  <2>3. row[c] \in Row /\ call[k].kind \in Kinds
    BY DEF TokenTypeOK, Call
  <2>4. CASE row'[c] = row[c]
    BY <2>1, <2>4
  <2>5. CASE StillHeld(k) /\ row'[c] = GiveUpAccount(k, row[c])
    <3>1. call[k].kind = "request" \/ row[c].token # 0
      BY <1>2, <1>3, <2>5 DEF StillHeld, CallFits
    <3>2. CASE call[k].kind = "request"
      BY <2>3, <2>5, <3>2 DEF GiveUpAccount, Row
    <3>3. CASE call[k].kind = "sweep"
      BY <2>3, <2>5, <3>1, <3>3 DEF GiveUpAccount, Row
    <3>4. CASE call[k].kind \notin {"request", "sweep"}
      BY <2>1, <2>5, <3>4 DEF GiveUpAccount
    <3> QED
      BY <3>2, <3>3, <3>4
  <2> QED
    BY <2>2, <2>4, <2>5
<1>5. \A j \in Calls : Active(j, c)' =>
         /\ Active(j, c) /\ call'[j] = call[j] /\ call[j].reply # "ok"
         /\ call[j].pc \in {"ready", "served", "told"}
  BY <1>1, <1>3 DEF HasReply
<1>6. RowFits(c)'
  BY <1>1, <1>2, <1>4 DEF Sound, RowFits
<1>7. Locked(c)'
  BY <1>1, <1>3, <1>5 DEF Locked
<1>8. MemoSound(c)'
  BY <1>1, <1>2, <1>4, <1>5 DEF Sound, MemoSound, AllBefore
<1>9. CallersSound(c)'
  <2>1. ASSUME NEW j \in Calls, Active(j, c)'
        PROVE  CallFits(j, c)' /\ RefusalSound(j, c)' /\ AnswerSound(j, c)' /\ NotBehind(j, c)'
    <3>1. CallFits(j, c) /\ RefusalSound(j, c)
      BY <1>5, <2>1 DEF Sound, CallersSound
    <3>2. CallFits(j, c)' /\ AnswerSound(j, c)' /\ NotBehind(j, c)'
      BY <1>1, <1>5, <2>1, <3>1 DEF CallFits, AnswerSound, NotBehind
    <3>3. RefusalSound(j, c)'
      BY <1>1, <1>2, <1>4, <1>5, <2>1, <3>1 DEF CallFits, RefusalSound
    <3> QED
      BY <3>2, <3>3
  <2> QED
    BY <2>1 DEF CallersSound
<1>10. \A j \in Calls : ~WillWrite(j, c)
  BY <1>3 DEF WillWrite
<1>11. Healthy(c)'
  <2>1. ASSUME RotatedSound(c), Family(c) < Last(c)
        PROVE  RotatedSound(c)'
    <3>1. Covered(c) /\ row[c].token # Last(c)
      BY <1>1, <1>3, <1>10, <2>1 DEF RotatedSound, Unrevealed, HasReply
    <3>2. Covered(c)'
      <4>1. 0 < Family(c)
        BY <1>2 DEF Sound, RowFits
      <4>2. Harmless(c, row'[c].token)
        BY <1>2, <1>4, <3>1, <4>1 DEF Covered, Harmless
      <4>3. \A j \in Calls : Active(j, c)' => Harmless(c, call'[j].creds)
        BY <1>5, <3>1 DEF Covered
      <4> QED
        BY <1>1, <4>2, <4>3 DEF Covered, Harmless
    <3>3. row'[c].token # Last(c)
      BY <1>2, <1>4, <2>1, <3>1
    <3>4. \A m \in memo' : m.conn = c => m.new = Last(c)
      BY <1>1, <2>1 DEF RotatedSound
    <3> QED
      BY <1>1, <1>5, <3>2, <3>3, <3>4 DEF RotatedSound
  <2>2. OldRotationSound(c) => OldRotationSound(c)'
    BY <1>1, <1>2, <1>4, <1>5, <1>10 DEF OldRotationSound
  <2>3. \A j \in Calls : Active(j, c)' => call'[j].pc # "leading"
    BY <1>5
  <2>4. Family(c) >= Last(c) => RotatedSound(c)'
    BY <1>1, <1>2 DEF RotatedSound
  <2> QED
    BY <1>1, <1>2, <2>1, <2>2, <2>3, <2>4 DEF Sound, Healthy
<1>12. Spotless(c)'
  BY <1>1, <1>3 DEF Sound, Spotless, HasReply
<1>13. ASSUME NEW d \in Conns, d # c
       PROVE  Untouched(d)
  BY <1>1, <1>13 DEF Untouched, HasReply
<1> QED
  BY <1>6, <1>7, <1>8, <1>9, <1>11, <1>12, <1>13 DEF Sound


-----------------------------------------------------------------------------
(* Time and the operator.                                                  *)

\* The token of a remembered rotation does not become due, so no step of time can
\* lead a caller back to it.
LEMMA ExpireKeeps ==
  ASSUME TokenTypeOK, ~QuickRotations, NEW c \in Conns, Expire(c), Sound(c)
  PROVE  Sound(c)' /\ \A d \in Conns \ {c} : Untouched(d)
<1> USE DEF Active, Last, Family
<1>1. /\ server' = server /\ memo' = memo /\ mutex' = mutex /\ faults' = faults /\ call' = call
      /\ \A d \in Conns \ {c} : row'[d] = row[d]
      /\ row'[c].token = row[c].token /\ row'[c].status = row[c].status
      /\ Quiet /\ \A m \in memo : m.conn # c
  BY DEF Expire, Recent, TokenTypeOK, Row
<1>2. RowFits(c)'
  BY <1>1 DEF Sound, RowFits
<1>3. Locked(c)'
  BY <1>1 DEF Sound, Locked, HasReply
<1>4. MemoSound(c)'
  BY <1>1 DEF MemoSound
<1>5. CallersSound(c)'
  <2>1. ASSUME NEW j \in Calls, Active(j, c)'
        PROVE  CallFits(j, c)' /\ RefusalSound(j, c)' /\ AnswerSound(j, c)' /\ NotBehind(j, c)'
    <3>1. CallFits(j, c) /\ RefusalSound(j, c) /\ AnswerSound(j, c) /\ NotBehind(j, c)
      BY <1>1, <2>1 DEF Sound, CallersSound
    <3>2. CallFits(j, c)' /\ RefusalSound(j, c)' /\ NotBehind(j, c)'
      BY <1>1, <3>1 DEF CallFits, RefusalSound, NotBehind, HasReply
    <3>3. AnswerSound(j, c)'
      BY <1>1, <3>1 DEF AnswerSound, AllBefore
    <3> QED
      BY <3>2, <3>3
  <2> QED
    BY <2>1 DEF CallersSound
<1>6. Healthy(c)'
  <2>1. RotatedSound(c) => RotatedSound(c)'
    BY <1>1 DEF RotatedSound, Unrevealed, Covered, WillWrite, Harmless
  <2>2. OldRotationSound(c)'
    BY <1>1 DEF OldRotationSound
  <2> QED
    BY <1>1, <2>1, <2>2 DEF Sound, Healthy, Harmless
<1>7. Spotless(c)'
  BY <1>1 DEF Sound, Spotless
<1>8. \A d \in Conns \ {c} : Untouched(d)
  BY <1>1 DEF Untouched
<1> QED
  BY <1>2, <1>3, <1>4, <1>5, <1>6, <1>7, <1>8 DEF Sound

\* A sign-in begins a family of its own: what anybody holds is older.
LEMMA ReauthenticateKeeps ==
  ASSUME TokenTypeOK, NEW c \in Conns, Reauthenticate(c), Sound(c)
  PROVE  Sound(c)' /\ \A d \in Conns \ {c} : Untouched(d)
<1> USE DEF Active, Last, Family
<1> DEFINE new == Last(c) + 1
<1>1. /\ memo' = memo /\ mutex' = mutex /\ faults' = faults \cup {"reauth"} /\ call' = call
      /\ \A d \in Conns \ {c} : row'[d] = row[d] /\ server'[d] = server[d]
      /\ row'[c].token = new /\ row'[c].fresh /\ row'[c].status = "active"
      /\ server'[c].issued = new /\ server'[c].valid = new /\ server'[c].family = new
      /\ Quiet
  BY DEF Reauthenticate, Happens, WithToken, TokenTypeOK
<1>2. /\ Last(c) \in Nat /\ Family(c) \in Nat
      /\ \A m \in memo : m.new \in Nat
      /\ \A j \in Calls : call[j].attempted \in Nat /\ call[j].creds \in Nat /\ call[j].got \in Nat
  BY Typed
<1>3. RowFits(c)'
  BY <1>1, <1>2 DEF RowFits
<1>4. Locked(c)'
  BY <1>1 DEF Sound, Locked, HasReply
<1>5. \A m \in memo : m.conn = c => m.new \in 1..Last(c)
  BY DEF Sound, MemoSound
<1>6. MemoSound(c)'
  BY <1>1, <1>2, <1>5 DEF MemoSound
<1>7. \A j \in Calls : Active(j, c) => CallFits(j, c)
  BY DEF Sound, CallersSound
<1>8. CallersSound(c)'
  <2>1. ASSUME NEW j \in Calls, Active(j, c)'
        PROVE  CallFits(j, c)' /\ RefusalSound(j, c)' /\ AnswerSound(j, c)' /\ NotBehind(j, c)'
    <3>1. CallFits(j, c) /\ RefusalSound(j, c)
      BY <1>1, <2>1 DEF Sound, CallersSound
    <3>2. CallFits(j, c)'
      BY <1>1, <1>2, <3>1 DEF CallFits
    <3>3. RefusalSound(j, c)' /\ NotBehind(j, c)'
      BY <1>1, <1>2, <3>1 DEF CallFits, RefusalSound, NotBehind
    <3>4. AnswerSound(j, c)'
      BY <1>1, <1>2, <2>1, <3>1 DEF CallFits, AnswerSound, Quiet, HasReply
    <3> QED
      BY <3>2, <3>3, <3>4
  <2> QED
    BY <2>1 DEF CallersSound
<1>9. Healthy(c)'
  <2>1. RotatedSound(c)'
    BY <1>1, <1>2 DEF RotatedSound
  <2>2. OldRotationSound(c)'
    BY <1>1, <1>2, <1>7 DEF OldRotationSound, CallFits
  <2> QED
    BY <1>1, <1>2, <1>7, <2>1, <2>2 DEF Healthy, Harmless, CallFits
<1>10. Spotless(c)'
  BY <1>1 DEF Spotless
<1>11. \A d \in Conns \ {c} : Untouched(d)
  BY <1>1 DEF Untouched
<1> QED
  BY <1>3, <1>4, <1>6, <1>8, <1>9, <1>10, <1>11 DEF Sound

\* Forgetting rotations takes away redirections, and what is known of them.
LEMMA ForgetKeeps ==
  ASSUME NEW m \in memo, ForgetRotation(m)
  PROVE  \A d \in Conns : Untouched(d)
BY DEF ForgetRotation, Untouched, Active

-----------------------------------------------------------------------------
(* The invariant.                                                          *)

\* Answers begin where nobody has one.
LEMMA OneAnswerStays ==
  ASSUME TokenTypeOK, Undivided, OneAnswer, Next
  PROVE  OneAnswer'
<1> USE DEF OneAnswer
<1>1. CASE \A j \in Calls : HasReply(j)' => HasReply(j) /\ call'[j] = call[j]
  BY <1>1
<1>2. ASSUME NEW k \in Calls, NEW t, Quiet, AnswerAtOnce(k, t)
      PROVE  OneAnswer'
  <2>1. \A j \in Calls : HasReply(j)' => j = k
    BY <1>2 DEF AnswerAtOnce, AtOnce, Quiet, HasReply, TokenTypeOK
  <2> QED
    BY <2>1
<1>3. ASSUME NEW k \in Calls, Conclude(k)
      PROVE  OneAnswer'
  <2>1. ASSUME NEW j \in Calls, HasReply(j)'
        PROVE  /\ call'[j].conn = call[k].conn /\ call'[j].reply = call[k].reply
               /\ call'[j].got = call[k].got
    <3>1. PICK done \in BOOLEAN : call' = Served(k, done)
      BY <1>3 DEF Conclude
    <3>2. call[j].pc \notin {"served", "told"} /\ call[k].pc = "answered"
      BY <1>3 DEF Conclude, Quiet, HasReply
    <3>3. call[j] \in Call /\ call[k] \in Call
      BY DEF TokenTypeOK
    <3> DEFINE ran == call[k].reply = "ok" /\ Ran(k, done)
    <3>4. CASE j = k
      <4>1. call'[j] = IF call[k].gone THEN IdleCall(call[k].conn)
                       ELSE [call[k] EXCEPT !.pc = "served", !.saved = ran]
        BY <3>1, <3>2, <3>4, LeaderServed
      <4>2. call'[j] = [call[k] EXCEPT !.pc = "served", !.saved = ran]
        BY <2>1, <4>1 DEF HasReply, IdleCall
      <4> HIDE DEF ran
      <4> QED
        BY <3>3, <4>2 DEF Call
    <3>5. CASE j # k
      <4>1. call'[j] = IF call[j].pc = "joined" /\ call[j].conn = call[k].conn
                       THEN [call[j] EXCEPT !.pc = "told", !.reply = call[k].reply, !.got = call[k].got]
                       ELSE call[j]
        <5>1. call'[j] = Told(j, k)
          BY <3>1, <3>5, OthersTold
        <5> QED
          BY <5>1 DEF Told
      <4>2. /\ call'[j] = [call[j] EXCEPT !.pc = "told", !.reply = call[k].reply, !.got = call[k].got]
            /\ call[j].conn = call[k].conn
        BY <2>1, <3>2, <4>1 DEF HasReply
      <4> QED
        BY <3>3, <4>2 DEF Call
    <3> QED
      BY <3>4, <3>5
  <2> QED
    BY <2>1
<1>4. ASSUME NEW k \in Calls, NEW c \in Conns, NEW kind, Load(k, c, kind)
      PROVE  OneAnswer'
  BY <1>1, <1>4 DEF Load, IdleCall, HasReply, TokenTypeOK
<1>10. ASSUME NEW k \in Calls, call' = RetryOrLeave(k)
       PROVE  \A j \in Calls : HasReply(j)' => HasReply(j) /\ call'[j] = call[j]
  BY <1>10 DEF RetryOrLeave, RetriedCall, Idle, IdleCall, HasReply, TokenTypeOK, Call
<1>5. ASSUME NEW k \in Calls, Join(k) \/ Lead(k) \/ GiveUp(k)
      PROVE  OneAnswer'
  <2>1. CASE call' = RetryOrLeave(k)
    BY <1>1, <1>10, <2>1
  <2>2. CASE call' # RetryOrLeave(k)
    BY <1>1, <1>5, <2>2 DEF Join, Lead, Alone, GiveUp, Quiet, HasReply, TokenTypeOK, Call
  <2> QED
    BY <2>1, <2>2
<1>11. ASSUME NEW k \in Calls, Overlap(k)
       PROVE  OneAnswer'
  <2>1. \A j \in Calls : ~HasReply(j)'
    BY <1>11 DEF Overlap, RetriedCall, Quiet, HasReply, TokenTypeOK, Call
  <2> QED
    BY <2>1
<1>6. ASSUME NEW k \in Calls, Grants(k) \/ Refuses(k) \/ Unreachable(k)
      PROVE  OneAnswer'
  BY <1>1, <1>6 DEF Grants, Refuses, Unreachable, Answer, Waits, Quiet, HasReply, TokenTypeOK, Call
<1>7. ASSUME NEW k \in Calls, AcceptReply(k) \/ MissReply(k) \/ SufferRefusal(k)
      PROVE  OneAnswer'
  BY <1>1, <1>7, <1>10 DEF AcceptReply, MissReply, SufferRefusal, Idle, IdleCall, HasReply, TokenTypeOK, Call
<1>8. ASSUME call' = call
      PROVE  OneAnswer'
  BY <1>1, <1>8 DEF HasReply
<1>9. ASSUME NEW k \in Calls, Refreshes(k)
      PROVE  OneAnswer'
  BY <1>2, <1>3, <1>5, <1>6, <1>7, <1>9 DEF Refreshes, ReuseRotation, UseStoredToken, Alone
<1> QED
  BY <1>4, <1>5, <1>8, <1>9, <1>11 DEF Next, Expire, Reauthenticate, ForgetRotation

\* Only an overlap splits a request in two, and who has persisted is answered.
LEMMA UndividedStays ==
  ASSUME "overlap" \notin Faults, TokenTypeOK, Undivided, Next
  PROVE  Undivided'
<1>14. TokenTypeOK /\ Undivided
  OBVIOUS
<1> USE DEF Undivided
<1>1. \A j \in Calls : call[j] \in Call
  BY DEF TokenTypeOK
<1>4. ASSUME NEW k \in Calls, NEW c \in Conns, NEW kind, Load(k, c, kind)
      PROVE  Undivided'
  BY <1>1, <1>4 DEF Load, IdleCall, TokenTypeOK
<1>5. ASSUME NEW k \in Calls, Join(k) \/ Lead(k)
      PROVE  Undivided'
  BY <1>1, <1>5 DEF Join, Lead, Alone, Call, TokenTypeOK
<1>6. ASSUME NEW k \in Calls, NEW t, AnswerAtOnce(k, t)
      PROVE  Undivided'
  BY <1>1, <1>6 DEF AnswerAtOnce, AtOnce, Call, TokenTypeOK
<1>7. ASSUME NEW k \in Calls, Grants(k) \/ Refuses(k) \/ Unreachable(k)
      PROVE  Undivided'
  BY <1>1, <1>7 DEF Grants, Refuses, Unreachable, Answer, Waits, Call, TokenTypeOK
<1>8. ASSUME NEW k \in Calls, Conclude(k)
      PROVE  Undivided'
  <2>1. PICK done \in BOOLEAN : call' = Served(k, done)
    BY <1>8 DEF Conclude
  <2>2. call[k].pc = "answered"
    BY <1>8 DEF Conclude
  <2> DEFINE ran == call[k].reply = "ok" /\ Ran(k, done)
  <2>3. ASSUME NEW j \in Calls
        PROVE  /\ call'[j].left = NoCall
               /\ call'[j].saved => call'[j].pc = "served" /\ call'[j].reply = "ok"
    <3>1. ran => call[k].reply = "ok"
      OBVIOUS
    <3>2. CASE j = k
      <4>1. call'[j] = IF call[k].gone THEN IdleCall(call[k].conn)
                       ELSE [call[k] EXCEPT !.pc = "served", !.saved = ran]
        BY <1>14, <2>1, <2>2, <3>2, LeaderServed
      <4> HIDE DEF ran
      <4> QED
        BY <1>1, <3>1, <3>2, <4>1 DEF IdleCall, Call
    <3>3. CASE j # k
      <4>1. call'[j] = Told(j, k)
        BY <1>14, <2>1, <3>3, OthersTold
      <4> QED
        BY <1>1, <4>1 DEF Told, Call
    <3> QED
      BY <3>2, <3>3
  <2> QED
    BY <2>3
<1>9. ASSUME NEW k \in Calls, call' = Idle(k)
      PROVE  Undivided'
  BY <1>1, <1>9 DEF Idle, IdleCall, TokenTypeOK
<1>10. ASSUME NEW k \in Calls, ~call[k].saved, call' = RetryOrLeave(k)
       PROVE  Undivided'
  BY <1>1, <1>9, <1>10 DEF RetryOrLeave, RetriedCall, Call, TokenTypeOK
<1>11. ASSUME NEW k \in Calls, GiveUp(k)
       PROVE  Undivided'
  <2>1. CASE call[k].pc = "joined"
    BY <1>10, <1>11, <2>1 DEF GiveUp
  <2>2. CASE call[k].pc # "joined"
    BY <1>1, <1>11, <2>2 DEF GiveUp, Call, TokenTypeOK
  <2> QED
    BY <2>1, <2>2
<1>12. ASSUME NEW k \in Calls, Refreshes(k)
       PROVE  Undivided'
  BY <1>5, <1>6, <1>7, <1>8, <1>9, <1>10, <1>12
     DEF Refreshes, ReuseRotation, UseStoredToken, AcceptReply, MissReply, SufferRefusal
<1>13. \A k \in Calls : ~Overlap(k)
  BY DEF Overlap, Happens
<1> QED
  BY <1>4, <1>11, <1>12, <1>13 DEF Next, Expire, Reauthenticate, ForgetRotation

\* Each step leaves the connection it concerns sound.
LEMMA StepKeepsInv ==
  ASSUME ~QuickRotations, "overlap" \notin Faults, TokenInv, [Next]_vars
  PROVE  TokenInv'
<1>1. TokenTypeOK /\ TokenTypeOK' /\ Undivided /\ OneAnswer /\ \A c \in Conns : Sound(c)
  BY TypesStay DEF TokenInv
<1>2. ASSUME NEW c \in Conns, Sound(c)' /\ \A d \in Conns \ {c} : Untouched(d),
             OneAnswer', Undivided'
      PROVE  TokenInv'
  BY <1>1, <1>2, OthersStaySound DEF TokenInv
<1>3. ASSUME \A d \in Conns : Untouched(d), OneAnswer', Undivided'
      PROVE  TokenInv'
  BY <1>1, <1>3, OthersStaySound DEF TokenInv
<1>4. CASE UNCHANGED vars
  <2>1. OneAnswer' /\ Undivided'
    BY <1>1, <1>4 DEF OneAnswer, Undivided, HasReply, vars, tokenVars
  <2>2. \A d \in Conns : Untouched(d)
    BY <1>4 DEF Untouched, Active, vars, tokenVars
  <2> QED
    BY <1>3, <2>1, <2>2
<1> SUFFICES ASSUME Next
             PROVE  TokenInv'
  BY <1>4
<1>5. OneAnswer' /\ Undivided'
  BY <1>1, OneAnswerStays, UndividedStays
<1>10. \A k \in Calls : ~Overlap(k)
  BY DEF Overlap, Happens
<1>6. ASSUME NEW k \in Calls, NEW c \in Conns,
             NEW kind \in Kinds, Load(k, c, kind)
      PROVE  TokenInv'
  BY <1>1, <1>2, <1>5, <1>6, LoadKeeps
<1>7. ASSUME NEW k \in Calls, Refreshes(k) \/ GiveUp(k)
      PROVE  TokenInv'
  <2>1. call[k].conn \in Conns
    BY <1>1 DEF TokenTypeOK, Call
  <2>2. CASE Join(k)
    BY <1>1, <1>2, <1>5, <2>1, <2>2, JoinKeeps
  <2>3. CASE ReuseRotation(k) \/ UseStoredToken(k)
    BY <1>1, <1>2, <1>5, <2>1, <2>3, AnswerAtOnceKeeps
  <2>4. CASE Lead(k)
    BY <1>1, <1>2, <1>5, <2>1, <2>4, LeadKeeps
  <2>5. CASE Conclude(k)
    BY <1>1, <1>2, <1>5, <2>1, <2>5, ConcludeKeeps
  <2>6. CASE Grants(k)
    BY <1>1, <1>2, <1>5, <2>1, <2>6, GrantsKeeps
  <2>7. CASE Refuses(k)
    BY <1>1, <1>2, <1>5, <2>1, <2>7, RefusesKeeps
  <2>8. CASE Unreachable(k)
    BY <1>1, <1>2, <1>5, <2>1, <2>8, UnreachableKeeps
  <2>9. CASE AcceptReply(k)
    BY <1>1, <1>2, <1>5, <2>1, <2>9, AcceptReplyKeeps
  <2>10. CASE MissReply(k)
    BY <1>1, <1>2, <1>5, <2>1, <2>10, MissReplyKeeps
  <2>11. CASE SufferRefusal(k)
    BY <1>1, <1>2, <1>5, <2>1, <2>11, SufferRefusalKeeps
  <2>12. CASE GiveUp(k)
    BY <1>1, <1>2, <1>5, <2>1, <2>12, GiveUpKeeps
  <2> QED
    BY <1>7, <2>2, <2>3, <2>4, <2>5, <2>6, <2>7, <2>8, <2>9, <2>10, <2>11, <2>12 DEF Refreshes
<1>8. ASSUME NEW c \in Conns, Expire(c) \/ Reauthenticate(c)
      PROVE  TokenInv'
  BY <1>1, <1>2, <1>5, <1>8, ExpireKeeps, ReauthenticateKeeps
<1>9. ASSUME NEW m \in memo, ForgetRotation(m)
      PROVE  TokenInv'
  BY <1>3, <1>5, <1>9, ForgetKeeps
<1> QED
  BY <1>6, <1>7, <1>8, <1>9, <1>10 DEF Next


\* At first every row holds the one token issued, and nobody refreshes.
LEMMA InitFits ==
  Init => TokenInv
<1> SUFFICES ASSUME Init
             PROVE  TokenInv
  OBVIOUS
<1>1. 0 \in Token /\ 1 \in Token /\ 1 \in 1..Attempts
  BY TokenAssumption DEF Token
<1>2. \A k \in Calls : call[k].pc = "idle"
  BY DEF Init, IdleCall
<1>3. ASSUME NEW c \in Conns
      PROVE  Sound(c)
  <2>1. /\ row[c].token = 1 /\ row[c].status = "active" /\ mutex[c] = NoCall /\ memo = {}
        /\ server[c].issued = 1 /\ server[c].valid = 1 /\ server[c].family = 1
    BY DEF Init
  <2>2. RowFits(c)
    BY <2>1 DEF RowFits, Last, Family
  <2>3. Locked(c) /\ MemoSound(c) /\ CallersSound(c) /\ Spotless(c)
    BY <1>2, <2>1 DEF Locked, MemoSound, CallersSound, Spotless, Active
  <2>4. Healthy(c)
    BY <1>2, <2>1 DEF Healthy, RotatedSound, OldRotationSound, Active, Last, Family
  <2> QED
    BY <2>2, <2>3, <2>4 DEF Sound
<1>4. TokenTypeOK
  <2>1. call \in [Calls -> Call]
    <3>1. (CHOOSE c \in Conns : TRUE) \in Conns
      BY TokenAssumption
    <3>2. IdleCall(CHOOSE c \in Conns : TRUE) \in Call
      BY <1>1, <3>1 DEF IdleCall, Call, Kinds
    <3> QED
      BY <3>2 DEF Init
  <2>2. row \in [Conns -> Row] /\ server \in [Conns -> Server]
    BY <1>1 DEF Init, Row, Server
  <2> QED
    BY <2>1, <2>2 DEF TokenTypeOK, Init, Rotation
<1>5. OneAnswer /\ Undivided
  BY <1>2 DEF OneAnswer, Undivided, HasReply, Init, IdleCall
<1> QED
  BY <1>3, <1>4, <1>5 DEF TokenInv


\* What a step may do to a row: a token is written that is no older unless a
\* sign-in overtook it, the row expires, or a refusal is suffered.
LEMMA RowSteps ==
  ASSUME TokenInv, [Next]_vars, NEW c \in Conns
  PROVE  \/ row'[c].token = row[c].token /\ row'[c].status = row[c].status
         \/ /\ row'[c].status = "active"
            /\ "reauth" \notin faults => row'[c].token >= row[c].token
         \/ \E k \in Calls : call[k].conn = c /\ SufferRefusal(k)
<1> DEFINE Kept == row'[c].token = row[c].token /\ row'[c].status = row[c].status
           Written == /\ row'[c].status = "active"
                      /\ "reauth" \notin faults => row'[c].token >= row[c].token
<1>1. /\ TokenTypeOK /\ OneAnswer /\ Sound(c) /\ RowFits(c)
      /\ row[c].token \in Nat /\ Last(c) \in Nat /\ row[c].token <= Last(c)
      /\ "reauth" \notin faults => Family(c) = 1
  BY Typed DEF TokenInv, Sound, RowFits, Last
<1> USE DEF Last, Family
<1>2. CASE row'[c] = row[c]
  BY <1>2
<1>3. ASSUME NEW k \in Calls, Alone(k), NEW t, AnswerAtOnce(k, t),
             (\E m \in memo : m.conn = call[k].conn /\ m.new = t) \/ t = row[call[k].conn].token
      PROVE  Kept \/ Written
  <2>1. CASE row'[c] = row[c]
    BY <2>1
  <2>2. CASE row'[c] # row[c]
    <3>1. call[k].conn = c /\ row'[c] = WithToken(t)
      <4>1. PICK done \in BOOLEAN : Persist(k, t, done)
        BY <1>3 DEF AnswerAtOnce
      <4> QED
        BY <1>1, <2>2, <4>1, PersistIs, Typed
    <3>2. t \in Nat /\ ((t < Family(c) /\ t # 0) \/ t = Last(c) \/ t = row[c].token)
      BY <1>1, <1>3, <3>1 DEF Sound, MemoSound
    <3> QED
      BY <1>1, <3>1, <3>2 DEF WithToken
  <2> QED
    BY <2>1, <2>2
<1>4. ASSUME NEW k \in Calls, Conclude(k)
      PROVE  Kept \/ Written
  <2>1. CASE row'[c] = row[c]
    BY <2>1
  <2>2. CASE row'[c] # row[c]
    <3>1. call[k].conn = c /\ call[k].reply = "ok" /\ row'[c] = WithToken(call[k].got)
      <4>1. PICK done \in BOOLEAN :
               IF call[k].reply = "ok" THEN Persist(k, call[k].got, done) ELSE row' = row
        BY <1>4 DEF Conclude
      <4>2. call[k].reply = "ok" /\ Persist(k, call[k].got, done)
        BY <2>2, <4>1
      <4> QED
        BY <1>1, <2>2, <4>2, PersistIs, Typed
    <3>2. Quiet /\ call[k].pc = "answered"
      BY <1>4 DEF Conclude
    <3>3. CallFits(k, c) /\ AnswerSound(k, c)
      BY <1>1, <3>1, <3>2, OneLeads
    <3>4. call[k].got \in 1..Last(c) /\ (call[k].got < Family(c) \/ call[k].got = Last(c))
      BY <3>1, <3>2, <3>3 DEF CallFits, AnswerSound
    <3> QED
      BY <1>1, <3>1, <3>4 DEF WithToken
  <2> QED
    BY <2>1, <2>2
<1>5. ASSUME NEW k \in Calls, AcceptReply(k)
      PROVE  Kept \/ Written
  <2>1. CASE row'[c] = row[c]
    BY <2>1
  <2>2. CASE row'[c] # row[c]
    <3>1. call[k].conn = c /\ row'[c] = WithToken(call[k].got)
      <4>1. PICK done \in BOOLEAN : Write(call[k].conn, WithToken(call[k].got), done)
        BY <1>5, <2>2 DEF AcceptReply
      <4> QED
        BY <1>1, <2>2, <4>1, WriteIs, Typed
    <3>2. HasReply(k) /\ call[k].reply = "ok"
      BY <1>5 DEF AcceptReply
    <3>3. NotBehind(k, c)
      BY <1>1, <3>1, <3>2, AnswersAgree
    <3> QED
      BY <3>1, <3>2, <3>3 DEF WithToken, NotBehind
  <2> QED
    BY <2>1, <2>2
<1>6. ASSUME NEW k \in Calls, SufferRefusal(k), row'[c] # row[c]
      PROVE  call[k].conn = c
  BY <1>1, <1>6 DEF SufferRefusal, TokenTypeOK
<1>7. ASSUME NEW d \in Conns, Expire(d)
      PROVE  Kept
  BY <1>1, <1>7 DEF Expire, TokenTypeOK, Row
<1>8. ASSUME NEW d \in Conns, Reauthenticate(d)
      PROVE  Kept \/ Written
  BY <1>1, <1>8 DEF Reauthenticate, WithToken, TokenTypeOK
<1>9. ASSUME NEW k \in Calls, Refreshes(k)
      PROVE  row'[c] = row[c] \/ Kept \/ Written \/ SufferRefusal(k)
  <2>1. CASE ReuseRotation(k) \/ UseStoredToken(k)
    BY <1>3, <2>1 DEF ReuseRotation, UseStoredToken, Rotated
  <2>2. CASE Join(k) \/ Lead(k) \/ Grants(k) \/ Refuses(k) \/ Unreachable(k) \/ MissReply(k)
    BY <2>2 DEF Join, Lead, Grants, Refuses, Unreachable, MissReply
  <2> QED
    BY <1>4, <1>5, <1>9, <2>1, <2>2 DEF Refreshes
<1>10. CASE UNCHANGED vars
  BY <1>2, <1>10 DEF vars, tokenVars
<1>11. CASE Next
  BY <1>2, <1>6, <1>7, <1>8, <1>9, <1>11 DEF Next, Load, GiveUp, Overlap, ForgetRotation
<1> QED
  BY <1>10, <1>11

-----------------------------------------------------------------------------
(* Theorems.                                                               *)

\* Rows, tokens, the rotation map and callers stay of their types, whatever the
\* callers of a connection do to one another (tokenRefresh.ts, chatCore.ts).
THEOREM TokenTypeCorrect == Spec => []TokenTypeOK
<1>1. Init => TokenTypeOK
  BY InitFits DEF TokenInv
<1>2. TokenTypeOK /\ [Next]_vars => TokenTypeOK'
  BY TypesStay
<1> QED
  BY <1>1, <1>2, PTL DEF Spec

\* The invariant all else follows from, as long as a rotation is remembered until
\* the token it issued is next due and no attempt of a request goes on beside the
\* next one.
THEOREM TokenInvariant ==
  ASSUME ~QuickRotations, "overlap" \notin Faults
  PROVE  Spec => []TokenInv
<1>1. TokenInv /\ [Next]_vars => TokenInv'
  BY StepKeepsInv
<1> QED
  BY <1>1, InitFits, PTL DEF Spec

\* No refresh token is presented twice unless an answer of the provider was lost,
\* a write failed or a request stopped waiting: mutex, rotation map and stored row together keep
\* every caller from a spent token (rotationMap.ts:7-11).
THEOREM TokensSpentOnce ==
  ASSUME ~QuickRotations, "overlap" \notin Faults
  PROVE  Spec => []NoReuse
<1>1. TokenInv => NoReuse
  BY DEF TokenInv, NoReuse, Sound, Healthy, RowFits, Last, Family
<1> QED
  BY <1>1, TokenInvariant, PTL

\* Without faults every rotation reaches the row before anybody can load it again
\* (getAccessToken's onPersist and the callers' own persist).
THEOREM RotationsReachRow ==
  ASSUME ~QuickRotations, "overlap" \notin Faults
  PROVE  Spec => []RowIsCurrent
<1>1. ASSUME TokenInv, faults = {}, Quiet, NEW c \in Conns, mutex[c] = NoCall
      PROVE  row[c].token = server[c].valid
  <2>1. /\ TokenTypeOK /\ Sound(c) /\ RowFits(c) /\ Family(c) = 1
        /\ row[c].token # 0 /\ server[c].valid = Last(c) /\ RotatedSound(c)
    BY <1>1 DEF TokenInv, Sound, RowFits, Healthy, Spotless
  <2>2. row[c].token \in Nat /\ Last(c) \in Nat
    BY <2>1, Typed DEF Last
  <2>3. \A j \in Calls : Active(j, c) => call[j].pc = "ready" /\ ~WillWrite(j, c)
    BY <1>1, <2>1, NobodyRefreshes
  <2>4. CASE Last(c) = 1
    BY <2>1, <2>2, <2>4 DEF RowFits
  <2>5. CASE Last(c) # 1
    <3>1. Family(c) < Last(c)
      BY <2>1, <2>2, <2>5 DEF RowFits
    <3>2. Covered(c)
      BY <2>1, <2>3, <3>1 DEF RotatedSound, Unrevealed, WillWrite
    <3> QED
      BY <2>1, <2>2, <3>2 DEF Covered, Harmless
  <2> QED
    BY <2>4, <2>5
<1>2. TokenInv => RowIsCurrent
  BY <1>1 DEF RowIsCurrent
<1> QED
  BY <1>2, TokenInvariant, PTL

\* No persist, of a leader, of one who joined or of one answered from the map or
\* the row, puts an older token over a newer one (casGuard.ts:7-15).
THEOREM NoPersistReverts ==
  ASSUME ~QuickRotations, "overlap" \notin Faults
  PROVE  Spec => RowNeverReverts
<1>1. ASSUME TokenInv, [Next]_vars, NEW c \in Conns, "reauth" \notin faults, row'[c].token # 0
      PROVE  row'[c].token >= row[c].token
  <2>1. TokenTypeOK /\ row[c].token \in Nat
    BY <1>1, Typed DEF TokenInv
  <2>2. CASE row'[c].token = row[c].token
    BY <2>1, <2>2
  <2>3. ASSUME NEW k \in Calls, call[k].conn = c, SufferRefusal(k)
        PROVE  row'[c].token = row[c].token
    <3>1. row[c] \in Row
      BY <2>1 DEF TokenTypeOK
    <3>2. row'[c] = row[c] \/ row'[c] = GiveUpAccount(k, row[c])
      BY <2>1, <2>3 DEF SufferRefusal, TokenTypeOK
    <3> QED
      BY <1>1, <3>1, <3>2 DEF GiveUpAccount, Row
  <2> QED
    BY <1>1, <2>2, <2>3, RowSteps
<1>2. TokenInv /\ [Next]_vars
        => \A c \in Conns : "reauth" \notin faults /\ row'[c].token # 0
              => row'[c].token >= row[c].token
  BY <1>1
<1> QED
  BY <1>2, TokenInvariant, PTL DEF Spec, RowNeverReverts

\* An account is never given up by the caller whose token was refused while the
\* row holds the valid one: only one that shared the refusal may do so
\* (refreshSerializer.ts:104-112, chatCore.ts:4099-4105).
THEOREM LeadersSpare ==
  ASSUME ~QuickRotations, "overlap" \notin Faults
  PROVE  Spec => LeaderSparesAccount
<1>1. ASSUME TokenInv, [Next]_vars, NEW c \in Conns, GivesUpHealthyAccount(c)
      PROVE  \E k \in Calls : call[k].pc = "told" /\ call'[k].pc = "idle"
  <2>1. TokenTypeOK /\ OneAnswer /\ Sound(c) /\ RowFits(c)
    BY <1>1 DEF TokenInv, Sound
  <2>2. PICK k \in Calls : call[k].conn = c /\ SufferRefusal(k)
    BY <1>1, RowSteps DEF GivesUpHealthyAccount
  <2>3. HasReply(k) /\ call[k].reply = "dead" /\ StillHeld(k) /\ call'[k].pc = "idle"
    BY <1>1, <2>1, <2>2 DEF SufferRefusal, GivesUpHealthyAccount, Idle, IdleCall, TokenTypeOK
  <2>4. RefusalSound(k, c)
    BY <2>1, <2>2, <2>3, AnswersAgree
  <2>5. row[c].token = call[k].attempted
    BY <1>1, <2>1, <2>2, <2>3 DEF StillHeld, GivesUpHealthyAccount, RowFits
  <2>6. call[k].pc # "served"
    BY <1>1, <2>3, <2>4, <2>5 DEF RefusalSound, GivesUpHealthyAccount
  <2> QED
    BY <2>3, <2>6 DEF HasReply
<1>2. TokenInv /\ [Next]_vars
        => \A c \in Conns : GivesUpHealthyAccount(c)
              => \E k \in Calls : call[k].pc = "told" /\ call'[k].pc = "idle"
  BY <1>1
<1> QED
  BY <1>2, TokenInvariant, PTL DEF Spec, LeaderSparesAccount

=============================================================================
